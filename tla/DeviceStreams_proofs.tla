------------------------ MODULE DeviceStreams_proofs ------------------------
(***************************************************************************)
(* For any number of streams, GPUs, workers, instances and calls: a stream *)
(* that is being loaded belongs to one worker, every root and proof is     *)
(* copied out once and is that of its job, and a borrower that comes after *)
(* the resident proofs has the first GPU to itself.                        *)
(***************************************************************************)
EXTENDS DeviceStreams, FiniteSetTheorems, SequenceTheorems, WellFoundedInduction, TLAPS

-----------------------------------------------------------------------------
(* The invariant.                                                          *)
(* Workers by their place in selectStream and after it.                    *)
Scanning(t) == pc[t] \in {"recursive", "plain"}
Loaded(t) == pc[t] \in {"launch", "publish"}

(* A stream whose result waits to be collected, and one without a job.     *)
Published(s) == status[s] = 2 /\ sink[s] # None
Settled(s) == status[s] \in {0, 3}

(* The jobs with a result, and the proof a resident trace waits for.       *)
Out == {j \in Jobs : delivered[j] # <<>>}
Waiting(s) == Job("basic", job[s].inst)
Resting == IF phase = "resident" THEN left ELSE {}

(* The phases before the resident proofs, those after the last wait, and   *)
(* the jobs of the phase.                                                  *)
Early == phase \in {"commit", "roots"}
Late == phase \in {"collect", "join", "done"}
Roots == {Job("witness", i) : i \in setup.insts}
Current == IF Early THEN Roots ELSE Proofs

(* What the pinned buffer of a stream can hold.                            *)
Outcomes == [job : Jobs, trace : {c.trace : c \in Contents},
             tree : {c.tree : c \in Contents}] \cup {None}

(* The values of the variables TypeOK does not name.                       *)
Types ==
  /\ setup \in Setups /\ run <= setup.runs /\ (phase # "done" => run > 0)
  /\ scan \in [Threads -> SUBSET Streams]
  /\ reuse \in [Threads -> BOOLEAN]
  /\ pinned \in [Streams -> Outcomes]
  /\ delivered \in [Jobs -> Seq(Outcomes)]

(* Where a worker can be in each phase.                                    *)
Places ==
  /\ phase \in {"roots", "done"} => \A t \in Threads : pc[t] = "idle"
  /\ phase = "resident" => \A t \in Threads : ~Scanning(t) /\ pc[t] # "select"
  /\ \A s \in Streams : lock[s] \in Threads => Scanning(lock[s])
  /\ \A s \in Streams : sink[s] # None => job[s] # None
  /\ \A s \in Resting : job[s] # None

(* What holds in every call, also in one that is cancelled.                *)
BaseInv == TypeOK /\ Types /\ Places

(* A stream is loading exactly while one worker has it, and what a worker  *)
(* locks stays free until it is reserved.                                  *)
Owned ==
  /\ \A t \in Threads : at[t] # None => status[at[t]] = 1
  /\ \A t, u \in Threads : at[t] # None /\ at[t] = at[u] => t = u
  /\ \A s \in Streams : status[s] = 1 => \E t \in Threads : at[t] = s
  /\ \A s \in Streams : lock[s] \in Threads => Free(s)

(* The fields of a stream are those of the job that is being loaded, and a *)
(* stream that was collected has no host buffer left.                      *)
Described ==
  /\ \A t \in Threads : Loaded(t) => job[at[t]] = mine[t] /\ sink[at[t]] # None
  /\ \A s \in Streams : Settled(s) => sink[s] = None

(* A job waits, is with one worker, is on one stream or has its result.    *)
OnePlace ==
  /\ todo \cap Out = {}
  /\ \A t \in Threads : mine[t] \notin todo /\ mine[t] \notin Out
  /\ \A t, u \in Threads : mine[t] # None /\ mine[t] = mine[u] => t = u
  /\ \A s \in Streams : Published(s) =>
       /\ job[s] \notin todo /\ job[s] \notin Out
       /\ \A t \in Threads : job[s] # mine[t]
       /\ \A r \in Streams : Published(r) /\ job[r] = job[s] => r = s

(* A resident trace that nobody took yet is on a stream without a job, and *)
(* the proof it waits for is nowhere else.                                 *)
RestingApart ==
  \A s \in Resting :
    /\ Settled(s) /\ job[s] \in Roots
    /\ Waiting(s) \notin todo /\ Waiting(s) \notin Out
    /\ \A t \in Threads : Waiting(s) # mine[t]
    /\ \A r \in Streams : Published(r) => job[r] # Waiting(s)
    /\ \A r \in Resting : job[r] = job[s] => r = s

(* Roots before the resident proofs, proofs from then on.                  *)
CurrentOnly ==
  /\ todo \subseteq Current
  /\ \A t \in Threads : mine[t] # None => mine[t] \in Current
  /\ \A s \in Streams : Published(s) => job[s] \in Current
  /\ Early => Out \subseteq Roots

(* One result per job, and one announcement per proof.                     *)
Counts ==
  \A j \in Jobs :
    Len(delivered[j]) <= 1 /\ announced[j] = IF j.kind = "witness" THEN 0 ELSE Len(delivered[j])

(* In the contributions phase every described stream has a root of its     *)
(* own, on its way or delivered: the streams with a trace and the          *)
(* instances they are taken for.                                           *)
RootOnce ==
  Early => \A s \in Streams : job[s] # None =>
    /\ job[s] \in Roots
    /\ \/ \E t \in Threads : at[t] = s /\ Loaded(t)
       \/ Published(s)
       \/ job[s] \in Out
    /\ \A r \in Streams : job[r] = job[s] => r = s

(* The job j is somewhere.                                                 *)
Somewhere(j) ==
  \/ j \in todo \cup Out
  \/ \E t \in Threads : mine[t] = j
  \/ \E s \in Streams : Published(s) /\ job[s] = j
  \/ \E s \in Resting : Waiting(s) = j

(* No job of the phase is lost; the roots are complete when the resident   *)
(* proofs begin, the proofs when the wait for them ends.                   *)
NothingLost ==
  /\ run > 0 => \A j \in Current : Somewhere(j)
  /\ ~Early /\ run > 0 => Roots \subseteq Out
  /\ Late /\ run > 0 => Proofs \subseteq Out
  /\ phase = "roots" => todo = {} /\ \A s \in Streams \ left : Settled(s)

(* The invariant of a call that is not cancelled.                          *)
Live == /\ Owned /\ Described /\ OnePlace /\ RestingApart
        /\ CurrentOnly /\ Counts /\ RootOnce /\ NothingLost

LiveInv == ~cancelled => Live

-----------------------------------------------------------------------------
(* The least and the greatest of some streams are among them.             *)
LEMMA MinExists ==
  ASSUME NEW S, S \subseteq Nat, IsFiniteSet(S), S # {}
  PROVE  Min(S) \in S
<1> DEFINE Below(x) == {y \in S : y < x}
           T == {Below(x) : x \in S}
<1>1. IsWellFoundedOn(StrictSubsetOrdering(S), FiniteSubsetsOf(S))
  BY FS_StrictSubsetOrderingWellFounded
<1>2. T \subseteq FiniteSubsetsOf(S) /\ T # {}
  <2>1. \A x \in S : Below(x) \subseteq S
    OBVIOUS
  <2>2. \A R \in SUBSET S : IsFiniteSet(R)
    BY FS_Subset
  <2> QED BY <2>1, <2>2 DEF FiniteSubsetsOf
<1>3. PICK a \in T : \A b \in T : ~(<<b, a>> \in StrictSubsetOrdering(S))
  <2> HIDE DEF T
  <2> QED BY <1>1, <1>2, WFMin
<1>4. PICK x \in S : a = Below(x)
  OBVIOUS
<1>5. \A y \in S : x =< y
  <2> SUFFICES ASSUME NEW y \in S, y < x PROVE FALSE
    OBVIOUS
  <2>. x \in Nat /\ \A z \in S : z \in Nat
    OBVIOUS
  <2>1. \A z \in Below(y) : z < x
    OBVIOUS
  <2>2. y \in Below(x) /\ y \notin Below(y)
    OBVIOUS
  <2>3. Below(y) \subseteq Below(x)
    BY <2>1
  <2>4. <<Below(y), Below(x)>> \in StrictSubsetOrdering(S)
    BY <2>2, <2>3 DEF StrictSubsetOrdering
  <2> QED BY <2>4, <1>3, <1>4
<1> QED BY <1>5 DEF Min

LEMMA MaxExists ==
  ASSUME NEW S, S \subseteq Nat, IsFiniteSet(S), S # {}
  PROVE  Max(S) \in S
<1> DEFINE Above(x) == {y \in S : y > x}
           T == {Above(x) : x \in S}
<1>1. IsWellFoundedOn(StrictSubsetOrdering(S), FiniteSubsetsOf(S))
  BY FS_StrictSubsetOrderingWellFounded
<1>2. T \subseteq FiniteSubsetsOf(S) /\ T # {}
  <2>1. \A x \in S : Above(x) \subseteq S
    OBVIOUS
  <2>2. \A R \in SUBSET S : IsFiniteSet(R)
    BY FS_Subset
  <2> QED BY <2>1, <2>2 DEF FiniteSubsetsOf
<1>3. PICK a \in T : \A b \in T : ~(<<b, a>> \in StrictSubsetOrdering(S))
  <2> HIDE DEF T
  <2> QED BY <1>1, <1>2, WFMin
<1>4. PICK x \in S : a = Above(x)
  OBVIOUS
<1>5. \A y \in S : x >= y
  <2> SUFFICES ASSUME NEW y \in S, y > x PROVE FALSE
    OBVIOUS
  <2>. x \in Nat /\ \A z \in S : z \in Nat
    OBVIOUS
  <2>1. \A z \in Above(y) : z > x
    OBVIOUS
  <2>2. y \in Above(x) /\ y \notin Above(y)
    OBVIOUS
  <2>3. Above(y) \subseteq Above(x)
    BY <2>1
  <2>4. <<Above(y), Above(x)>> \in StrictSubsetOrdering(S)
    BY <2>2, <2>3 DEF StrictSubsetOrdering
  <2> QED BY <2>4, <1>3, <1>4
<1> QED BY <1>5 DEF Max

LEMMA PreferredIn ==
  ASSUME NEW H, H \subseteq Streams
  PROVE  Preferred(H) \subseteq H
<1> DEFINE On(g) == {s \in H : GpuOf[s] = g}
           Unused(g) == {s \in On(g) : status[s] = 0}
<1>1. ASSUME NEW g \in {GpuOf[s] : s \in H}
      PROVE  /\ Unused(g) = {} => Min(On(g)) \in H
             /\ Unused(g) # {} => Max(Unused(g)) \in H
  <2>1. \A R \in SUBSET Streams : IsFiniteSet(R) /\ R \subseteq Nat
    BY StreamsAssumption, FS_Subset
  <2>2. On(g) # {} /\ On(g) \in SUBSET Streams /\ Unused(g) \in SUBSET Streams
    OBVIOUS
  <2>3. On(g) \subseteq H /\ Unused(g) \subseteq H
    OBVIOUS
  <2>4. Min(On(g)) \in On(g)
    BY <2>1, <2>2, MinExists
  <2>5. Unused(g) # {} => Max(Unused(g)) \in Unused(g)
    BY <2>1, <2>2, MaxExists
  <2> HIDE DEF On, Unused
  <2> QED BY <2>3, <2>4, <2>5
<1> QED BY <1>1 DEF Preferred

-----------------------------------------------------------------------------
(* What collecting a stream can change.                                    *)
LEMMA CollectTypes ==
  ASSUME BaseInv, NEW s \in Streams, Collect(s)
  PROVE  delivered' \in [Jobs -> Seq(Outcomes)] /\ announced' \in [Jobs -> Nat]
<1>1. CASE sink[s] = None
  BY <1>1 DEF Collect, BaseInv, TypeOK, Types, out
<1>2. CASE sink[s] # None
  <2>1. job[s] \in Jobs /\ pinned[s] \in Outcomes
    BY <1>2 DEF BaseInv, TypeOK, Types, Places
  <2>2. delivered \in [Jobs -> Seq(Outcomes)] /\ announced \in [Jobs -> Nat]
    BY DEF BaseInv, TypeOK, Types
  <2>3. Append(delivered[job[s]], pinned[s]) \in Seq(Outcomes)
    BY <2>1, <2>2, AppendProperties
  <2>4. delivered' = [delivered EXCEPT ![job[s]] = Append(@, pinned[s])]
    BY <1>2 DEF Collect
  <2>5. announced' = announced \/ announced' = [announced EXCEPT ![job[s]] = @ + 1]
    BY <1>2 DEF Collect
  <2>6. delivered' \in [Jobs -> Seq(Outcomes)]
    BY <2>1, <2>2, <2>3, <2>4
  <2>7. announced' \in [Jobs -> Nat]
    <3>1. CASE announced' = announced
      BY <2>2, <3>1
    <3>2. CASE announced' = [announced EXCEPT ![job[s]] = @ + 1]
      <4>1. announced[job[s]] + 1 \in Nat
        BY <2>1, <2>2
      <4> QED BY <2>1, <2>2, <3>2, <4>1
    <3> QED BY <2>5, <3>1, <3>2
  <2> QED BY <2>6, <2>7
<1> QED BY <1>1, <1>2

LEMMA FinishTypes ==
  ASSUME BaseInv, NEW s \in Streams, Finish(s)
  PROVE  delivered' \in [Jobs -> Seq(Outcomes)] /\ announced' \in [Jobs -> Nat]
<1>1. CASE status[s] = 2 /\ EventDone(s)
  BY <1>1, CollectTypes DEF Finish
<1>2. CASE ~(status[s] = 2 /\ EventDone(s))
  BY <1>2 DEF Finish, BaseInv, TypeOK, Types, out
<1> QED BY <1>1, <1>2

LEMMA InitBase == Init => BaseInv
<1> SUFFICES ASSUME Init PROVE BaseInv
  OBVIOUS
<1>1. TypeOK
  <2>1. [trace |-> None, tree |-> None] \in Contents
    BY DEF Contents
  <2>2. buffer \in [Streams -> Contents]
    BY <2>1 DEF Init
  <2>3. run \in 0 .. MaxRuns /\ borrows \in 0 .. MaxBorrows
    BY NamesAssumption DEF Init
  <2>4. lock \in [Streams -> Threads \cup {"borrower", None}]
        /\ status \in [Streams -> 0 .. 3] /\ sink \in [Streams -> {"root", "proof", None}]
        /\ recorded \in [Streams -> BOOLEAN] /\ announced \in [Jobs -> Nat]
    BY DEF Init
  <2>5. todo \subseteq Jobs /\ left \subseteq Streams /\ drain \subseteq First
        /\ job \in [Streams -> Jobs \cup {None}] /\ running \in [Streams -> Jobs \cup {None}]
    BY DEF Init
  <2>6. \A t \in Threads : pc[t] = "idle" /\ mine[t] = None /\ at[t] = None
    BY DEF Init
  <2>7. /\ pc \in [Threads -> {"idle", "select", "recursive", "plain",
                         "describe", "launch", "publish"}]
        /\ mine \in [Threads -> Jobs \cup {None}]
        /\ at \in [Threads -> Streams \cup {None}]
    BY DEF Init
  <2>8. cancelled = FALSE /\ borrowed = FALSE /\ phase = "done" /\ borrower = "away"
    BY DEF Init
  <2> QED BY <2>2, <2>3, <2>4, <2>5, <2>6, <2>7, <2>8 DEF TypeOK
<1>2. Types
  BY SetupsAssumption DEF Init, Types, Outcomes
<1>3. Places
  BY NamesAssumption DEF Init, Places, Resting, Scanning
<1> QED BY <1>1, <1>2, <1>3 DEF BaseInv

LEMMA StartRunBase ==
  ASSUME BaseInv, StartRun
  PROVE  BaseInv'
<1>1. TypeOK'
  <2>1. setup \in Setups /\ setup.insts \subseteq Instances /\ setup.runs \in 1 .. MaxRuns
    BY SetupsAssumption DEF BaseInv, Types
  <2>2. run + 1 \in 1 .. MaxRuns
    BY <2>1, NamesAssumption DEF StartRun, BaseInv, TypeOK
  <2>3. todo' \subseteq Jobs
    BY <2>1, <2>2 DEF StartRun, Jobs, Kinds
  <2>4. announced' \in [Jobs -> Nat] /\ status' \in [Streams -> 0 .. 3]
        /\ sink' \in [Streams -> {"root", "proof", None}]
        /\ recorded' \in [Streams -> BOOLEAN] /\ job' \in [Streams -> Jobs \cup {None}]
    BY DEF StartRun
  <2>5. run' \in 0 .. MaxRuns /\ phase' = "commit" /\ cancelled' = FALSE
    BY <2>2 DEF StartRun, BaseInv, TypeOK
  <2>6. UNCHANGED <<setup, left, lock, running, buffer, pc, mine, at, borrowed,
          borrower, drain, borrows>>
    BY DEF StartRun, work, loan
  <2> QED BY <2>3, <2>4, <2>5, <2>6 DEF BaseInv, TypeOK
<1>2. Types'
  BY NamesAssumption, SetupsAssumption DEF BaseInv, TypeOK, Types, Places, StartRun,
     main, cards, work, out, loan, Jobs
<1>3. Places'
  BY NamesAssumption DEF BaseInv, TypeOK, Types, Places, Resting, Scanning, StartRun,
     main, cards, work, out, loan, Jobs
<1> QED BY <1>1, <1>2, <1>3 DEF BaseInv

LEMMA CancelBase ==
  ASSUME BaseInv, Cancel
  PROVE  BaseInv'
<1>1. TypeOK'
  BY NamesAssumption DEF BaseInv, TypeOK, Types, Places, Cancel, main, cards, work,
     out, loan
<1>2. Types'
  BY NamesAssumption, SetupsAssumption DEF BaseInv, TypeOK, Types, Places, Cancel,
     main, cards, work, out, loan
<1>3. Places'
  BY NamesAssumption DEF BaseInv, TypeOK, Types, Places, Resting, Scanning, Cancel,
     main, cards, work, out, loan
<1> QED BY <1>1, <1>2, <1>3 DEF BaseInv

LEMMA AskBase ==
  ASSUME BaseInv, Ask
  PROVE  BaseInv'
<1>1. TypeOK'
  BY NamesAssumption DEF BaseInv, TypeOK, Types, Places, Ask, main, cards, work, out, loan
<1>2. Types'
  BY NamesAssumption, SetupsAssumption DEF BaseInv, TypeOK, Types, Places, Ask, main,
     cards, work, out, loan
<1>3. Places'
  BY NamesAssumption DEF BaseInv, TypeOK, Types, Places, Resting, Scanning, Ask, main,
     cards, work, out, loan
<1> QED BY <1>1, <1>2, <1>3 DEF BaseInv

LEMMA JoinContributionsBase ==
  ASSUME BaseInv, JoinContributions
  PROVE  BaseInv'
<1>1. TypeOK'
  BY NamesAssumption DEF BaseInv, TypeOK, Types, Places, JoinContributions, main,
     cards, work, out, loan, Working
<1>2. Types'
  BY NamesAssumption, SetupsAssumption DEF BaseInv, TypeOK, Types, Places,
     JoinContributions, main, cards, work, out, loan, Working
<1>3. Places'
  BY NamesAssumption DEF BaseInv, TypeOK, Types, Places, Resting, Scanning,
     JoinContributions, main, cards, work, out, loan, Working
<1> QED BY <1>1, <1>2, <1>3 DEF BaseInv

LEMMA CollectStreamBase ==
  ASSUME BaseInv, CollectStream
  PROVE  BaseInv'
<1>1. TypeOK' /\ delivered' \in [Jobs -> Seq(Outcomes)]
  <2> DEFINE s == Min(left)
  <2>0. s \in Streams
    <3>1. left \subseteq Nat /\ IsFiniteSet(left) /\ left # {}
      BY StreamsAssumption, FS_Subset DEF CollectStream, BaseInv, TypeOK
    <3> QED BY <3>1, MinExists DEF BaseInv, TypeOK
  <2>1. /\ UNCHANGED <<run, cancelled, phase, todo, borrowed, drain, lock, job,
           running, buffer, work, borrower, borrows>>
        /\ left' \subseteq left
    BY DEF CollectStream, loan
  <2>2. CASE UNCHANGED <<status, sink, recorded, out>>
    BY <2>1, <2>2 DEF BaseInv, TypeOK, Types, work, out
  <2>3. CASE Collect(s) /\ ResetTo(s, 3)
    <3>1. delivered' \in [Jobs -> Seq(Outcomes)] /\ announced' \in [Jobs -> Nat]
      BY <2>0, <2>3, CollectTypes
    <3> QED BY <2>0, <2>1, <2>3, <3>1 DEF BaseInv, TypeOK, ResetTo, work
  <2> QED BY <2>2, <2>3 DEF CollectStream
<1>2. Types'
  BY <1>1 DEF BaseInv, Types, CollectStream, work
<1>3. Places'
  BY NamesAssumption DEF BaseInv, TypeOK, Types, Places, Resting, Scanning,
     CollectStream, main, cards, work, out, loan, ResetTo
<1> QED BY <1>1, <1>2, <1>3 DEF BaseInv

LEMMA FindResidentBase ==
  ASSUME BaseInv, FindResident
  PROVE  BaseInv'
<1>1. TypeOK'
  <2>1. setup.insts \subseteq Instances
    BY SetupsAssumption DEF BaseInv, Types
  <2>2. run \in 1 .. MaxRuns
    BY NamesAssumption DEF FindResident, BaseInv, TypeOK, Types
  <2>3. todo' \subseteq Jobs
    BY <2>1, <2>2 DEF FindResident, Jobs, Job, Kinds
  <2> QED BY <2>3 DEF BaseInv, TypeOK, FindResident, cards, work, out, loan
<1>2. Types'
  BY NamesAssumption, SetupsAssumption DEF BaseInv, TypeOK, Types, Places,
     FindResident, main, cards, work, out, loan, Jobs, Job, Kinds
<1>3. Places'
  BY NamesAssumption DEF BaseInv, TypeOK, Types, Places, Resting, Scanning,
     FindResident, main, cards, work, out, loan, Jobs, Job, Kinds
<1> QED BY <1>1, <1>2, <1>3 DEF BaseInv

LEMMA JoinResidentBase ==
  ASSUME BaseInv, JoinResident
  PROVE  BaseInv'
<1>1. TypeOK'
  BY NamesAssumption DEF BaseInv, TypeOK, Types, Places, JoinResident, main, cards,
     work, out, loan, Working
<1>2. Types'
  BY NamesAssumption, SetupsAssumption DEF BaseInv, TypeOK, Types, Places,
     JoinResident, main, cards, work, out, loan, Working
<1>3. Places'
  BY NamesAssumption DEF BaseInv, TypeOK, Types, Places, Resting, Scanning,
     JoinResident, main, cards, work, out, loan, Working
<1> QED BY <1>1, <1>2, <1>3 DEF BaseInv

LEMMA WaitZeroBase ==
  ASSUME BaseInv, WaitZero
  PROVE  BaseInv'
<1>1. TypeOK'
  BY NamesAssumption DEF BaseInv, TypeOK, Types, Places, WaitZero, main, cards, work,
     out, loan
<1>2. Types'
  BY NamesAssumption, SetupsAssumption DEF BaseInv, TypeOK, Types, Places, WaitZero,
     main, cards, work, out, loan
<1>3. Places'
  BY NamesAssumption DEF BaseInv, TypeOK, Types, Places, Resting, Scanning, WaitZero,
     main, cards, work, out, loan
<1> QED BY <1>1, <1>2, <1>3 DEF BaseInv

LEMMA ClearCallbackBase ==
  ASSUME BaseInv, ClearCallback
  PROVE  BaseInv'
<1>1. TypeOK'
  BY NamesAssumption DEF BaseInv, TypeOK, Types, Places, ClearCallback, main, cards,
     work, out, loan
<1>2. Types'
  BY NamesAssumption, SetupsAssumption DEF BaseInv, TypeOK, Types, Places,
     ClearCallback, main, cards, work, out, loan
<1>3. Places'
  BY NamesAssumption DEF BaseInv, TypeOK, Types, Places, Resting, Scanning,
     ClearCallback, main, cards, work, out, loan
<1> QED BY <1>1, <1>2, <1>3 DEF BaseInv

LEMMA JoinWorkersBase ==
  ASSUME BaseInv, JoinWorkers
  PROVE  BaseInv'
<1>1. TypeOK'
  BY NamesAssumption DEF BaseInv, TypeOK, Types, Places, JoinWorkers, main, cards,
     work, out, loan, Working
<1>2. Types'
  BY NamesAssumption, SetupsAssumption DEF BaseInv, TypeOK, Types, Places, JoinWorkers,
     main, cards, work, out, loan, Working
<1>3. Places'
  BY NamesAssumption DEF BaseInv, TypeOK, Types, Places, Resting, Scanning,
     JoinWorkers, main, cards, work, out, loan, Working
<1> QED BY <1>1, <1>2, <1>3 DEF BaseInv

LEMMA PollBase ==
  ASSUME BaseInv, NEW s \in Streams, Poll(s)
  PROVE  BaseInv'
<1>1. TypeOK'
  BY CollectTypes, NamesAssumption DEF BaseInv, TypeOK, Types, Places, Poll, main,
     cards, work, out, loan, ResetTo
<1>2. Types'
  BY CollectTypes, NamesAssumption, SetupsAssumption DEF BaseInv, TypeOK, Types,
     Places, Poll, main, cards, work, out, loan, ResetTo
<1>3. Places'
  BY NamesAssumption DEF BaseInv, TypeOK, Types, Places, Resting, Scanning, Poll, main,
     cards, work, out, loan, ResetTo
<1> QED BY <1>1, <1>2, <1>3 DEF BaseInv

LEMMA LockFirstBase ==
  ASSUME BaseInv, LockFirst
  PROVE  BaseInv'
<1>1. TypeOK'
  BY NamesAssumption DEF BaseInv, TypeOK, Types, Places, LockFirst, main, cards, work,
     out, loan
<1>2. Types'
  BY NamesAssumption, SetupsAssumption DEF BaseInv, TypeOK, Types, Places, LockFirst,
     main, cards, work, out, loan
<1>3. Places'
  BY NamesAssumption DEF BaseInv, TypeOK, Types, Places, Resting, Scanning, LockFirst,
     main, cards, work, out, loan
<1> QED BY <1>1, <1>2, <1>3 DEF BaseInv

LEMMA RaiseFlagBase ==
  ASSUME BaseInv, RaiseFlag
  PROVE  BaseInv'
<1>1. TypeOK'
  BY NamesAssumption DEF BaseInv, TypeOK, Types, Places, RaiseFlag, main, cards, work,
     out, loan, First
<1>2. Types'
  BY NamesAssumption, SetupsAssumption DEF BaseInv, TypeOK, Types, Places, RaiseFlag,
     main, cards, work, out, loan, First
<1>3. Places'
  BY NamesAssumption DEF BaseInv, TypeOK, Types, Places, Resting, Scanning, RaiseFlag,
     main, cards, work, out, loan, First
<1> QED BY <1>1, <1>2, <1>3 DEF BaseInv

LEMMA DrainBase ==
  ASSUME BaseInv, Drain
  PROVE  BaseInv'
<1>1. TypeOK'
  BY NamesAssumption DEF BaseInv, TypeOK, Types, Places, Drain, main, cards, work, out,
     loan, First
<1>2. Types'
  BY NamesAssumption, SetupsAssumption DEF BaseInv, TypeOK, Types, Places, Drain, main,
     cards, work, out, loan, First
<1>3. Places'
  BY NamesAssumption DEF BaseInv, TypeOK, Types, Places, Resting, Scanning, Drain,
     main, cards, work, out, loan, First
<1> QED BY <1>1, <1>2, <1>3 DEF BaseInv

LEMMA OwnBase ==
  ASSUME BaseInv, Own
  PROVE  BaseInv'
<1>1. TypeOK'
  BY NamesAssumption DEF BaseInv, TypeOK, Types, Places, Own, main, cards, work, out,
     loan, Contents
<1>2. Types'
  BY NamesAssumption, SetupsAssumption DEF BaseInv, TypeOK, Types, Places, Own, main,
     cards, work, out, loan, Contents
<1>3. Places'
  BY NamesAssumption DEF BaseInv, TypeOK, Types, Places, Resting, Scanning, Own, main,
     cards, work, out, loan, Contents
<1> QED BY <1>1, <1>2, <1>3 DEF BaseInv

LEMMA ReturnBase ==
  ASSUME BaseInv, Return
  PROVE  BaseInv'
<1>1. TypeOK'
  BY NamesAssumption DEF BaseInv, TypeOK, Types, Places, Return, main, cards, work,
     out, loan
<1>2. Types'
  BY NamesAssumption, SetupsAssumption DEF BaseInv, TypeOK, Types, Places, Return,
     main, cards, work, out, loan
<1>3. Places'
  BY NamesAssumption DEF BaseInv, TypeOK, Types, Places, Resting, Scanning, Return,
     main, cards, work, out, loan
<1> QED BY <1>1, <1>2, <1>3 DEF BaseInv

LEMMA TakeJobBase ==
  ASSUME BaseInv, NEW t \in Threads, TakeJob(t)
  PROVE  BaseInv'
<1>1. TypeOK'
  BY NamesAssumption DEF BaseInv, TypeOK, Types, Places, TakeJob, main, cards, work,
     out, loan
<1>2. Types'
  BY NamesAssumption, SetupsAssumption DEF BaseInv, TypeOK, Types, Places, TakeJob,
     main, cards, work, out, loan
<1>3. Places'
  BY NamesAssumption DEF BaseInv, TypeOK, Types, Places, Resting, Scanning, TakeJob,
     main, cards, work, out, loan
<1> QED BY <1>1, <1>2, <1>3 DEF BaseInv

LEMMA TakeResidentBase ==
  ASSUME BaseInv, NEW t \in Threads, TakeResident(t)
  PROVE  BaseInv'
<1>1. TypeOK' /\ delivered' \in [Jobs -> Seq(Outcomes)]
  <2>0. PICK s \in left : /\ left' = left \ {s}
                          /\ mine' = [mine EXCEPT ![t] = Job("basic", job[s].inst)]
                          /\ at' = [at EXCEPT ![t] = s]
                          /\ Finish(s)
                          /\ ResetTo(s, 1)
    BY DEF TakeResident
  <2>1. s \in Streams /\ job[s] \in Jobs /\ run \in 1 .. MaxRuns
    BY NamesAssumption DEF BaseInv, TypeOK, Types, Places, Resting, TakeResident
  <2>2. Job("basic", job[s].inst) \in Jobs
    BY <2>1 DEF Jobs, Job, Kinds
  <2>3. delivered' \in [Jobs -> Seq(Outcomes)] /\ announced' \in [Jobs -> Nat]
    BY <2>0, <2>1, FinishTypes
  <2>4. status' \in [Streams -> 0 .. 3] /\ sink' \in [Streams -> {"root", "proof", None}]
        /\ recorded' \in [Streams -> BOOLEAN]
    BY <2>0, <2>1 DEF BaseInv, TypeOK, ResetTo
  <2>5. mine[t] = None /\ at[t] = None
    BY DEF BaseInv, TypeOK, TakeResident
  <2> QED BY <2>0, <2>1, <2>2, <2>3, <2>4, <2>5, NamesAssumption DEF BaseInv, TypeOK,
        TakeResident, loan
<1>2. Types'
  BY <1>1 DEF BaseInv, Types, TakeResident
<1>3. Places'
  BY NamesAssumption DEF BaseInv, TypeOK, Types, Places, Resting, Scanning,
     TakeResident, main, cards, work, out, loan, ResetTo
<1> QED BY <1>1, <1>2, <1>3 DEF BaseInv

LEMMA BeginScanBase ==
  ASSUME BaseInv, NEW t \in Threads, BeginScan(t)
  PROVE  BaseInv'
<1>1. TypeOK'
  <2>1. pc' \in [Threads -> {"idle", "select", "recursive", "plain",
                         "describe", "launch", "publish"}]
    BY DEF BeginScan, BaseInv, TypeOK
  <2>2. pc[t] = "select" /\ pc'[t] \in {"recursive", "plain"}
        /\ \A u \in Threads \ {t} : pc'[u] = pc[u]
    BY DEF BeginScan, BaseInv, TypeOK
  <2>3. UNCHANGED <<main, cards, mine, at, out, loan>>
    BY DEF BeginScan
  <2> QED BY <2>1, <2>2, <2>3 DEF BaseInv, TypeOK, main, cards, out, loan
<1>2. Types'
  <2>1. scan' \in [Threads -> SUBSET Streams]
    BY StreamsAssumption DEF BeginScan, BaseInv, Types
  <2> QED BY <2>1 DEF BaseInv, Types, BeginScan, main, cards, out
<1>3. Places'
  BY NamesAssumption DEF BaseInv, TypeOK, Types, Places, Resting, Scanning, BeginScan,
     main, cards, work, out, loan
<1> QED BY <1>1, <1>2, <1>3 DEF BaseInv

LEMMA TryStreamBase ==
  ASSUME BaseInv, NEW t \in Threads, TryStream(t)
  PROVE  BaseInv'
<1>1. TypeOK'
  BY NamesAssumption DEF BaseInv, TypeOK, Types, Places, TryStream, main, cards, work,
     out, loan
<1>2. Types'
  BY NamesAssumption, SetupsAssumption DEF BaseInv, TypeOK, Types, Places, TryStream,
     main, cards, work, out, loan
<1>3. Places'
  BY NamesAssumption DEF BaseInv, TypeOK, Types, Places, Resting, Scanning, TryStream,
     main, cards, work, out, loan
<1> QED BY <1>1, <1>2, <1>3 DEF BaseInv

LEMMA NothingFreeBase ==
  ASSUME BaseInv, NEW t \in Threads, NothingFree(t)
  PROVE  BaseInv'
<1>1. PICK p \in {"plain", "select"} :
        /\ pc' = [pc EXCEPT ![t] = p]
        /\ scan' = scan \/ scan' = [scan EXCEPT ![t] = Streams \ RecursiveStreams]
  BY DEF NothingFree
<1>2. /\ pc[t] \in {"recursive", "plain"} /\ Held(t) = {}
      /\ UNCHANGED <<main, cards, mine, at, saw, reuse, out, loan>>
  BY DEF NothingFree
<1>3. TypeOK'
  <2>1. pc' \in [Threads -> {"idle", "select", "recursive", "plain",
                         "describe", "launch", "publish"}]
    BY <1>1 DEF BaseInv, TypeOK
  <2>2. pc'[t] = p /\ \A u \in Threads \ {t} : pc'[u] = pc[u]
    BY <1>1 DEF BaseInv, TypeOK
  <2> QED BY <1>2, <2>1, <2>2 DEF BaseInv, TypeOK, main, cards, out, loan
<1>4. Types'
  <2>1. scan' \in [Threads -> SUBSET Streams]
    BY <1>1 DEF BaseInv, Types
  <2> QED BY <1>2, <2>1 DEF BaseInv, Types, main, cards, out
<1>5. Places'
  <2>1. \A s \in Streams : lock[s] # t
    BY <1>2 DEF Held
  <2>2. pc'[t] = p /\ \A u \in Threads \ {t} : pc'[u] = pc[u]
    BY <1>1 DEF BaseInv, TypeOK
  <2>3. phase \notin {"roots", "done", "resident"}
    BY <1>2 DEF BaseInv, Places, Scanning
  <2> QED BY <1>2, <2>1, <2>2, <2>3 DEF BaseInv, Places, Resting, Scanning, main, cards
<1> QED BY <1>3, <1>4, <1>5 DEF BaseInv

LEMMA ReserveBase ==
  ASSUME BaseInv, NEW t \in Threads, Reserve(t)
  PROVE  BaseInv'
<1>1. TypeOK' /\ delivered' \in [Jobs -> Seq(Outcomes)]
  <2>0. PICK s \in Preferred(Held(t)) : Finish(s) /\ ResetTo(s,
          1) /\ at' = [at EXCEPT ![t] = s]
    BY DEF Reserve
  <2>1. s \in Streams
    BY PreferredIn DEF Held
  <2>3. delivered' \in [Jobs -> Seq(Outcomes)] /\ announced' \in [Jobs -> Nat]
    BY <2>0, <2>1, FinishTypes
  <2>4. status' \in [Streams -> 0 .. 3] /\ sink' \in [Streams -> {"root", "proof", None}]
        /\ recorded' \in [Streams -> BOOLEAN]
    BY <2>0, <2>1 DEF BaseInv, TypeOK, ResetTo
  <2>5. lock' \in [Streams -> Threads \cup {"borrower", None}]
    BY DEF BaseInv, TypeOK, Reserve
  <2> QED BY <2>0, <2>1, <2>3, <2>4, <2>5, NamesAssumption DEF BaseInv, TypeOK,
        Reserve, main, loan
<1>2. Types'
  BY <1>1 DEF BaseInv, Types, Reserve, main
<1>3. Places'
  BY NamesAssumption DEF BaseInv, TypeOK, Types, Places, Resting, Scanning, Reserve,
     main, cards, work, out, loan, ResetTo
<1> QED BY <1>1, <1>2, <1>3 DEF BaseInv

LEMMA DescribeBase ==
  ASSUME BaseInv, NEW t \in Threads, Describe(t)
  PROVE  BaseInv'
<1>1. TypeOK'
  BY NamesAssumption DEF BaseInv, TypeOK, Types, Places, Describe, main, cards, work,
     out, loan
<1>2. Types'
  BY NamesAssumption, SetupsAssumption DEF BaseInv, TypeOK, Types, Places, Describe,
     main, cards, work, out, loan
<1>3. Places'
  BY NamesAssumption DEF BaseInv, TypeOK, Types, Places, Resting, Scanning, Describe,
     main, cards, work, out, loan
<1> QED BY <1>1, <1>2, <1>3 DEF BaseInv

LEMMA LaunchBase ==
  ASSUME BaseInv, NEW t \in Threads, Launch(t)
  PROVE  BaseInv'
<1>1. TypeOK'
  <2> DEFINE s == at[t]  j == mine[t]
  <2>1. s \in Streams /\ j \in Jobs
    BY NamesAssumption DEF Launch, BaseInv, TypeOK
  <2>2. buffer' \in [Streams -> Contents]
    <3> DEFINE b == [trace |-> IF phase = "resident" THEN buffer[s].trace ELSE TraceOf(j),
                     tree  |-> IF j.kind = "witness" THEN None
                               ELSE IF reuse[t] THEN buffer[s].tree ELSE Tree(j)]
    <3>1. TraceOf(j) \in [run : 1 .. MaxRuns, aggregated : BOOLEAN, inst : Instances]
      BY <2>1 DEF TraceOf, Jobs
    <3>2. Tree(j) \in Kinds \X {AirOf[i] : i \in Instances}
      BY <2>1 DEF Tree, Jobs
    <3>3. buffer[s] \in Contents
      BY <2>1 DEF BaseInv, TypeOK
    <3>4. b \in Contents
      BY <3>1, <3>2, <3>3 DEF Contents
    <3>5. buffer' = [buffer EXCEPT ![s] = b]
      BY DEF Launch
    <3> QED BY <2>1, <3>4, <3>5 DEF BaseInv, TypeOK
  <2>3. running' \in [Streams -> Jobs \cup {None}] /\ recorded' \in [Streams -> BOOLEAN]
    BY <2>1 DEF Launch, BaseInv, TypeOK
  <2>4. pc' \in [Threads -> {"idle", "select", "recursive", "plain",
                         "describe", "launch", "publish"}]
    BY DEF Launch, BaseInv, TypeOK
  <2>5. pc[t] = "launch" /\ pc'[t] = "publish" /\ \A u \in Threads \ {t} : pc'[u] = pc[u]
    BY DEF Launch, BaseInv, TypeOK
  <2>6. UNCHANGED <<main, lock, status, sink, job, mine, at, out, loan>>
    BY DEF Launch
  <2> QED BY <2>2, <2>3, <2>4, <2>5, <2>6 DEF BaseInv, TypeOK, main, out, loan
<1>2. Types'
  BY NamesAssumption, SetupsAssumption DEF BaseInv, TypeOK, Types, Places, Launch,
     main, cards, work, out, loan
<1>3. Places'
  BY NamesAssumption DEF BaseInv, TypeOK, Types, Places, Resting, Scanning, Launch,
     main, cards, work, out, loan
<1> QED BY <1>1, <1>2, <1>3 DEF BaseInv

LEMMA PublishBase ==
  ASSUME BaseInv, NEW t \in Threads, Publish(t)
  PROVE  BaseInv'
<1>1. TypeOK'
  BY NamesAssumption DEF BaseInv, TypeOK, Types, Places, Publish, main, cards, work,
     out, loan
<1>2. Types'
  BY NamesAssumption, SetupsAssumption DEF BaseInv, TypeOK, Types, Places, Publish,
     main, cards, work, out, loan
<1>3. Places'
  BY NamesAssumption DEF BaseInv, TypeOK, Types, Places, Resting, Scanning, Publish,
     main, cards, work, out, loan
<1> QED BY <1>1, <1>2, <1>3 DEF BaseInv

LEMMA CompleteBase ==
  ASSUME BaseInv, NEW s \in Streams, Complete(s)
  PROVE  BaseInv'
<1>1. TypeOK'
  BY NamesAssumption DEF BaseInv, TypeOK, Types, Places, Complete, main, cards, work,
     out, loan
<1>2. Types'
  <2>1. /\ running[s] \in Jobs /\ buffer[s] \in Contents
        /\ UNCHANGED <<main, work, out>>
        /\ pinned' = [pinned EXCEPT ![s] =
              [job |-> running[s], trace |-> buffer[s].trace, tree |-> buffer[s].tree]]
    BY DEF BaseInv, TypeOK, Complete
  <2>2. [job |-> running[s], trace |-> buffer[s].trace,
          tree |-> buffer[s].tree] \in Outcomes
    BY <2>1 DEF Outcomes
  <2>3. pinned' \in [Streams -> Outcomes]
    BY <2>1, <2>2 DEF BaseInv, Types
  <2> QED BY <2>1, <2>3 DEF BaseInv, Types, main, work, out
<1>3. Places'
  BY NamesAssumption DEF BaseInv, TypeOK, Types, Places, Resting, Scanning, Complete,
     main, cards, work, out, loan
<1> QED BY <1>1, <1>2, <1>3 DEF BaseInv

LEMMA BaseStep == BaseInv /\ [Next]_vars => BaseInv'
<1> SUFFICES ASSUME BaseInv, [Next]_vars PROVE BaseInv'
  OBVIOUS
<1>1. CASE UNCHANGED vars
  BY <1>1 DEF BaseInv, TypeOK, Types, Places, Resting, Scanning, vars, main, cards,
     work, out, loan
<1>2. CASE StartRun \/ Cancel \/ Ask
  BY <1>2, StartRunBase, CancelBase, AskBase
<1>3. CASE Caller
  BY <1>3, JoinContributionsBase, CollectStreamBase, FindResidentBase, JoinResidentBase,
     WaitZeroBase, ClearCallbackBase, JoinWorkersBase, PollBase DEF Caller, CallerMovesOn
<1>4. CASE Borrower
  BY <1>4, LockFirstBase, RaiseFlagBase, DrainBase, OwnBase, ReturnBase DEF Borrower
<1>5. CASE \E t \in Threads : Worker(t)
  BY <1>5, TakeJobBase, TakeResidentBase, BeginScanBase, TryStreamBase, NothingFreeBase,
     ReserveBase, DescribeBase, LaunchBase, PublishBase DEF Worker
<1>6. CASE \E s \in Streams : Complete(s)
  BY <1>6, CompleteBase
<1> QED BY <1>1, <1>2, <1>3, <1>4, <1>5, <1>6 DEF Next

LEMMA BaseAlways == Spec => []BaseInv
<1> QED BY InitBase, BaseStep, PTL DEF Spec

-----------------------------------------------------------------------------
(* The job a stream gives up when it is collected.                         *)
Taken(s) == IF Published(s) THEN {job[s]} ELSE {}

LEMMA LateIdle ==
  ASSUME BaseInv, Live, Late, run > 0
  PROVE  (\A t \in Threads : mine[t] = None) /\ (\A s \in Streams : ~Published(s))
<1>1. Current = Proofs
  BY DEF Late, Early, Current
<1> QED BY <1>1 DEF Live, NothingLost, CurrentOnly, OnePlace

LEMMA RunPositive ==
  ASSUME BaseInv, phase # "done"
  PROVE  run \in Nat /\ run > 0 /\ run \in 1 .. MaxRuns
  BY NamesAssumption DEF BaseInv, TypeOK, Types

LEMMA CurrentJobs ==
  ASSUME BaseInv, run > 0
  PROVE  Roots \subseteq Jobs /\ Proofs \subseteq Jobs /\ Current \subseteq Jobs
<1>1. setup.insts \subseteq Instances /\ run \in 1 .. MaxRuns
  BY SetupsAssumption, NamesAssumption DEF BaseInv, TypeOK, Types
<1> QED BY <1>1 DEF Roots, Proofs, Current, Job, Jobs, Kinds

(* Collecting a stream that is not being loaded adds its job to the        *)
(* results, once, and announces it when it is a proof.                     *)
LEMMA Gathered ==
  ASSUME BaseInv, Live, NEW s \in Streams, status[s] # 1, phase # "done", Collect(s)
  PROVE  Out' = Out \cup Taken(s) /\ Counts'
<1>1. CASE sink[s] = None
  BY <1>1 DEF Collect, Taken, Published, Live, Counts, Out, out
<1>2. CASE sink[s] # None
  <2>1. Published(s)
    BY <1>2 DEF BaseInv, TypeOK, Live, Described, Settled, Published
  <2>2. job[s] \in Jobs /\ job[s] \notin Out /\ job[s] \in Current /\ ~Late
    <3>1. run > 0
      BY RunPositive
    <3>2. job[s] \in Current /\ job[s] \notin Out
      BY <2>1 DEF Live, OnePlace, CurrentOnly
    <3> QED BY <2>1, <3>1, <3>2, CurrentJobs, LateIdle
  <2>3. delivered[job[s]] = <<>> /\ delivered \in [Jobs -> Seq(Outcomes)] /\ announced \in [Jobs -> Nat]
    BY <2>2 DEF Out, BaseInv, TypeOK, Types
  <2>4. delivered' = [delivered EXCEPT ![job[s]] = <<pinned[s]>>]
    BY <1>2, <2>2, <2>3 DEF Collect
  <2>5. Out' = Out \cup {job[s]}
    BY <2>2, <2>3, <2>4 DEF Out
  <2>6. announced' = IF job[s].kind = "witness" THEN announced
                     ELSE [announced EXCEPT ![job[s]] = @ + 1]
    <3>1. CASE Early
      BY <1>2, <2>2, <3>1 DEF Collect, Early, Current, Roots, Job
    <3>2. CASE ~Early
      <4>1. job[s].kind # "witness"
        BY <2>2, <3>2 DEF Current, Proofs, Job, Kinds
      <4> QED BY <1>2, <2>2, <3>2, <4>1 DEF Collect, Early, Late, BaseInv, TypeOK
    <3> QED BY <3>1, <3>2
  <2>7. Counts'
    <3> SUFFICES ASSUME NEW j \in Jobs
                 PROVE  Len(delivered'[j]) <= 1
                        /\ announced'[j] = IF j.kind = "witness" THEN 0 ELSE Len(delivered'[j])
      BY DEF Counts
    <3>1. CASE j = job[s]
      BY <3>1, <2>2, <2>3, <2>4, <2>6 DEF Live, Counts
    <3>2. CASE j # job[s]
      BY <3>2, <2>2, <2>3, <2>4, <2>6 DEF Live, Counts
    <3> QED BY <3>1, <3>2
  <2> QED BY <2>1, <2>5, <2>7 DEF Taken
<1> QED BY <1>1, <1>2

LEMMA Finished ==
  ASSUME BaseInv, Live, NEW s \in Streams, Free(s), phase # "done", Finish(s)
  PROVE  Out' = Out \cup Taken(s) /\ Counts'
<1>1. CASE status[s] = 2
  BY <1>1, Gathered DEF Finish, Free
<1>2. CASE status[s] # 2
  BY <1>2 DEF Finish, Taken, Published, Live, Counts, Out, out
<1> QED BY <1>1, <1>2

-----------------------------------------------------------------------------
(* Steps that move no job: the search for a stream, the device, the loan.  *)
LEMMA StillLive ==
  ASSUME BaseInv, Live,
         UNCHANGED <<setup, run, phase, cancelled, todo, status, sink, job, mine, at,
           out>>,
         Resting' = Resting,
         phase = "roots" => \A s \in Streams \ left' : Settled(s),
         \A t \in Threads : Loaded(t)' = Loaded(t),
         \A s \in Streams : lock'[s] \in Threads => Free(s)'
  PROVE  Live'
<1>1. Out' = Out /\ Resting' = Resting /\ Roots' = Roots /\ Proofs' = Proofs /\ Current' = Current
  BY DEF Out, Roots, Proofs, Current, Early, out, Job
<1>2. \A s \in Streams : /\ Published(s)' = Published(s) /\ Settled(s)' = Settled(s)
                         /\ Waiting(s)' = Waiting(s)
  BY DEF Published, Settled, Waiting, Job
<1>3. Owned'
  BY DEF Live, Owned
<1>4. Described'
  BY <1>2 DEF Live, Described
<1>5. OnePlace'
  BY <1>1, <1>2 DEF Live, OnePlace
<1>6. RestingApart'
  <2>1. \A s \in Resting : s \in Streams
    BY DEF Resting, BaseInv, TypeOK
  <2> QED BY <1>1, <1>2, <2>1 DEF Live, RestingApart
<1>7. CurrentOnly'
  BY <1>1, <1>2 DEF Live, CurrentOnly, Early
<1>8. Counts'
  BY DEF Live, Counts, out
<1>9. RootOnce'
  BY <1>1, <1>2 DEF Live, RootOnce, Early
<1>10. NothingLost'
  <2>1. \A s \in Resting : s \in Streams
    BY DEF Resting, BaseInv, TypeOK
  <2>2. \A j : Somewhere(j)' = Somewhere(j)
    BY <1>1, <1>2, <2>1 DEF Somewhere
  <2> QED BY <1>1, <1>2, <2>2 DEF Live, NothingLost, Early, Late
<1> QED BY <1>3, <1>4, <1>5, <1>6, <1>7, <1>8, <1>9, <1>10 DEF Live

LEMMA QuietLive ==
  ASSUME BaseInv, Live,
         UNCHANGED <<setup, run, phase, cancelled, todo, left, status, sink, job, mine,
           at, out>>,
         \A t \in Threads : Loaded(t)' = Loaded(t),
         \A s \in Streams : lock'[s] \in Threads => Free(s)'
  PROVE  Live'
<1>1. Resting' = Resting
  BY DEF Resting
<1>2. phase = "roots" => \A s \in Streams \ left' : Settled(s)
  BY DEF Live, NothingLost
<1> QED BY <1>1, <1>2, StillLive

LEMMA SearchLive ==
  ASSUME BaseInv, Live, NEW t \in Threads,
         BeginScan(t) \/ TryStream(t) \/ NothingFree(t)
  PROVE  Live'
<1>1. UNCHANGED <<setup, run, phase, cancelled, todo, left, status, sink, job, mine,
        at, out, recorded, running>>
  BY DEF BeginScan, TryStream, NothingFree, main, cards
<1>2. \A u \in Threads : Loaded(u)' = Loaded(u)
  BY DEF BeginScan, TryStream, NothingFree, Loaded, BaseInv, TypeOK
<1>3. \A s \in Streams : Free(s)' = Free(s)
  BY <1>1 DEF Free, EventDone
<1>4. \A s \in Streams : lock'[s] \in Threads => lock[s] \in Threads \/ Free(s)
  BY DEF BeginScan, TryStream, NothingFree, cards, BaseInv, TypeOK
<1> QED BY <1>1, <1>2, <1>3, <1>4, QuietLive DEF Live, Owned

LEMMA LoanLive ==
  ASSUME BaseInv, Live, Ask \/ Borrower
  PROVE  Live'
<1>1. UNCHANGED <<setup, run, phase, cancelled, todo, left, status, sink, job, mine,
        at, pc, out, recorded, running>>
  BY DEF Borrower, Ask, LockFirst, RaiseFlag, Drain, Own, Return, main, cards, work
<1>2. \A u \in Threads : Loaded(u)' = Loaded(u)
  BY <1>1 DEF Loaded
<1>3. \A s \in Streams : Free(s)' = Free(s)
  BY <1>1 DEF Free, EventDone
<1>4. \A s \in Streams : lock'[s] \in Threads => lock[s] \in Threads
  BY NamesAssumption DEF Borrower, Ask, LockFirst, RaiseFlag, Drain, Own, Return,
     cards, BaseInv, TypeOK
<1> QED BY <1>1, <1>2, <1>3, <1>4, QuietLive DEF Live, Owned

LEMMA CompleteLive ==
  ASSUME BaseInv, Live, NEW s \in Streams, Complete(s)
  PROVE  Live'
<1>1. UNCHANGED <<setup, run, phase, cancelled, todo, left, status, sink, job, mine,
        at, pc, out, recorded, lock>>
  BY DEF Complete, main, work
<1>2. \A u \in Threads : Loaded(u)' = Loaded(u)
  BY <1>1 DEF Loaded
<1>3. \A r \in Streams : Free(r) => Free(r)'
  BY <1>1 DEF Free, EventDone, Complete, BaseInv, TypeOK
<1> QED BY <1>1, <1>2, <1>3, QuietLive DEF Live, Owned

-----------------------------------------------------------------------------
(* A stream that gives up its job keeps every job in one place.            *)
LEMMA EmptiedLive ==
  ASSUME BaseInv, Live, NEW s \in Streams, NEW st \in {1, 3}, status[s] # 1,
         UNCHANGED <<setup, run, phase, todo, job, mine>>, Resting' = Resting,
           s \notin Resting,
         ResetTo(s, st), Out' = Out \cup Taken(s), Counts',
         phase = "roots" => left \subseteq left' \cup {s} /\ st = 3,
         \A t \in Threads : Loaded(t)' = Loaded(t) /\ (Loaded(t) => at'[t] = at[t])
  PROVE  Described' /\ OnePlace' /\ RestingApart' /\ CurrentOnly' /\ RootOnce' /\ NothingLost'
<1>1. Roots' = Roots /\ Proofs' = Proofs /\ Current' = Current
  BY DEF Roots, Proofs, Current, Early, Job
<1>2. \A r \in Streams : Waiting(r)' = Waiting(r)
  BY DEF Waiting, Job
<1>3. ~Published(s)' /\ status'[s] = st /\ sink'[s] = None
      /\ \A r \in Streams \ {s} : status'[r] = status[r] /\ sink'[r] = sink[r]
  BY NamesAssumption DEF ResetTo, Published, BaseInv, TypeOK
<1>4. \A r \in Streams \ {s} : Published(r)' = Published(r) /\ Settled(r)' = Settled(r)
  BY <1>3 DEF Published, Settled
<1>5. \A r \in Resting : r \in Streams
  BY DEF Resting, BaseInv, TypeOK
<1>6. \A t \in Threads : Loaded(t) => at[t] \in Streams /\ at[t] # s
  BY NamesAssumption DEF Loaded, BaseInv, TypeOK, Live, Owned
<1>7. Described'
  BY <1>3, <1>4, <1>6 DEF Live, Described, Settled
<1>8. OnePlace'
  BY <1>3, <1>4 DEF Live, OnePlace, Taken
<1>9. RestingApart'
  BY <1>1, <1>2, <1>3, <1>4, <1>5 DEF Live, RestingApart, Taken
<1>10. CurrentOnly'
  BY <1>1, <1>3, <1>4 DEF Live, CurrentOnly, Taken, Early, Current
<1>11. RootOnce'
  <2> SUFFICES ASSUME Early, NEW r \in Streams, job[r] # None
               PROVE  \/ \E t \in Threads : at'[t] = r /\ Loaded(t)
                      \/ Published(r)'
                      \/ job[r] \in Out'
    BY <1>1 DEF RootOnce, Early, Live
  <2>1. CASE r = s
    BY <2>1, <1>6 DEF Live, RootOnce, Taken
  <2>2. CASE r # s
    BY <2>2, <1>4 DEF Live, RootOnce
  <2> QED BY <2>1, <2>2
<1>12. NothingLost'
  <2>1. \A j : Somewhere(j) => Somewhere(j)'
    <3> SUFFICES ASSUME NEW j, NEW r \in Streams, Published(r), job[r] = j
                 PROVE  j \in Out' \/ (Published(r)' /\ job'[r] = j)
      BY <1>2, <1>5 DEF Somewhere
    <3> QED BY <1>4 DEF Taken
  <2>2. phase = "roots" => \A r \in Streams \ left' : Settled(r)'
    BY <1>3, <1>4 DEF Settled, Live, NothingLost
  <2> QED BY <1>1, <2>1, <2>2 DEF Live, NothingLost, Early, Late
<1> QED BY <1>7, <1>8, <1>9, <1>10, <1>11, <1>12

-----------------------------------------------------------------------------
(* The workers.                                                            *)
LEMMA TakeJobLive ==
  ASSUME BaseInv, Live, NEW t \in Threads, TakeJob(t)
  PROVE  Live'
<1> PICK j \in todo : mine' = [mine EXCEPT ![t] = j] /\ todo' = todo \ {j}
  BY DEF TakeJob
<1>1. /\ UNCHANGED <<setup, run, phase, cancelled, left, status, sink, job, at, lock,
         recorded, running, out>>
      /\ pc[t] = "idle" /\ mine[t] = None /\ j # None /\ phase # "resident"
      /\ \A u \in Threads : mine'[u] = IF u = t THEN j ELSE mine[u]
  BY NamesAssumption DEF TakeJob, cards, BaseInv, TypeOK
<1>2. \A u \in Threads : Loaded(u)' = Loaded(u) /\ (Loaded(u) => u # t)
  BY DEF TakeJob, Loaded, BaseInv, TypeOK
<1>3. Out' = Out /\ Resting' = {} /\ Resting = {} /\ Roots' = Roots /\ Proofs' = Proofs /\ Current' = Current
  BY <1>1 DEF Out, Resting, Roots, Proofs, Current, Early, out, Job
<1>4. \A s \in Streams : Published(s)' = Published(s) /\ Settled(s)' = Settled(s) /\ Free(s)' = Free(s)
  BY <1>1 DEF Published, Settled, Free, EventDone
<1>5. Owned'
  BY <1>1, <1>4 DEF Live, Owned
<1>6. Described'
  BY <1>1, <1>2, <1>4 DEF Live, Described
<1>7. OnePlace'
  BY <1>1, <1>3, <1>4 DEF Live, OnePlace
<1>8. RestingApart'
  BY <1>3 DEF RestingApart
<1>9. CurrentOnly'
  BY <1>1, <1>3, <1>4 DEF Live, CurrentOnly, Early
<1>10. Counts'
  BY <1>1 DEF Live, Counts, out
<1>11. RootOnce'
  BY <1>1, <1>2, <1>3, <1>4 DEF Live, RootOnce, Early
<1>12. NothingLost'
  <2>1. \A x : Somewhere(x) /\ x # None => Somewhere(x)'
    <3> SUFFICES ASSUME NEW x, Somewhere(x), x # None PROVE Somewhere(x)'
      OBVIOUS
    <3>1. CASE x \in todo \cup Out
      BY <3>1, <1>1, <1>3 DEF Somewhere
    <3>2. CASE \E u \in Threads : mine[u] = x
      BY <3>2, <1>1 DEF Somewhere
    <3>3. CASE \E s \in Streams : Published(s) /\ job[s] = x
      BY <3>3, <1>1, <1>4 DEF Somewhere
    <3> QED BY <3>1, <3>2, <3>3, <1>3 DEF Somewhere
  <2>2. run > 0 => \A x \in Current : x # None
    BY CurrentJobs, NamesAssumption
  <2> QED BY <2>1, <2>2, <1>1, <1>3, <1>4 DEF Live, NothingLost, Early, Late
<1> QED BY <1>5, <1>6, <1>7, <1>8, <1>9, <1>10, <1>11, <1>12 DEF Live

LEMMA ReserveLive ==
  ASSUME BaseInv, Live, NEW t \in Threads, Reserve(t)
  PROVE  Live'
<1>0. PICK s \in Preferred(Held(t)) : Finish(s) /\ ResetTo(s,
        1) /\ at' = [at EXCEPT ![t] = s]
  BY DEF Reserve
<1>1. s \in Streams /\ lock[s] = t /\ Free(s) /\ status[s] # 1
  <2>1. s \in Streams /\ lock[s] = t
    BY PreferredIn DEF Held
  <2> QED BY <2>1 DEF Live, Owned, Free
<1>2. UNCHANGED <<setup, run, phase, cancelled, todo, left, job, mine, running>>
  BY DEF Reserve, main
<1>3. phase \notin {"done", "roots", "resident"} /\ Resting' = {} /\ Resting = {}
  BY <1>2 DEF Reserve, BaseInv, Places, Scanning, Resting
<1>4. Out' = Out \cup Taken(s) /\ Counts'
  BY <1>0, <1>1, <1>3, Finished
<1>5. pc' = [pc EXCEPT ![t] = "describe"] /\ pc[t] \in {"recursive",
        "plain"} /\ at[t] = None
      /\ lock' = [r \in Streams |-> IF lock[r] = t THEN None ELSE lock[r]]
  BY DEF Reserve, BaseInv, TypeOK
<1>6. \A u \in Threads : Loaded(u)' = Loaded(u) /\ (Loaded(u) => u # t /\ at'[u] = at[u])
  BY <1>0, <1>5 DEF Loaded, BaseInv, TypeOK
<1>7. Described' /\ OnePlace' /\ RestingApart' /\ CurrentOnly' /\ RootOnce' /\ NothingLost'
  BY <1>0, <1>1, <1>2, <1>3, <1>4, <1>6, EmptiedLive
<1>8. Owned'
  <2>1. \A u \in Threads : at'[u] = IF u = t THEN s ELSE at[u]
    BY <1>0 DEF BaseInv, TypeOK
  <2>2. \A r \in Streams : status'[r] = IF r = s THEN 1 ELSE status[r]
    BY <1>0, <1>1 DEF BaseInv, TypeOK, ResetTo
  <2>3. \A r \in Streams \ {s} : Free(r)' = Free(r)
    BY <1>0, <1>1, <1>2 DEF Free, EventDone, BaseInv, TypeOK, ResetTo
  <2>4. s # None /\ \A u \in Threads : at[u] # None => at[u] # s
    BY <1>1, NamesAssumption DEF Live, Owned
  <2>5. \A u \in Threads : at'[u] # None => status'[at'[u]] = 1
    BY <1>1, <2>1, <2>2, <2>4 DEF Live, Owned, BaseInv, TypeOK
  <2>6. \A u, w \in Threads : at'[u] # None /\ at'[u] = at'[w] => u = w
    BY <2>1, <2>4 DEF Live, Owned
  <2>7. \A r \in Streams : status'[r] = 1 => \E u \in Threads : at'[u] = r
    BY <1>5, <2>1, <2>2, NamesAssumption DEF Live, Owned
  <2>8. \A r \in Streams : lock'[r] \in Threads => Free(r)'
    BY <1>1, <1>5, <2>3, NamesAssumption DEF Live, Owned
  <2> QED BY <2>5, <2>6, <2>7, <2>8 DEF Owned
<1> QED BY <1>4, <1>7, <1>8 DEF Live

LEMMA DescribeLive ==
  ASSUME BaseInv, Live, NEW t \in Threads, Describe(t)
  PROVE  Live'
<1> DEFINE s == at[t]
           n == IF mine[t].kind = "witness" THEN "root" ELSE "proof"
<1>1. /\ s \in Streams /\ mine[t] \in Jobs /\ status[s] = 1 /\ n # None
      /\ UNCHANGED <<setup, run, phase, cancelled, todo, left, status, mine, at, lock,
         recorded, running, out>>
      /\ pc' = [pc EXCEPT ![t] = "launch"] /\ pc[t] = "describe"
  BY NamesAssumption DEF Describe, main, out, BaseInv, TypeOK, Live, Owned
<1>2. /\ \A r \in Streams : job'[r] = IF r = s THEN mine[t] ELSE job[r]
      /\ \A r \in Streams : sink'[r] = IF r = s THEN n ELSE sink[r]
  BY <1>1 DEF Describe, BaseInv, TypeOK
<1> HIDE DEF n
<1>3. \A u \in Threads : u # t => (Loaded(u)' = Loaded(u) /\ (at[u] # None => at[u] # s))
  BY <1>1 DEF Loaded, BaseInv, TypeOK, Live, Owned
<1>4. Loaded(t)' /\ ~Loaded(t)
  BY <1>1 DEF Loaded, BaseInv, TypeOK
<1>5. Out' = Out /\ Resting' = Resting /\ Roots' = Roots /\ Proofs' = Proofs /\ Current' = Current
  BY <1>1 DEF Out, Resting, Roots, Proofs, Current, Early, out, Job
<1>6. \A r \in Streams : /\ Published(r)' = Published(r) /\ Settled(r)' = Settled(r) /\ Free(r)' = Free(r)
                         /\ Published(r) \/ Settled(r) => job'[r] = job[r]
  BY <1>1, <1>2 DEF Published, Settled, Free, EventDone
<1>7. Owned'
  BY <1>1, <1>6 DEF Live, Owned
<1>8. Described'
  <2>1. \A u \in Threads : Loaded(u) => at[u] \in Streams
    BY NamesAssumption DEF Loaded, BaseInv, TypeOK
  <2>2. \A r \in Streams : Settled(r) => r # s
    BY <1>1 DEF Settled
  <2>3. ASSUME NEW u \in Threads, Loaded(u)'
        PROVE  job'[at'[u]] = mine'[u] /\ sink'[at'[u]] # None
    <3>1. CASE u = t
      BY <1>1, <1>2, <3>1
    <3>2. CASE u # t
      <4>1. Loaded(u) /\ at[u] \in Streams /\ at[u] # s
        BY <3>2, <2>3, <2>1, <1>3, NamesAssumption
      <4> QED BY <4>1, <1>1, <1>2 DEF Live, Described
    <3> QED BY <3>1, <3>2
  <2> QED BY <1>2, <1>6, <2>2, <2>3 DEF Live, Described
<1>9. OnePlace'
  BY <1>1, <1>5, <1>6 DEF Live, OnePlace
<1>10. \A r \in Resting : r \in Streams /\ r # s /\ Settled(r) /\ Settled(r)' /\ job'[r] = job[r] /\ Waiting(r)' = Waiting(r)
  <2>1. \A r \in Resting : r \in Streams /\ Settled(r)
    BY DEF Resting, BaseInv, TypeOK, Live, RestingApart
  <2>2. \A r \in Resting : r # s
    BY <2>1, <1>1 DEF Settled
  <2> QED BY <2>1, <2>2, <1>1, <1>2, <1>6 DEF Waiting, Job
<1>11. RestingApart'
  BY <1>1, <1>5, <1>6, <1>10 DEF Live, RestingApart
<1>12. CurrentOnly'
  BY <1>1, <1>5, <1>6 DEF Live, CurrentOnly, Early
<1>13. Counts'
  BY <1>1 DEF Live, Counts, out
<1>14. RootOnce'
  <2> SUFFICES ASSUME Early PROVE RootOnce'
    BY <1>1 DEF RootOnce, Early
  <2>1. mine[t] \in Roots /\ mine[t] # None
    BY <1>1, NamesAssumption DEF Live, CurrentOnly, Current
  <2>2. \A r \in Streams \ {s} : job[r] # mine[t]
    <3> SUFFICES ASSUME NEW r \in Streams \ {s}, job[r] = mine[t] PROVE FALSE
      OBVIOUS
    <3>1. CASE \E u \in Threads : at[u] = r /\ Loaded(u)
      BY <3>1, <1>1, <1>4, <2>1 DEF Live, Described, OnePlace
    <3>2. CASE Published(r)
      BY <3>2 DEF Live, OnePlace
    <3>3. CASE job[r] \in Out
      BY <3>3 DEF Live, OnePlace
    <3> QED BY <2>1, <3>1, <3>2, <3>3 DEF Live, RootOnce
  <2>3. ASSUME NEW r \in Streams, job'[r] # None
        PROVE  /\ job'[r] \in Roots
               /\ \/ \E u \in Threads : at[u] = r /\ Loaded(u)'
                  \/ Published(r)'
                  \/ job'[r] \in Out
               /\ \A q \in Streams : job'[q] = job'[r] => q = r
    <3>1. CASE r = s
      BY <3>1, <1>2, <1>4, <2>1, <2>2
    <3>2. CASE r # s
      <4>1. job'[r] = job[r]
        BY <3>2, <1>2
      <4>2. /\ job[r] \in Roots
            /\ \A q \in Streams : job[q] = job[r] => q = r
            /\ (\E u \in Threads : at[u] = r /\ Loaded(u)) \/ Published(r) \/ job[r] \in Out
        BY <4>1, <2>3 DEF Live, RootOnce
      <4>3. \A u \in Threads : Loaded(u) => Loaded(u)'
        BY <1>3, <1>4
      <4>4. \A q \in Streams : job'[q] = job'[r] => q = r
        BY <4>1, <4>2, <1>2, <2>2, <3>2
      <4> QED BY <4>1, <4>2, <4>3, <4>4, <1>6
    <3> QED BY <3>1, <3>2
  <2> QED BY <1>1, <1>5, <2>3 DEF RootOnce
<1>15. NothingLost'
  <2>1. \A x : Somewhere(x) => Somewhere(x)'
    BY <1>1, <1>5, <1>6, <1>10 DEF Somewhere
  <2> QED BY <2>1, <1>1, <1>5, <1>6 DEF Live, NothingLost, Early, Late
<1> QED BY <1>7, <1>8, <1>9, <1>11, <1>12, <1>13, <1>14, <1>15 DEF Live

LEMMA LaunchLive ==
  ASSUME BaseInv, Live, NEW t \in Threads, Launch(t)
  PROVE  Live'
<1>1. /\ UNCHANGED <<setup, run, phase, cancelled, todo, left, status, sink, job, mine,
         at, lock, out>>
      /\ at[t] \in Streams /\ status[at[t]] = 1
  BY NamesAssumption DEF Launch, main, out, BaseInv, TypeOK, Live, Owned
<1>2. \A u \in Threads : Loaded(u)' = Loaded(u)
  BY DEF Launch, Loaded, BaseInv, TypeOK
<1>3. \A s \in Streams : Free(s) => Free(s)'
  <2>1. \A s \in Streams \ {at[t]} : recorded'[s] = recorded[s] /\ running'[s] = running[s]
    BY DEF Launch, BaseInv, TypeOK
  <2> QED BY <1>1, <2>1 DEF Free, EventDone
<1> QED BY <1>1, <1>2, <1>3, QuietLive DEF Live, Owned

LEMMA PublishLive ==
  ASSUME BaseInv, Live, NEW t \in Threads, Publish(t)
  PROVE  Live'
<1>0. PICK s \in Streams : s = at[t]
  BY NamesAssumption DEF Publish, BaseInv, TypeOK
<1>1. /\ UNCHANGED <<setup, run, phase, cancelled, todo, left, sink, job, lock,
         recorded, running, out>>
      /\ s \in Streams /\ s # None /\ status[s] = 1 /\ job[s] = mine[t] /\ sink[s] # None /\ mine[t] \in Jobs
      /\ mine[t] # None
  BY <1>0, NamesAssumption DEF Publish, main, out, BaseInv, TypeOK, Live, Owned,
     Described, Loaded
<1>2. /\ \A r \in Streams : status'[r] = IF r = s THEN 2 ELSE status[r]
      /\ \A u \in Threads : mine'[u] = IF u = t THEN None ELSE mine[u]
      /\ \A u \in Threads : at'[u] = IF u = t THEN None ELSE at[u]
  BY <1>0, <1>1 DEF Publish, BaseInv, TypeOK
<1>3. /\ \A u \in Threads \ {t} : Loaded(u)' = Loaded(u) /\ (at[u] # None => at[u] # s)
      /\ ~Loaded(t)'
  BY <1>0, <1>1 DEF Publish, Loaded, BaseInv, TypeOK, Live, Owned
<1>4. Out' = Out /\ Resting' = Resting /\ Roots' = Roots /\ Proofs' = Proofs /\ Current' = Current
  BY <1>1 DEF Out, Resting, Roots, Proofs, Current, Early, out, Job
<1>5. Published(s)' /\ ~Published(s) /\ ~Settled(s)' /\ ~Settled(s)
  BY <1>1, <1>2 DEF Published, Settled
<1>6. \A r \in Streams \ {s} : Published(r)' = Published(r) /\ Settled(r)' = Settled(r) /\ Free(r)' = Free(r)
  BY <1>1, <1>2 DEF Published, Settled, Free, EventDone
<1>7. Owned'
  <2>1. lock[s] \notin Threads
    BY <1>1 DEF Live, Owned, Free
  <2>2. \A u \in Threads : at'[u] # None => status'[at'[u]] = 1
    BY <1>2, <1>3 DEF Live, Owned, BaseInv, TypeOK
  <2>3. \A u, w \in Threads : at'[u] # None /\ at'[u] = at'[w] => u = w
    BY <1>2 DEF Live, Owned
  <2>4. \A r \in Streams : status'[r] = 1 => \E u \in Threads : at'[u] = r
    BY <1>0, <1>2 DEF Live, Owned
  <2>5. \A r \in Streams : lock'[r] \in Threads => Free(r)'
    BY <1>1, <1>6, <2>1 DEF Live, Owned
  <2> QED BY <2>2, <2>3, <2>4, <2>5 DEF Owned
<1>8. Described'
  BY <1>1, <1>2, <1>3, <1>5, <1>6 DEF Live, Described
<1>9. OnePlace'
  <2>0. todo' = todo /\ job' = job
    BY <1>1
  <2>1. todo' \cap Out' = {}
    BY <2>0, <1>4 DEF Live, OnePlace
  <2>2. \A u \in Threads : mine'[u] \notin todo' /\ mine'[u] \notin Out'
    <3>1. None \notin todo /\ None \notin Out
      BY NamesAssumption DEF Out, BaseInv, TypeOK
    <3> QED BY <2>0, <1>2, <1>4, <3>1 DEF Live, OnePlace
  <2>3. \A u, w \in Threads : mine'[u] # None /\ mine'[u] = mine'[w] => u = w
    BY <1>2 DEF Live, OnePlace
  <2>4. ASSUME NEW r \in Streams, Published(r)'
        PROVE  /\ job[r] \notin todo /\ job[r] \notin Out
               /\ \A u \in Threads : job[r] # mine'[u]
               /\ \A q \in Streams : Published(q)' /\ job[q] = job[r] => q = r
    <3>1. CASE r = s
      BY <3>1, <1>1, <1>2, <1>6 DEF Live, OnePlace
    <3>2. CASE r # s
      <4>1. Published(r) /\ job[r] # None
        BY <3>2, <2>4, <1>6 DEF Published, BaseInv, Places
      <4> QED BY <3>2, <4>1, <1>1, <1>2, <1>6 DEF Live, OnePlace
    <3> QED BY <3>1, <3>2
  <2> QED BY <2>0, <2>1, <2>2, <2>3, <2>4, <1>4 DEF OnePlace
<1>10. \A r \in Resting : r \in Streams /\ r # s /\ Settled(r)' /\ Waiting(r)' = Waiting(r) /\ Waiting(r) # None
  <2>1. \A r \in Resting : r \in Streams /\ Settled(r)
    BY DEF Resting, BaseInv, TypeOK, Live, RestingApart
  <2>2. \A r \in Resting : Waiting(r) \in Jobs
    BY <2>1, RunPositive DEF Resting, BaseInv, TypeOK, Places, Waiting, Jobs, Job, Kinds
  <2> QED BY <2>1, <2>2, <1>1, <1>5, <1>6, NamesAssumption DEF Waiting, Job
<1>11. RestingApart'
  BY <1>1, <1>2, <1>4, <1>5, <1>6, <1>10 DEF Live, RestingApart
<1>12. CurrentOnly'
  BY <1>1, <1>2, <1>4, <1>5, <1>6 DEF Live, CurrentOnly, Early
<1>13. Counts'
  BY <1>1 DEF Live, Counts, out
<1>14. RootOnce'
  <2> SUFFICES ASSUME Early PROVE RootOnce'
    BY <1>1 DEF RootOnce, Early
  <2>1. ASSUME NEW r \in Streams, job[r] # None
        PROVE  \/ \E u \in Threads : at'[u] = r /\ Loaded(u)'
               \/ Published(r)'
               \/ job[r] \in Out
    <3>1. CASE r = s
      BY <3>1, <1>5
    <3>2. CASE r # s
      <4>1. \A u \in Threads : at[u] = r /\ Loaded(u) => at'[u] = r /\ Loaded(u)'
        BY <3>2, <1>0, <1>2, <1>3
      <4> QED BY <3>2, <4>1, <1>6, <2>1 DEF Live, RootOnce
    <3> QED BY <3>1, <3>2
  <2> QED BY <2>1, <1>1, <1>4 DEF Live, RootOnce
<1>15. NothingLost'
  <2>1. \A x : Somewhere(x) /\ x # None => Somewhere(x)'
    <3> SUFFICES ASSUME NEW x, Somewhere(x), x # None PROVE Somewhere(x)'
      OBVIOUS
    <3>1. CASE x \in todo \cup Out
      BY <3>1, <1>1, <1>4 DEF Somewhere
    <3>2. CASE \E u \in Threads : mine[u] = x
      BY <3>2, <1>1, <1>2, <1>5 DEF Somewhere
    <3>3. CASE \E r \in Streams : Published(r) /\ job[r] = x
      BY <3>3, <1>1, <1>5, <1>6 DEF Somewhere
    <3>4. CASE \E r \in Resting : Waiting(r) = x
      BY <3>4, <1>4, <1>10 DEF Somewhere
    <3> QED BY <3>1, <3>2, <3>3, <3>4 DEF Somewhere
  <2>2. run > 0 => \A j \in Current : j # None
    BY CurrentJobs, NamesAssumption
  <2>3. phase # "roots"
    BY <1>1 DEF Publish, BaseInv, Places
  <2> QED BY <2>1, <2>2, <2>3, <1>1, <1>4 DEF Live, NothingLost, Early, Late
<1> QED BY <1>7, <1>8, <1>9, <1>11, <1>12, <1>13, <1>14, <1>15 DEF Live

LEMMA TakeResidentLive ==
  ASSUME BaseInv, Live, NEW t \in Threads, TakeResident(t)
  PROVE  Live'
<1>0. PICK s \in left : /\ left' = left \ {s}
                        /\ mine' = [mine EXCEPT ![t] = Waiting(s)]
                        /\ at' = [at EXCEPT ![t] = s]
                        /\ Finish(s)
                        /\ ResetTo(s, 1)
  BY DEF TakeResident, Waiting
<1>1. /\ phase = "resident" /\ pc[t] = "idle" /\ pc' = [pc EXCEPT ![t] = "describe"]
      /\ mine[t] = None /\ at[t] = None
      /\ UNCHANGED <<setup, run, phase, todo, lock, job, running>>
  BY DEF TakeResident, BaseInv, TypeOK
<1>2. s \in Streams /\ s \in Resting /\ Resting = left /\ Resting' = left \ {s} /\ s # None
      /\ left \subseteq Streams
  BY <1>0, <1>1, NamesAssumption DEF Resting, BaseInv, TypeOK
<1>3. Settled(s) /\ ~Published(s) /\ job[s] \in Roots
  BY <1>2 DEF Live, RestingApart, Settled, Published
<1>4. /\ out' = out /\ \A r \in Streams : status'[r] = IF r = s THEN 1 ELSE status[r]
      /\ sink' = sink
      /\ recorded' = [recorded EXCEPT ![s] = FALSE]
  <2>1. sink[s] = None
    BY <1>2, <1>3 DEF Live, Described
  <2>2. out' = out
    BY <1>0, <1>3 DEF Finish, Settled, out
  <2> QED BY <2>1, <2>2, <1>0, <1>2 DEF ResetTo, BaseInv, TypeOK
<1>5. Out' = Out /\ Roots' = Roots /\ Proofs' = Proofs /\ Current' = Current /\ Current = Proofs
  BY <1>1, <1>4 DEF Out, Roots, Proofs, Current, Early, out, Job
<1>6. \A r \in Streams : /\ Published(r)' = Published(r) /\ Waiting(r)' = Waiting(r)
                         /\ r # s => Settled(r)' = Settled(r)
  BY <1>1, <1>3, <1>4 DEF Published, Settled, Waiting, Job
<1>7. Waiting(s) \in Proofs /\ Waiting(s) \in Jobs /\ Waiting(s) # None
  <2>1. run > 0
    BY <1>1, RunPositive
  <2>2. Waiting(s) \in Proofs
    BY <1>3 DEF Roots, Proofs, Waiting, Job, Kinds
  <2> QED BY <2>1, <2>2, CurrentJobs, NamesAssumption
<1>8. \A r \in left \ {s} : Waiting(r) # Waiting(s)
  <2> SUFFICES ASSUME NEW r \in left \ {s}, Waiting(r) = Waiting(s) PROVE FALSE
    OBVIOUS
  <2>1. job[r] \in Roots /\ job[r] # job[s]
    BY <1>2 DEF Live, RestingApart
  <2> QED BY <1>3, <2>1 DEF Waiting, Roots, Job
<1>9. \A u \in Threads : /\ mine'[u] = IF u = t THEN Waiting(s) ELSE mine[u]
                         /\ at'[u] = IF u = t THEN s ELSE at[u]
                         /\ Loaded(u)' = Loaded(u) /\ (Loaded(u) => u # t)
  BY <1>0, <1>1 DEF BaseInv, TypeOK, Loaded
<1>10. Owned'
  <2>1. \A u \in Threads : at[u] # s
    BY <1>2, <1>3 DEF Live, Owned, Settled
  <2>2. \A r \in Streams : lock'[r] \notin Threads
    BY <1>1 DEF BaseInv, Places
  <2>3. \A u \in Threads : at'[u] # None => status'[at'[u]] = 1
    BY <1>2, <1>4, <1>9, <2>1 DEF Live, Owned, BaseInv, TypeOK
  <2>4. \A u, w \in Threads : at'[u] # None /\ at'[u] = at'[w] => u = w
    BY <1>9, <2>1 DEF Live, Owned
  <2>5. \A r \in Streams : status'[r] = 1 => \E u \in Threads : at'[u] = r
    BY <1>1, <1>4, <1>9, NamesAssumption DEF Live, Owned
  <2> QED BY <2>2, <2>3, <2>4, <2>5 DEF Owned
<1>11. Described'
  <2>1. ~Settled(s)'
    BY <1>2, <1>4 DEF Settled
  <2> QED BY <2>1, <1>1, <1>4, <1>6, <1>9 DEF Live, Described
<1>12. OnePlace'
  <2>1. /\ Waiting(s) \notin todo /\ Waiting(s) \notin Out
        /\ \A u \in Threads : Waiting(s) # mine[u]
        /\ \A r \in Streams : Published(r) => job[r] # Waiting(s)
    BY <1>2 DEF Live, RestingApart
  <2> QED BY <2>1, <1>1, <1>5, <1>6, <1>9 DEF Live, OnePlace
<1>13. RestingApart'
  BY <1>1, <1>2, <1>5, <1>6, <1>8, <1>9 DEF Live, RestingApart
<1>14. CurrentOnly'
  BY <1>1, <1>5, <1>6, <1>7, <1>9 DEF Live, CurrentOnly, Early
<1>15. Counts' /\ RootOnce'
  BY <1>1, <1>4 DEF Live, Counts, out, RootOnce, Early
<1>16. NothingLost'
  <2>1. \A x : Somewhere(x) /\ x # None => Somewhere(x)'
    <3> SUFFICES ASSUME NEW x, Somewhere(x), x # None PROVE Somewhere(x)'
      OBVIOUS
    <3>1. CASE x \in todo \cup Out
      BY <3>1, <1>1, <1>5 DEF Somewhere
    <3>2. CASE \E u \in Threads : mine[u] = x
      BY <3>2, <1>1, <1>9 DEF Somewhere
    <3>3. CASE \E r \in Streams : Published(r) /\ job[r] = x
      BY <3>3, <1>1, <1>6 DEF Somewhere
    <3>4. CASE \E r \in Resting : Waiting(r) = x
      BY <3>4, <1>2, <1>6, <1>9 DEF Somewhere
    <3> QED BY <3>1, <3>2, <3>3, <3>4 DEF Somewhere
  <2>2. run > 0 => \A x \in Current : x # None
    BY CurrentJobs, NamesAssumption
  <2> QED BY <2>1, <2>2, <1>1, <1>5 DEF Live, NothingLost, Early, Late
<1> QED BY <1>10, <1>11, <1>12, <1>13, <1>14, <1>15, <1>16 DEF Live

-----------------------------------------------------------------------------
(* The calling thread.                                                     *)

(* A collected stream belongs to no worker.                                *)
LEMMA CollectedOwned ==
  ASSUME BaseInv, Live, NEW s \in Streams, status[s] # 1, ResetTo(s, 3),
         UNCHANGED <<lock, at, running>>, lock[s] = None
  PROVE  Owned'
<1>1. \A r \in Streams : status'[r] = IF r = s THEN 3 ELSE status[r]
  BY DEF ResetTo, BaseInv, TypeOK
<1>2. \A r \in Streams \ {s} : Free(r)' = Free(r)
  BY <1>1 DEF ResetTo, Free, EventDone, BaseInv, TypeOK
<1> QED BY <1>1, <1>2, NamesAssumption DEF Live, Owned, BaseInv, TypeOK

LEMMA PollLive ==
  ASSUME BaseInv, Live, NEW s \in Streams, Poll(s)
  PROVE  Live'
<1>1. /\ phase \in {"commit", "prove"} /\ status[s] = 2 /\ lock[s] = None
      /\ Collect(s) /\ ResetTo(s, 3)
      /\ UNCHANGED <<setup, run, phase, todo, left, job, mine, pc, lock, at, running>>
  BY DEF Poll, main, work
<1>2. Resting = {} /\ Resting' = {} /\ \A t \in Threads : Loaded(t)' = Loaded(t)
  BY <1>1 DEF Resting, Loaded
<1>3. Out' = Out \cup Taken(s) /\ Counts'
  BY <1>1, Gathered
<1>4. Described' /\ OnePlace' /\ RestingApart' /\ CurrentOnly' /\ RootOnce' /\ NothingLost'
  BY <1>1, <1>2, <1>3, EmptiedLive
<1>5. Owned'
  BY <1>1, CollectedOwned
<1> QED BY <1>3, <1>4, <1>5 DEF Live

(* The calling thread collects stream after stream when no worker is left  *)
(* with one.                                                               *)
LEMMA CollectUnowned ==
  ASSUME BaseInv, Live, phase \in {"roots", "collect"}
  PROVE  (\A t \in Threads : at[t] = None) /\ (\A s \in Streams : status[s] # 1)
<1>1. \A t \in Threads : at[t] = None
  <2>1. CASE phase = "roots"
    BY <2>1 DEF BaseInv, TypeOK, Places
  <2>2. CASE phase = "collect"
    <3>1. run > 0
      BY <2>2, RunPositive
    <3> QED BY <2>2, <3>1, LateIdle DEF Late, BaseInv, TypeOK
  <2> QED BY <2>1, <2>2
<1> QED BY <1>1, NamesAssumption DEF Live, Owned

LEMMA CollectStreamLive ==
  ASSUME BaseInv, Live, CollectStream
  PROVE  Live'
<1>0. PICK s \in left :
        /\ lock[s] = None
        /\ left' = left \ {s}
        /\ \/ Settled(s) /\ UNCHANGED <<status, sink, recorded, out>>
           \/ ~Settled(s) /\ Collect(s) /\ ResetTo(s, 3)
  <2>1. left \subseteq Nat /\ IsFiniteSet(left) /\ left # {}
    BY StreamsAssumption, FS_Subset DEF CollectStream, BaseInv, TypeOK
  <2> QED BY <2>1, MinExists DEF CollectStream, Settled
<1>1. /\ s \in Streams /\ phase \in {"roots", "collect"}
      /\ UNCHANGED <<setup, run, phase, cancelled, todo, job, mine, pc, lock, at,
         running>>
  BY DEF CollectStream, work, BaseInv, TypeOK
<1>2. Resting = {} /\ Resting' = {} /\ \A t \in Threads : Loaded(t)' = Loaded(t)
  BY <1>1 DEF Resting, Loaded
<1>3. CASE Settled(s) /\ UNCHANGED <<status, sink, recorded, out>>
  <2>1. phase = "roots" => \A r \in Streams \ left' : Settled(r)
    BY <1>0, <1>3 DEF Live, NothingLost
  <2>2. \A r \in Streams : Free(r)' = Free(r)
    BY <1>1, <1>3 DEF Free, EventDone
  <2>3. \A r \in Streams : lock'[r] \in Threads => Free(r)'
    BY <1>1, <2>2 DEF Live, Owned
  <2> QED BY <1>1, <1>2, <1>3, <2>1, <2>3, StillLive
<1>4. CASE ~Settled(s) /\ Collect(s) /\ ResetTo(s, 3)
  <2>2. status[s] # 1
    BY <1>1, CollectUnowned
  <2>3. Out' = Out \cup Taken(s) /\ Counts'
    BY <1>1, <1>4, <2>2, Gathered
  <2>4. Described' /\ OnePlace' /\ RestingApart' /\ CurrentOnly' /\ RootOnce' /\ NothingLost'
    BY <1>0, <1>1, <1>2, <1>4, <2>2, <2>3, EmptiedLive
  <2>5. Owned'
    BY <1>0, <1>1, <1>4, <2>2, CollectedOwned
  <2> QED BY <2>3, <2>4, <2>5 DEF Live
<1> QED BY <1>0, <1>3, <1>4

(* From the resident proofs on the phases differ in what the calling       *)
(* thread waits for.                                                       *)
LEMMA PhaseLive ==
  ASSUME BaseInv, Live, UNCHANGED <<setup, run, cancelled, todo, cards, work, out>>,
         ~Early, ~Early', phase # "done", Resting = {}, Resting' = {}, 
         Late' => Proofs \subseteq Out
  PROVE  Live'
<1>1. Out' = Out /\ Roots' = Roots /\ Proofs' = Proofs /\ Current' = Current
  BY DEF Out, Roots, Proofs, Current, out, Job
<1>2. /\ \A s \in Streams : Published(s)' = Published(s) /\ Settled(s)' = Settled(s) /\ Free(s)' = Free(s)
      /\ \A t \in Threads : Loaded(t)' = Loaded(t)
      /\ UNCHANGED <<lock, status, sink, job, at, mine, announced, delivered>>
  BY DEF Published, Settled, Free, EventDone, Loaded, cards, work, out
<1>3. Owned' /\ Described'
  BY <1>2 DEF Live, Owned, Described
<1>4. OnePlace'
  BY <1>1, <1>2 DEF Live, OnePlace
<1>5. RestingApart' /\ RootOnce'
  BY DEF RestingApart, RootOnce
<1>6. CurrentOnly' /\ Counts'
  BY <1>1, <1>2 DEF Live, CurrentOnly, Counts
<1>7. NothingLost'
  <2>1. \A x : Somewhere(x) => Somewhere(x)'
    BY <1>1, <1>2 DEF Somewhere
  <2> QED BY <1>1, <2>1 DEF Live, NothingLost, Early
<1> QED BY <1>3, <1>4, <1>5, <1>6, <1>7 DEF Live

LEMMA CallerLive ==
  ASSUME BaseInv, Live, ~cancelled, JoinResident \/ WaitZero \/ ClearCallback \/ JoinWorkers
  PROVE  Live'
<1>1. CASE JoinResident
  BY <1>1, PhaseLive DEF JoinResident, Early, Late, Resting
<1>2. CASE WaitZero
  <2>1. Proofs \subseteq Out
    <3>1. run > 0
      BY <1>2, RunPositive DEF WaitZero
    <3> SUFFICES ASSUME NEW j \in Proofs PROVE j \in Out
      OBVIOUS
    <3>2. j \in Jobs /\ announced[j] > 0
      BY <1>2, <3>1, CurrentJobs DEF WaitZero
    <3>3. Len(delivered[j]) # 0
      BY <3>2 DEF Live, Counts
    <3> QED BY <3>2, <3>3 DEF Out
  <2> QED BY <1>2, <2>1, PhaseLive DEF WaitZero, Early, Late, Resting
<1>3. CASE ClearCallback
  <2>1. Proofs \subseteq Out
    BY <1>3, RunPositive DEF ClearCallback, Live, NothingLost, Late
  <2> QED BY <1>3, <2>1, PhaseLive DEF ClearCallback, Early, Late, Resting
<1>4. CASE JoinWorkers
  <2>1. Proofs \subseteq Out
    BY <1>4, RunPositive DEF JoinWorkers, Live, NothingLost, Late
  <2> QED BY <1>4, <2>1, PhaseLive DEF JoinWorkers, Early, Late, Resting
<1> QED BY <1>1, <1>2, <1>3, <1>4

LEMMA JoinContributionsLive ==
  ASSUME BaseInv, Live, ~cancelled, JoinContributions
  PROVE  Live'
<1>1. /\ phase = "commit" /\ phase' = "roots" /\ todo = {} /\ todo' = {} /\ left' = Streams
      /\ UNCHANGED <<setup, run, cancelled, cards, work, out>>
  BY DEF JoinContributions
<1>2. Out' = Out /\ Roots' = Roots /\ Proofs' = Proofs /\ Current' = Current
  BY <1>1 DEF Out, Roots, Proofs, Current, Early, out, Job
<1>3. /\ \A s \in Streams : Published(s)' = Published(s) /\ Settled(s)' = Settled(s) /\ Free(s)' = Free(s)
      /\ \A t \in Threads : Loaded(t)' = Loaded(t)
      /\ UNCHANGED <<lock, status, sink, job, at, mine, announced, delivered>>
      /\ Resting = {} /\ Resting' = {}
  BY <1>1 DEF Published, Settled, Free, EventDone, Loaded, cards, work, out, Resting
<1>4. Owned' /\ Described'
  BY <1>3 DEF Live, Owned, Described
<1>5. OnePlace' /\ RestingApart' /\ Counts'
  BY <1>1, <1>2, <1>3 DEF Live, OnePlace, RestingApart, Counts
<1>6. CurrentOnly' /\ RootOnce'
  BY <1>1, <1>2, <1>3 DEF Live, CurrentOnly, RootOnce, Early
<1>7. NothingLost'
  <2>1. \A x : Somewhere(x) => Somewhere(x)'
    BY <1>1, <1>2, <1>3 DEF Somewhere
  <2> QED BY <1>1, <1>2, <2>1 DEF Live, NothingLost, Early, Late
<1> QED BY <1>4, <1>5, <1>6, <1>7 DEF Live

LEMMA FindResidentLive ==
  ASSUME BaseInv, Live, FindResident
  PROVE  Live'
<1>1. /\ phase = "roots" /\ phase' = "resident" /\ left = {} /\ left' = {s \in Streams : job[s] # None}
      /\ todo' = {Job("basic", i) : i \in setup.insts \ {job[s].inst : s \in left'}}
                 \cup {Job("recursive1", i) : i \in setup.insts}
      /\ UNCHANGED <<setup, run, cancelled, cards, work, out>>
  BY DEF FindResident
<1>2. todo = {} /\ (\A s \in Streams : Settled(s)) /\ (\A t \in Threads : mine[t] = None /\ at[t] = None /\ ~Loaded(t))
  BY <1>1 DEF Live, NothingLost, BaseInv, TypeOK, Places, Loaded
<1>3. /\ \A s \in Streams : ~Published(s) /\ ~Published(s)' /\ Settled(s)' /\ Free(s)' = Free(s)
      /\ \A t \in Threads : mine'[t] = None /\ at'[t] = None /\ ~Loaded(t)'
      /\ UNCHANGED <<lock, status, sink, job, at, mine, announced, delivered>>
  BY <1>1, <1>2 DEF Published, Settled, Free, EventDone, Loaded, cards, work, out
<1>4. /\ Out' = Out /\ Roots' = Roots /\ Proofs' = Proofs /\ Current = Roots /\ Current' = Proofs
      /\ Resting = {} /\ Resting' = left' /\ run > 0
      /\ \A s \in Streams : Waiting(s)' = Waiting(s)
  BY <1>1, <1>3, RunPositive DEF Out, Roots, Proofs, Current, Early, out, Job, Resting,
     Waiting
<1>5. \A s \in left' : s \in Streams /\ job[s] \in Roots /\ \A r \in left' : job[r] = job[s] => r = s
  BY <1>1 DEF Live, RootOnce, Early
<1>6. Roots = Out
  <2>1. Out \subseteq Roots
    BY <1>1 DEF Live, CurrentOnly, Early
  <2>2. ASSUME NEW j \in Roots PROVE j \in Out
    <3>1. Somewhere(j) /\ j # None
      BY <1>4, CurrentJobs, NamesAssumption DEF Live, NothingLost
    <3> QED BY <1>2, <1>3, <1>4, <3>1 DEF Somewhere
  <2> QED BY <2>1, <2>2
<1>7. todo' \subseteq Proofs /\ \A s \in left' : Waiting(s) \in Proofs /\ Waiting(s) \notin todo'
  <2>1. todo' \subseteq Proofs
    BY <1>1 DEF Proofs, Kinds
  <2>2. ASSUME NEW s \in left' PROVE Waiting(s) \in Proofs /\ Waiting(s) \notin todo'
    <3>1. job[s].inst \in setup.insts /\ job[s].inst \in {job[r].inst : r \in left'}
      BY <1>5 DEF Roots, Job
    <3>2. Waiting(s) \in Proofs
      BY <3>1 DEF Waiting, Proofs, Kinds
    <3>3. ASSUME NEW i, Job("basic", i) = Waiting(s) PROVE i = job[s].inst
      BY <3>3 DEF Waiting, Job
    <3>4. \A i : Job("recursive1", i) # Waiting(s)
      BY DEF Waiting, Job
    <3> QED BY <1>1, <3>1, <3>2, <3>3, <3>4
  <2> QED BY <2>1, <2>2
<1>8. Roots \cap Proofs = {} /\ None \notin Proofs /\ None \notin Out
  BY <1>4, CurrentJobs, NamesAssumption DEF Roots, Proofs, Job, Kinds, Out
<1>9. Owned' /\ Described'
  <2>1. \A s \in Streams : status[s] # 1
    BY <1>2 DEF Settled
  <2>2. Owned'
    BY <1>3, <2>1 DEF Live, Owned
  <2>3. \A s \in Streams : sink[s] = None
    BY <1>2 DEF Live, Described
  <2> QED BY <1>3, <2>2, <2>3 DEF Described
<1>10. OnePlace'
  BY <1>3, <1>4, <1>6, <1>7, <1>8 DEF OnePlace
<1>11. RestingApart'
  BY <1>3, <1>4, <1>5, <1>6, <1>7, <1>8 DEF RestingApart
<1>12. CurrentOnly' /\ Counts' /\ RootOnce'
  BY <1>1, <1>3, <1>4, <1>7 DEF Live, CurrentOnly, Counts, RootOnce, Early
<1>13. NothingLost'
  <2>1. ASSUME NEW j \in Proofs PROVE Somewhere(j)'
    <3>1. PICK k \in {"basic", "recursive1"}, i \in setup.insts : j = Job(k, i)
      BY DEF Proofs, Kinds
    <3>2. CASE j \in todo'
      BY <3>2 DEF Somewhere
    <3>3. CASE j \notin todo'
      <4>1. k = "basic" /\ i \in {job[s].inst : s \in left'}
        BY <1>1, <3>1, <3>3
      <4>2. PICK s \in left' : i = job[s].inst
        BY <4>1
      <4>3. Waiting(s)' = j
        BY <1>4, <1>5, <3>1, <4>1, <4>2 DEF Waiting
      <4> QED BY <1>4, <4>3 DEF Somewhere
    <3> QED BY <3>2, <3>3
  <2> QED BY <1>1, <1>4, <1>6, <2>1 DEF NothingLost, Early, Late
<1> QED BY <1>9, <1>10, <1>11, <1>12, <1>13 DEF Live

LEMMA StartRunLive ==
  ASSUME BaseInv, StartRun
  PROVE  Live'
<1>1. /\ phase' = "commit" /\ run' = run + 1 /\ setup' = setup
      /\ todo' = {[run |-> run + 1, kind |-> "witness", inst |-> i] : i \in setup.insts}
      /\ \A s \in Streams : status'[s] = 0 /\ sink'[s] = None /\ job'[s] = None /\ lock'[s] \notin Threads
      /\ \A t \in Threads : mine'[t] = None /\ at'[t] = None /\ ~Loaded(t)'
      /\ \A j \in Jobs : delivered'[j] = <<>> /\ announced'[j] = 0
  BY DEF StartRun, work, BaseInv, TypeOK, Places, Scanning, Loaded
<1>2. /\ Out' = {} /\ Resting' = {} /\ Early' /\ ~Late' /\ Roots' = todo' /\ Current' = todo'
      /\ \A s \in Streams : ~Published(s)' /\ Settled(s)'
  BY <1>1 DEF Out, Resting, Early, Late, Roots, Current, Job, Published, Settled
<1>3. todo' \subseteq Jobs
  BY StartRunBase DEF BaseInv, TypeOK
<1>4. Owned' /\ Described'
  BY <1>1, <1>2 DEF Owned, Described
<1>5. OnePlace' /\ RestingApart' /\ CurrentOnly'
  BY <1>1, <1>2, <1>3, NamesAssumption DEF OnePlace, RestingApart, CurrentOnly
<1>6. Counts' /\ RootOnce'
  BY <1>1, <1>2 DEF Counts, RootOnce
<1>7. NothingLost'
  BY <1>1, <1>2 DEF NothingLost, Somewhere
<1> QED BY <1>4, <1>5, <1>6, <1>7 DEF Live

LEMMA LiveStep == BaseInv /\ LiveInv /\ [Next]_vars => LiveInv'
<1> SUFFICES ASSUME BaseInv, LiveInv, [Next]_vars, ~cancelled' PROVE Live'
  BY DEF LiveInv
<1>1. CASE StartRun
  BY <1>1, StartRunLive
<1>2. CASE Cancel
  BY <1>2 DEF Cancel
<1>3. ASSUME ~StartRun, ~Cancel PROVE ~cancelled
  BY <1>3 DEF Next, Ask,
     Caller, CallerMovesOn, Borrower, Worker, LockFirst, RaiseFlag, Drain, Own,
     Return,
     JoinContributions, CollectStream, FindResident, JoinResident, WaitZero,
       ClearCallback,
     JoinWorkers, Poll, TakeJob, TakeResident, BeginScan, TryStream, NothingFree, Reserve,
     Describe, Launch, Publish, Complete, main, vars
<1>4. CASE UNCHANGED vars
  <2>1. \A s \in Streams : lock'[s] \in Threads => Free(s)'
    BY <1>1, <1>2, <1>3, <1>4 DEF LiveInv, Live, Owned, Free, EventDone, vars, main, cards
  <2>2. \A t \in Threads : Loaded(t)' = Loaded(t)
    BY <1>4 DEF Loaded, vars, work
  <2> QED BY <1>1, <1>2, <1>3, <1>4, <2>1, <2>2, QuietLive DEF LiveInv, vars, main,
        cards, work
<1>5. CASE Caller
  BY <1>1, <1>2, <1>3, <1>5, CallerLive, JoinContributionsLive, CollectStreamLive,
     FindResidentLive,
     PollLive DEF Caller, CallerMovesOn, LiveInv
<1>6. CASE Ask \/ Borrower
  BY <1>1, <1>2, <1>3, <1>6, LoanLive DEF LiveInv
<1>7. CASE \E t \in Threads : Worker(t)
  BY <1>1, <1>2, <1>3, <1>7, TakeJobLive, TakeResidentLive, SearchLive, ReserveLive,
     DescribeLive,
     LaunchLive, PublishLive DEF Worker, LiveInv
<1>8. CASE \E s \in Streams : Complete(s)
  BY <1>1, <1>2, <1>3, <1>8, CompleteLive DEF LiveInv
<1> QED BY <1>1, <1>2, <1>4, <1>5, <1>6, <1>7, <1>8 DEF Next

LEMMA InitLive == Init => LiveInv
<1> SUFFICES ASSUME Init PROVE Live
  BY DEF LiveInv
<1>1. /\ phase = "done" /\ run = 0 /\ todo = {} /\ left = {}
      /\ \A s \in Streams : status[s] = 0 /\ sink[s] = None /\ job[s] = None /\ lock[s] \notin Threads
      /\ \A t \in Threads : mine[t] = None /\ at[t] = None /\ ~Loaded(t)
      /\ \A j \in Jobs : delivered[j] = <<>> /\ announced[j] = 0
  BY NamesAssumption DEF Init, Loaded
<1>2. /\ Out = {} /\ Resting = {} /\ ~Early /\ \A s \in Streams : ~Published(s) /\ Settled(s)
  BY <1>1 DEF Out, Resting, Early, Published, Settled
<1>3. Owned /\ Described /\ OnePlace /\ RestingApart
  BY <1>1, <1>2 DEF Owned, Described, OnePlace, RestingApart
<1>4. CurrentOnly /\ Counts /\ RootOnce /\ NothingLost
  BY <1>1, <1>2 DEF CurrentOnly, Counts, RootOnce, NothingLost
<1> QED BY <1>3, <1>4 DEF Live

LEMMA LiveAlways == Spec => []LiveInv
<1> QED BY InitLive, LiveStep, BaseAlways, PTL DEF Spec

(* The types of all variables of the scheduler, and a worker has a job and *)
(* a stream exactly where selectStream and gen_proof_gpu say so, also in a *)
(* call that is cancelled.                                                 *)
THEOREM StreamTypes == Spec => []TypeOK
<1>1. BaseInv => TypeOK
  BY DEF BaseInv
<1> QED BY <1>1, BaseAlways, PTL

(* A stream that is being loaded belongs to one worker, although its lock  *)
(* was given back (starks_api.cu, reserveStream), in every deployment,     *)
(* with any number of streams, GPUs, workers and calls.                    *)
THEOREM OneOwner == Spec => []StreamOwnedByOne
<1>1. LiveInv => StreamOwnedByOne
  BY DEF LiveInv, Live, Owned, StreamOwnedByOne
<1> QED BY <1>1, LiveAlways, PTL

(* get_commit_root and get_proof are reached once for every job, whoever   *)
(* finds the event done, and a call that is not cancelled returns with     *)
(* every root and every proof.                                             *)
THEOREM OnceDelivered == Spec => []DeliveredOnce
<1>1. BaseInv /\ LiveInv => DeliveredOnce
  <2> SUFFICES ASSUME BaseInv, Live PROVE DeliveredOnce
    BY DEF LiveInv, DeliveredOnce
  <2>1. ASSUME phase = "done", run > 0, NEW k \in Kinds, NEW i \in setup.insts
        PROVE  Len(delivered[Job(k, i)]) = 1
    <3>1. Job(k, i) \in Roots \cup Proofs
      BY DEF Roots, Proofs, Kinds
    <3>2. Job(k, i) \in Out
      BY <2>1, <3>1 DEF Live, NothingLost, Early, Late
    <3>3. Job(k, i) \in Jobs /\ delivered[Job(k, i)] # <<>> /\ delivered[Job(k,
            i)] \in Seq(Outcomes)
      BY <3>2 DEF Out, BaseInv, Types
    <3>4. Len(delivered[Job(k, i)]) \in Nat /\ Len(delivered[Job(k, i)]) # 0
      BY <3>3, EmptySeq, LenProperties
    <3>5. Len(delivered[Job(k, i)]) <= 1
      BY <3>3 DEF Live, Counts
    <3>6. \A n \in Nat : n # 0 /\ n <= 1 => n = 1
      OBVIOUS
    <3> QED BY <3>4, <3>5, <3>6, Zenon
  <2>2. \A j \in Jobs :
          Len(delivered[j]) <= 1 /\ announced[j] = IF j.kind = "witness" THEN 0
                                                   ELSE Len(delivered[j])
    BY DEF Live, Counts
  <2>3. phase = "done" /\ run > 0 =>
          \A k \in Kinds, i \in setup.insts : Len(delivered[Job(k, i)]) = 1
    BY <2>1
  <2> QED BY <2>2, <2>3, Zenon DEF DeliveredOnce
<1> QED BY <1>1, BaseAlways, LiveAlways, PTL

-----------------------------------------------------------------------------
(* What keeps a call and a loan going, also in a call that is cancelled    *)
(* and whenever the borrower comes.  A stream that is being loaded has a   *)
(* worker, the borrower keeps locks only until it has them all, and the    *)
(* flag is up only for a borrower that waits or owns.                      *)
Attended ==
  /\ \A s \in Streams : status[s] = 1 => \E t \in Threads : at[t] = s
  /\ \A s \in Streams : lock[s] = "borrower" => borrower = "locking" /\ s \in First
  /\ borrowed => borrower \in {"draining", "owner"}

LEMMA AttendedKept ==
  ASSUME Attended, UNCHANGED <<lock, status, at, loan>>
  PROVE  Attended'
BY DEF Attended, loan, First, OnFirst

LEMMA ResetAttended ==
  ASSUME BaseInv, Attended, NEW s \in Streams, ResetTo(s, 3), UNCHANGED <<lock, at, loan>>
  PROVE  Attended'
<1>1. \A r \in Streams : status'[r] = IF r = s THEN 3 ELSE status[r]
  BY DEF ResetTo, BaseInv, TypeOK
<1> QED BY <1>1 DEF Attended, loan

(* The borrower's steps on the locks and the flag.                         *)
LEMMA BorrowerAttended ==
  ASSUME BaseInv, Attended, Borrower \/ Ask
  PROVE  Attended'
<1>0. status' = status /\ at' = at
  BY DEF Borrower, Ask, LockFirst, RaiseFlag, Drain, Own, Return, cards, work
<1>1. CASE Ask \/ Own \/ Return \/ Drain
  BY <1>0, <1>1 DEF Attended, Ask, Own, Return, Drain, cards, BaseInv, TypeOK
<1>2. CASE LockFirst
  <2> DEFINE R == First \ Held("borrower")
  <2>1. R \subseteq Nat /\ IsFiniteSet(R) /\ R # {}
    BY <1>2, StreamsAssumption, FS_Subset DEF First, LockFirst
  <2>2. Min(R) \in First
    BY <2>1, MinExists
  <2>3. /\ lock' = [lock EXCEPT ![Min(R)] = "borrower"]
        /\ borrower = "locking" /\ borrower' = borrower /\ borrowed' = borrowed
    BY <1>2 DEF LockFirst, loan
  <2> HIDE DEF R
  <2> QED BY <1>0, <2>2, <2>3 DEF Attended, First, OnFirst, BaseInv, TypeOK
<1>3. CASE RaiseFlag
  <2>1. \A s \in Streams : lock'[s] # "borrower"
    BY <1>3, NamesAssumption DEF RaiseFlag, Held
  <2> QED BY <1>0, <1>3, <2>1 DEF Attended, RaiseFlag
<1> QED BY <1>1, <1>2, <1>3 DEF Borrower

(* A worker that reserves a stream had none, and one that publishes leaves *)
(* its stream full.                                                        *)
LEMMA WorkerAttended ==
  ASSUME BaseInv, Attended, NEW t \in Threads, Worker(t)
  PROVE  Attended'
<1>1. CASE TakeJob(t) \/ BeginScan(t) \/ NothingFree(t) \/ Describe(t) \/ Launch(t)
  BY <1>1, AttendedKept DEF TakeJob, BeginScan, NothingFree, Describe, Launch, cards
<1>2. CASE TryStream(t)
  <2>1. \A s \in Streams : lock'[s] = "borrower" => lock[s] = "borrower"
    BY <1>2, NamesAssumption DEF TryStream, BaseInv, TypeOK
  <2> QED BY <1>2, <2>1 DEF TryStream, Attended, loan
<1>3. CASE Reserve(t) \/ TakeResident(t)
  <2>1. PICK s \in Streams : ResetTo(s, 1) /\ at' = [at EXCEPT ![t] = s]
    <3>1. Preferred(Held(t)) \subseteq Streams
      BY PreferredIn DEF Held
    <3>2. left \subseteq Streams
      BY DEF BaseInv, TypeOK
    <3> QED BY <1>3, <3>1, <3>2 DEF Reserve, TakeResident
  <2>2. at[t] = None
    BY <1>3 DEF Reserve, TakeResident, BaseInv, TypeOK
  <2>3. /\ \A r \in Streams : status'[r] = IF r = s THEN 1 ELSE status[r]
        /\ at'[t] = s /\ \A u \in Threads \ {t} : at'[u] = at[u]
    BY <2>1 DEF ResetTo, BaseInv, TypeOK
  <2>4. \A r \in Streams : status'[r] = 1 => \E u \in Threads : at'[u] = r
    BY <2>2, <2>3, NamesAssumption DEF Attended
  <2>5. \A r \in Streams : lock'[r] = "borrower" => lock[r] = "borrower"
    BY <1>3, NamesAssumption DEF Reserve, TakeResident
  <2>6. borrower' = borrower /\ borrowed' = borrowed
    BY <1>3 DEF Reserve, TakeResident, loan
  <2> QED BY <2>4, <2>5, <2>6 DEF Attended
<1>4. CASE Publish(t)
  <2>1. /\ \A r \in Streams : status'[r] = IF r = at[t] THEN 2 ELSE status[r]
        /\ \A u \in Threads \ {t} : at'[u] = at[u]
    BY <1>4 DEF Publish, BaseInv, TypeOK
  <2>2. \A r \in Streams : status'[r] = 1 => \E u \in Threads : at'[u] = r
    BY <2>1 DEF Attended
  <2> QED BY <1>4, <2>2 DEF Attended, Publish, loan
<1> QED BY <1>1, <1>2, <1>3, <1>4 DEF Worker

LEMMA AttendedStep == BaseInv /\ Attended /\ [Next]_vars => Attended'
<1> SUFFICES ASSUME BaseInv, Attended, [Next]_vars PROVE Attended'
  OBVIOUS
<1>1. CASE UNCHANGED vars
  BY <1>1, AttendedKept DEF vars, cards, work
<1>2. CASE StartRun
  BY <1>2 DEF StartRun, Attended, work, loan
<1>3. CASE \/ Cancel \/ JoinContributions \/ FindResident \/ JoinResident \/ WaitZero
           \/ ClearCallback \/ JoinWorkers \/ \E s \in Streams : Complete(s)
  BY <1>3, AttendedKept DEF Cancel, JoinContributions, FindResident, JoinResident,
     WaitZero, ClearCallback, JoinWorkers, Complete, cards, work
<1>4. CASE \E s \in Streams : Poll(s)
  BY <1>4, ResetAttended DEF Poll, work
<1>5. CASE CollectStream
  <2>1. Min(left) \in Streams
    <3>1. left \subseteq Nat /\ IsFiniteSet(left) /\ left # {}
      BY <1>5, StreamsAssumption, FS_Subset DEF CollectStream, BaseInv, TypeOK
    <3> QED BY <3>1, MinExists DEF BaseInv, TypeOK
  <2>2. CASE status[Min(left)] \in {0, 3}
    BY <1>5, <2>2, AttendedKept DEF CollectStream, work
  <2>3. CASE status[Min(left)] \notin {0, 3}
    BY <1>5, <2>1, <2>3, ResetAttended DEF CollectStream, work
  <2> QED BY <2>2, <2>3
<1>6. CASE Borrower \/ Ask
  BY <1>6, BorrowerAttended
<1>7. CASE \E t \in Threads : Worker(t)
  BY <1>7, WorkerAttended
<1> QED BY <1>1, <1>2, <1>3, <1>4, <1>5, <1>6, <1>7 DEF Next, Caller, CallerMovesOn

LEMMA AttendedAlways == Spec => []Attended
<1>1. Init => Attended
  BY NamesAssumption DEF Init, Attended
<1> QED BY <1>1, AttendedStep, BaseAlways, PTL DEF Spec

(* A state in which neither the device nor a worker can take a step.       *)
Still ==
  /\ \A s \in Streams : running[s] = None
  /\ \A t \in Threads : ~WorkerGoesOn(t)

(* Then no worker has a stream or a lock, and every stream is free.        *)
LEMMA StillStreams ==
  ASSUME BaseInv, Attended, Still
  PROVE  /\ \A t \in Threads : pc[t] \in {"idle", "select", "recursive", "plain"}
         /\ \A s \in Streams : lock[s] \in {"borrower", None} /\ Free(s)
<1>1. \A t \in Threads : pc[t] \in {"idle", "select", "recursive", "plain"}
  BY DEF Still, WorkerGoesOn, BaseInv, TypeOK
<1>2. \A s \in Streams : lock[s] \notin Threads
  <2> SUFFICES ASSUME NEW s \in Streams, lock[s] \in Threads PROVE FALSE
    OBVIOUS
  <2>1. Scanning(lock[s]) /\ s \in Held(lock[s])
    BY DEF BaseInv, Places, Held
  <2> QED BY <2>1 DEF Still, WorkerGoesOn, Scanning
<1>3. \A s \in Streams : lock[s] \in {"borrower", None}
  BY <1>2 DEF BaseInv, TypeOK
<1>4. \A s \in Streams : Free(s)
  <2> SUFFICES ASSUME NEW s \in Streams PROVE Free(s)
    OBVIOUS
  <2>1. status[s] # 1
    BY <1>1, NamesAssumption DEF Attended, BaseInv, TypeOK
  <2>2. EventDone(s)
    BY DEF Still, EventDone
  <2> QED BY <2>1, <2>2 DEF Free, BaseInv, TypeOK
<1> QED BY <1>1, <1>3, <1>4

(* A borrower goes on: it gets the next lock, its pass over the streams    *)
(* finds them all idle, or it returns the buffer.                          *)
LEMMA StillBorrower ==
  ASSUME BaseInv, Attended, Still, borrower # "away"
  PROVE  BorrowerGoesOn
<1>1. \A s \in Streams : lock[s] \in {"borrower", None} /\ Free(s)
  BY StillStreams
<1>2. CASE borrower = "locking"
  <2> DEFINE R == First \ Held("borrower")
  <2>1. CASE R = {}
    <3>1. Held("borrower") \subseteq First
      BY DEF Held, Attended
    <3> QED BY <1>2, <2>1, <3>1 DEF BorrowerGoesOn
  <2>2. CASE R # {}
    <3>1. R \subseteq Nat /\ IsFiniteSet(R)
      BY StreamsAssumption, FS_Subset DEF First
    <3>2. Min(R) \in R
      BY <2>2, <3>1, MinExists
    <3>3. lock[Min(R)] = None
      BY <1>1, <3>2 DEF First, Held
    <3> QED BY <1>2, <3>3 DEF BorrowerGoesOn
  <2> QED BY <2>1, <2>2
<1>3. CASE borrower = "draining"
  <2>1. \A s \in First : lock[s] = None /\ Free(s)
    BY <1>1, <1>3 DEF Attended, First
  <2> QED BY <1>3, <2>1 DEF BorrowerGoesOn
<1>4. CASE borrower = "owner"
  BY <1>4 DEF BorrowerGoesOn
<1> QED BY <1>2, <1>3, <1>4 DEF BaseInv, TypeOK

(* Without a borrower the calling thread goes on: no worker is left in the *)
(* middle of a job, for it would be offered a stream.                      *)
LEMMA StillIdle ==
  ASSUME BaseInv, Attended, Still, borrower = "away"
  PROVE  /\ \A s \in Streams : lock[s] = None
         /\ ~Working
<1>1. /\ \A t \in Threads : pc[t] \in {"idle", "select", "recursive", "plain"}
      /\ \A s \in Streams : lock[s] = None /\ Free(s)
      /\ ~borrowed
  BY StillStreams DEF Attended
<1>2. ASSUME NEW t \in Threads, pc[t] # "idle"
      PROVE  FALSE
  <2>1. StreamsFor(t) # {} /\ StreamsFor(t) \subseteq Streams
    BY ClassesAssumption, StreamsAssumption DEF StreamsFor
  <2>2. Offered(t)
    BY <1>1, <2>1 DEF Offered
  <2> QED BY <1>1, <1>2, <2>2 DEF Still, WorkerGoesOn
<1> QED BY <1>1, <1>2 DEF Working

(* What is to be collected can be collected.                               *)
LEMMA StillCollector ==
  ASSUME BaseInv, Attended, Still, borrower = "away"
  PROVE  left = {} \/ CollectorGoesOn
<1>1. CASE left # {}
  <2>1. left \subseteq Nat /\ IsFiniteSet(left)
    BY StreamsAssumption, FS_Subset DEF BaseInv, TypeOK
  <2>2. Min(left) \in Streams
    BY <1>1, <2>1, MinExists DEF BaseInv, TypeOK
  <2>3. lock[Min(left)] = None /\ running[Min(left)] = None
    BY <2>2, StillIdle DEF Still
  <2> QED BY <1>1, <2>3 DEF CollectorGoesOn
<1> QED BY <1>1

(* A proof that is missing waits for a worker or to be collected.          *)
LEMMA StillMissing ==
  ASSUME BaseInv, Attended, Live, Still, borrower = "away", phase = "prove", run > 0,
         NEW j \in Proofs, announced[j] = 0
  PROVE  CallerGoesOn \/ j \in todo
<1>1. Somewhere(j)
  BY DEF Live, NothingLost, Current, Early
<1>2. j \in Jobs /\ j.kind # "witness"
  BY CurrentJobs DEF Proofs, Job, Kinds
<1>3. j \notin Out
  <2> SUFFICES ASSUME j \in Out PROVE FALSE
    OBVIOUS
  <2>1. delivered[j] \in Seq(Outcomes) /\ delivered[j] # <<>>
    BY <1>2 DEF Out, BaseInv, Types
  <2>2. Len(delivered[j]) # 0
    BY <2>1, EmptySeq, LenProperties
  <2> QED BY <1>2, <2>2 DEF Live, Counts
<1>4. \A t \in Threads : mine[t] # j
  BY <1>2, StillIdle, NamesAssumption DEF Working, BaseInv, TypeOK
<1>5. ASSUME NEW s \in Streams, Published(s)
      PROVE  CallerGoesOn
  BY <1>5, StillIdle DEF Published, CallerGoesOn, Still, EventDone
<1>6. Resting = {}
  BY DEF Resting
<1> QED BY <1>1, <1>3, <1>4, <1>5, <1>6 DEF Somewhere

LEMMA StillCaller ==
  ASSUME BaseInv, Attended, LiveInv, Still, borrower = "away", phase # "done"
  PROVE  CallerGoesOn
<1>1. ~Working /\ \A t \in Threads : pc[t] = "idle"
  BY StillIdle DEF Working
<1>2. left = {} \/ CollectorGoesOn
  BY StillCollector
<1>3. PICK w \in Threads : w \notin Forced
  BY ClassesAssumption
<1>4. ~WorkerGoesOn(w)
  BY DEF Still
<1>5. CASE phase = "commit"
  <2> SUFFICES ASSUME ~cancelled, NEW j \in todo PROVE FALSE
    BY <1>1, <1>5 DEF CallerGoesOn
  <2>1. j \in Roots
    BY <1>5 DEF LiveInv, Live, CurrentOnly, Current, Early
  <2>2. Ready(j)
    BY <2>1 DEF Roots, Job, Ready
  <2> QED BY <1>1, <1>3, <1>4, <1>5, <2>2 DEF WorkerGoesOn
<1>6. CASE phase = "resident"
  BY <1>1, <1>4, <1>6 DEF WorkerGoesOn, CallerGoesOn
<1>7. CASE phase = "prove"
  <2> SUFFICES ASSUME ~cancelled, ~CallerGoesOn PROVE FALSE
    BY <1>7 DEF CallerGoesOn
  <2>1. PICK j \in Proofs : ~(announced[j] > 0)
    BY <1>7 DEF CallerGoesOn
  <2>2. \A k \in Proofs : k \in Jobs
    BY <1>7, RunPositive, CurrentJobs
  <2>3. ASSUME NEW k \in Proofs, announced[k] = 0
        PROVE  k \in todo
    <3>1. Live /\ run > 0
      BY <1>7 DEF LiveInv, BaseInv, Types
    <3> QED BY <1>7, <2>3, <3>1, StillMissing
  <2>4. \A k \in Proofs : announced[k] \in Nat
    BY <2>2 DEF BaseInv, TypeOK
  <2>5. j \in todo
    BY <2>1, <2>3, <2>4
  <2>6. \A k \in todo : ~Ready(k)
    BY <1>1, <1>3, <1>4, <1>7 DEF WorkerGoesOn
  <2>7. j.kind = "recursive1" /\ ~(announced[Job("basic", j.inst)] > 0)
    BY <2>5, <2>6 DEF Ready
  <2>8. Job("basic", j.inst) \in Proofs
    BY DEF Proofs, Job, Kinds
  <2>9. Job("basic", j.inst) \in todo
    BY <2>3, <2>4, <2>7, <2>8
  <2> QED BY <2>6, <2>9 DEF Ready, Job
<1>8. CASE phase \in {"roots", "collect", "join"}
  BY <1>1, <1>2, <1>8 DEF CallerGoesOn
<1> QED BY <1>5, <1>6, <1>7, <1>8 DEF BaseInv, TypeOK

(* A call of the scheduler never stops, nor a loan, with any number of     *)
(* streams, GPUs and workers, cancelled or not, whenever the first GPU is  *)
(* asked for: selectStream, get_stream_proofs_gpu, the joins of the        *)
(* calling thread and acquire_first_gpu_buffer_gpu never wait for each     *)
(* other in a circle, and no proof that is missed has been lost.           *)
THEOREM NoDeadlock == Spec => []NeverStuck
<1>1. BaseInv /\ Attended /\ LiveInv => NeverStuck
  BY StillBorrower, StillCaller DEF NeverStuck, Still
<1> QED BY <1>1, BaseAlways, AttendedAlways, LiveAlways, PTL

-----------------------------------------------------------------------------
(* The borrower comes only once the resident traces are proved, in a       *)
(* deployment whose call is neither cancelled nor repeated; and there the  *)
(* constant trees are kept apart from the buffers it overwrites.           *)
LateLoans ==
  \A x \in Setups : x.asks # {} =>
    x.asks = {"prove"} /\ ~x.cancels /\ x.runs = 1

TreesApart == \A x \in Setups : x.asks # {} => x.stored

(* A stream that is described and not uploaded yet, and one whose kernels  *)
(* were queued.                                                            *)
Expected(s) == \E t \in Threads : at[t] = s /\ pc[t] = "launch"
Launched(s) == Published(s) \/ \E t \in Threads : at[t] = s /\ pc[t] = "publish"

(* A described stream that was uploaded holds the trace of its last job    *)
(* until the proofs are waited for, and its constant tree as long as no    *)
(* borrower may come.                                                      *)
Uploaded ==
  \A s \in Streams : job[s] # None /\ ~Expected(s) =>
    /\ Early \/ phase = "resident" => buffer[s].trace = TraceOf(job[s])
    /\ ~setup.stored => buffer[s].tree = Result(job[s]).tree

(* A proof from a resident trace finds it in the buffer.                   *)
ResidentTraces ==
  phase = "resident" =>
    \A t \in Threads : pc[t] \in {"describe",
      "launch"} => buffer[at[t]].trace = TraceOf(mine[t])

(* A constant tree is used again only where it is the right one.           *)
Reuses ==
  \A t \in Threads : pc[t] = "launch" /\ reuse[t] /\ mine[t].kind # "witness" =>
    ~setup.stored /\ buffer[at[t]].tree = Tree(mine[t])

(* What the kernels of the job j leave on the stream.                      *)
Computes(s, j) ==
  [job |-> j, trace |-> buffer[s].trace, tree |-> buffer[s].tree]

(* The event of a stream whose kernels were queued was recorded: while     *)
(* they run they compute the result of the job, then it is in the pinned   *)
(* buffer.                                                                 *)
Kernels ==
  \A s \in Streams : Launched(s) =>
    /\ recorded[s]
    /\ running[s] = None => pinned[s] = Result(job[s])
    /\ running[s] # None => running[s] = job[s] /\ Computes(s, job[s]) = Result(job[s])

Right ==
  /\ Uploaded /\ ResidentTraces /\ Reuses /\ Kernels
  /\ \A j \in Jobs : \A k \in 1 .. Len(delivered[j]) : delivered[j][k] = Result(j)

(* Once the flag is up no worker holds or gets a lock of the first GPU,    *)
(* and the streams the borrower has passed stay free.                      *)
LoanPlaces ==
  /\ cancelled => setup.cancels
  /\ borrowed <=> borrower \in {"draining", "owner"}
  /\ borrower # "away" => setup.asks # {} /\ run = 1 /\ phase \in {"prove", "collect",
     "join", "done"}
  /\ borrowed => \A s \in First : lock[s] \notin Threads
  /\ borrower = "draining" => \A s \in First \ drain : Free(s)
  /\ borrower = "owner" => \A s \in First : Free(s)

(* Where a borrower may come, a stream without kernels in flight is one    *)
(* whose event was recorded and is done, or that is not launched.          *)
Quiet ==
  setup.asks # {} =>
    /\ \A s \in Streams : /\ Settled(s) => running[s] = None
                          /\ status[s] = 2 => recorded[s]
    /\ \A t \in Threads : /\ pc[t] \in {"describe", "launch"} => running[at[t]] = None
                          /\ pc[t] = "publish" => recorded[at[t]]
    /\ run = 0 => \A s \in Streams : running[s] = None


LoanInv == LoanPlaces /\ Quiet

RightInv == ~cancelled => Right

-----------------------------------------------------------------------------
(* The loan.                                                               *)
LEMMA InitLoan == Init => LoanInv
<1> SUFFICES ASSUME Init PROVE LoanInv
  OBVIOUS
<1>1. LoanPlaces
  BY DEF Init, LoanPlaces
<1>2. Quiet
  BY DEF Init, Quiet, Settled
<1> QED BY <1>1, <1>2 DEF LoanInv

(* Without a borrower there is nothing to keep.                            *)
LEMMA NoLoan ==
  ASSUME BaseInv, LoanInv, [Next]_vars, setup.asks = {}
  PROVE  LoanInv'
<1>1. setup' = setup
  BY DEF Next, StartRun, Cancel, Ask,
     Caller, CallerMovesOn, Borrower, Worker, LockFirst, RaiseFlag,
     Drain, Own, Return,
     JoinContributions, CollectStream, FindResident, JoinResident, WaitZero,
       ClearCallback,
     JoinWorkers, Poll, TakeJob, TakeResident, BeginScan, TryStream, NothingFree, Reserve,
     Describe, Launch, Publish, Complete, main, vars
<1>2. borrower = "away" /\ borrowed = FALSE
  BY DEF LoanInv, LoanPlaces, BaseInv, TypeOK
<1>3. borrower' = borrower /\ borrowed' = borrowed
  BY <1>2 DEF Next, StartRun, Cancel, Ask,
     Caller, CallerMovesOn, Borrower, Worker, LockFirst,
     RaiseFlag, Drain, Own, Return,
     JoinContributions, CollectStream, FindResident, JoinResident, WaitZero,
       ClearCallback,
     JoinWorkers, Poll, TakeJob, TakeResident, BeginScan, TryStream, NothingFree, Reserve,
     Describe, Launch, Publish, Complete, loan, vars
<1>4. cancelled' => setup.cancels
  BY DEF LoanInv, LoanPlaces, Next, StartRun, Cancel, Ask,
     Caller, CallerMovesOn, Borrower, Worker,
     LockFirst, RaiseFlag, Drain, Own, Return,
     JoinContributions, CollectStream, FindResident, JoinResident, WaitZero,
       ClearCallback,
     JoinWorkers, Poll, TakeJob, TakeResident, BeginScan, TryStream, NothingFree, Reserve,
     Describe, Launch, Publish, Complete, main, vars
<1> QED BY <1>1, <1>2, <1>3, <1>4 DEF LoanInv, LoanPlaces, Quiet

(* What a deployment with a borrower is.                                   *)
Lent == setup.asks = {"prove"} /\ ~setup.cancels /\ setup.runs = 1 /\ ~cancelled

LEMMA LentIs ==
  ASSUME LateLoans, BaseInv, LoanInv, setup.asks # {}
  PROVE  Lent
BY DEF LateLoans, BaseInv, Types, LoanInv, LoanPlaces, Lent

(* Steps that leave the loan alone, and keep free what the borrower found  *)
(* free.                                                                   *)
LEMMA LoanKept ==
  ASSUME BaseInv, LoanInv, Lent, cancelled' = cancelled, setup' = setup, run' = run,
         UNCHANGED loan,
         borrower # "away" => phase' \in {"prove", "collect", "join", "done"},
         borrowed => \A s \in First : lock'[s] \in Threads => lock[s] \in Threads,
         borrowed => \A s \in First : Free(s) => Free(s)'
  PROVE  LoanPlaces'
BY DEF LoanInv, LoanPlaces, Lent, loan, First, OnFirst

LEMMA StartRunLoan ==
  ASSUME BaseInv, LoanInv, Lent, StartRun
  PROVE  LoanInv'
<1>1. run = 0 /\ borrower = "away" /\ borrowed = FALSE
  BY DEF LoanInv, LoanPlaces, StartRun, Lent, BaseInv, TypeOK
<1>2. borrower' = "away" /\ borrowed' = FALSE /\ cancelled' = FALSE /\ setup' = setup /\ run' = 1
  BY <1>1 DEF StartRun, loan
<1>3. /\ \A s \in Streams : running'[s] = None /\ status'[s] = 0
      /\ \A t \in Threads : pc'[t] = "idle"
  BY <1>1 DEF StartRun, LoanInv, Quiet, Lent, work, BaseInv, Places
<1>4. LoanPlaces'
  BY <1>2 DEF LoanPlaces
<1>5. Quiet'
  BY <1>2, <1>3 DEF Quiet
<1> QED BY <1>4, <1>5 DEF LoanInv

LEMMA CallerLoan ==
  ASSUME BaseInv, LoanInv, Lent, Live,
         JoinContributions \/ FindResident \/ JoinResident \/ WaitZero \/ ClearCallback \/ JoinWorkers
  PROVE  LoanInv'
<1>1. UNCHANGED <<setup, run, cancelled, cards, work, loan>>
  BY DEF JoinContributions, FindResident, JoinResident, WaitZero, ClearCallback,
     JoinWorkers
<1>2. \A s \in Streams : Free(s)' = Free(s) /\ Settled(s)' = Settled(s)
  BY <1>1 DEF Free, EventDone, Settled, cards
<1>3. borrower # "away" => phase' \in {"prove", "collect", "join", "done"}
  BY DEF LoanInv, LoanPlaces, JoinContributions, FindResident, JoinResident, WaitZero,
     ClearCallback, JoinWorkers
<1>4. LoanPlaces'
  BY <1>1, <1>2, <1>3, LoanKept DEF cards, First
<1>5. Quiet'
  BY <1>1, <1>2 DEF LoanInv, Quiet, cards, work
<1> QED BY <1>4, <1>5 DEF LoanInv

(* A stream is settled by the borrower's loan or not: its kernels ended.   *)
LEMMA SettledLoan ==
  ASSUME BaseInv, LoanInv, Lent, NEW s \in Streams, NEW st \in {1, 3}, ResetTo(s, st),
         running[s] = None, UNCHANGED <<setup, run, running>>,
         \A t \in Threads : pc'[t] = "launch" => pc[t] = "launch" /\ at'[t] = at[t],
         \A t \in Threads : pc'[t] = "describe" => at'[t] = s \/ (pc[t] = "describe" /\ at'[t] = at[t]),
         \A t \in Threads : pc'[t] = "publish" => pc[t] = "publish" /\ at'[t] = at[t] /\ at[t] # s
  PROVE  Quiet'
<1>1. /\ \A r \in Streams : status'[r] = IF r = s THEN st ELSE status[r]
      /\ \A r \in Streams \ {s} : recorded'[r] = recorded[r]
  BY DEF ResetTo, BaseInv, TypeOK
<1>0. /\ \A r \in Streams : /\ Settled(r) => running[r] = None
                            /\ status[r] = 2 => recorded[r]
      /\ \A t \in Threads : /\ pc[t] \in {"describe", "launch"} => running[at[t]] = None
                            /\ pc[t] = "publish" => recorded[at[t]]
      /\ run = 0 => \A r \in Streams : running[r] = None
  BY DEF LoanInv, Quiet, Lent
<1>2. \A r \in Streams : /\ Settled(r)' => running'[r] = None
                         /\ status'[r] = 2 => recorded'[r]
  <2> SUFFICES ASSUME NEW r \in Streams
               PROVE  (Settled(r)' => running'[r] = None) /\ (status'[r] = 2 => recorded'[r])
    OBVIOUS
  <2>1. CASE r = s
    BY <2>1, <1>1
  <2>2. CASE r # s
    BY <2>2, <1>0, <1>1 DEF Settled
  <2> QED BY <2>1, <2>2
<1>3. \A t \in Threads : /\ pc'[t] \in {"describe", "launch"} => running'[at'[t]] = None
                         /\ pc'[t] = "publish" => recorded'[at'[t]]
  <2>1. \A t \in Threads : pc[t] = "publish" => at[t] \in Streams
    BY NamesAssumption DEF BaseInv, TypeOK
  <2> QED BY <1>0, <1>1, <2>1
<1> QED BY <1>0, <1>2, <1>3 DEF Quiet

(* What the borrower finds free, or a worker locks, computes nothing.      *)
LEMMA FreeQuiet ==
  ASSUME BaseInv, LoanInv, Lent, NEW s \in Streams, Free(s)
  PROVE  running[s] = None
BY DEF LoanInv, Quiet, Lent, Free, EventDone, Settled

LEMMA PollLoan ==
  ASSUME BaseInv, LoanInv, Lent, Live, NEW s \in Streams, Poll(s)
  PROVE  LoanInv'
<1>1. /\ status[s] = 2 /\ Free(s) /\ ResetTo(s, 3)
      /\ UNCHANGED <<setup, run, phase, cancelled, lock, running, pc, at, loan>>
  BY DEF Poll, main, work, Free
<1>2. \A r \in Streams : Free(r) => Free(r)'
  BY <1>1 DEF ResetTo, Free, EventDone, BaseInv, TypeOK
<1>3. LoanPlaces'
  <2>1. borrower # "away" => phase' \in {"prove", "collect", "join", "done"}
    BY <1>1 DEF LoanInv, LoanPlaces
  <2>2. \A r \in First : r \in Streams
    BY DEF First
  <2> QED BY <1>1, <1>2, <2>1, <2>2, LoanKept
<1>4. \A t \in Threads : pc[t] = "publish" => at[t] # s
  BY <1>1, NamesAssumption DEF Live, Owned, BaseInv, TypeOK
<1>5. Quiet'
  <2>1. running[s] = None
    BY <1>1, FreeQuiet
  <2> QED BY <1>1, <1>4, <2>1, SettledLoan
<1> QED BY <1>3, <1>5 DEF LoanInv

LEMMA CollectStreamLoan ==
  ASSUME BaseInv, LoanInv, Lent, Live, CollectStream
  PROVE  LoanInv'
<1>0. PICK s \in left :
        \/ Settled(s) /\ UNCHANGED <<status, sink, recorded, out>>
        \/ running[s] = None /\ ResetTo(s, 3)
  <2>1. left \subseteq Nat /\ IsFiniteSet(left) /\ left # {}
    BY StreamsAssumption, FS_Subset DEF CollectStream, BaseInv, TypeOK
  <2> QED BY <2>1, MinExists DEF CollectStream, Settled
<1>1. /\ s \in Streams /\ phase \in {"roots", "collect"}
      /\ UNCHANGED <<setup, run, phase, cancelled, pc, lock, at, running, loan>>
  BY DEF CollectStream, work, BaseInv, TypeOK
<1>2. borrower # "away" => phase' \in {"prove", "collect", "join", "done"}
  BY <1>1 DEF LoanInv, LoanPlaces
<1>3. \A r \in Streams : Free(r) => Free(r)'
  BY <1>0, <1>1 DEF ResetTo, Free, EventDone, BaseInv, TypeOK
<1>4. LoanPlaces'
  <2>1. \A r \in First : r \in Streams
    BY DEF First
  <2> QED BY <1>1, <1>2, <1>3, <2>1, LoanKept
<1>5. Quiet'
  <2>1. CASE Settled(s) /\ UNCHANGED <<status, sink, recorded, out>>
    BY <1>1, <2>1 DEF LoanInv, Quiet, Settled
  <2>2. CASE running[s] = None /\ ResetTo(s, 3)
    <3>1. \A t \in Threads : pc[t] \notin {"describe", "launch", "publish"}
      BY <1>1, CollectUnowned DEF BaseInv, TypeOK
    <3> QED BY <1>1, <2>2, <3>1, SettledLoan
  <2> QED BY <1>0, <2>1, <2>2
<1> QED BY <1>4, <1>5 DEF LoanInv

LEMMA SearchLoan ==
  ASSUME BaseInv, LoanInv, Lent, NEW t \in Threads,
         TakeJob(t) \/ BeginScan(t) \/ TryStream(t) \/ NothingFree(t)
  PROVE  LoanInv'
<1>1. UNCHANGED <<setup, run, phase, cancelled, status, recorded, running, at, loan>>
  BY DEF TakeJob, BeginScan, TryStream, NothingFree, main, cards
<1>2. \A u \in Threads : pc'[u] = pc[u] \/ pc'[u] \in {"select", "recursive", "plain"}
  BY DEF TakeJob, BeginScan, TryStream, NothingFree, BaseInv, TypeOK
<1>3. \A r \in Streams : Free(r)' = Free(r) /\ Settled(r)' = Settled(r)
  BY <1>1 DEF Free, EventDone, Settled
<1>4. borrowed => \A r \in First : lock'[r] \in Threads => lock[r] \in Threads
  <2>1. \A r \in Streams : lock'[r] = lock[r] \/ (lock'[r] = t /\ (OnFirst(r) => ~borrowed))
    BY DEF TakeJob, BeginScan, TryStream, NothingFree, cards, BaseInv, TypeOK
  <2> QED BY <2>1 DEF First
<1>5. LoanPlaces'
  <2>1. borrower # "away" => phase' \in {"prove", "collect", "join", "done"}
    BY <1>1 DEF LoanInv, LoanPlaces
  <2>2. \A r \in First : r \in Streams
    BY DEF First
  <2> QED BY <1>1, <1>3, <1>4, <2>1, <2>2, LoanKept
<1>6. Quiet'
  BY <1>1, <1>2, <1>3 DEF LoanInv, Quiet
<1> QED BY <1>5, <1>6 DEF LoanInv

LEMMA ReserveLoan ==
  ASSUME BaseInv, LoanInv, Lent, Live, NEW t \in Threads, Reserve(t)
  PROVE  LoanInv'
<1>0. PICK s \in Preferred(Held(t)) : ResetTo(s, 1) /\ at' = [at EXCEPT ![t] = s]
  BY DEF Reserve
<1>1. s \in Streams /\ lock[s] = t /\ Free(s) /\ status[s] # 1
  <2>1. s \in Streams /\ lock[s] = t
    BY PreferredIn DEF Held
  <2> QED BY <2>1 DEF Live, Owned, Free
<1>2. /\ UNCHANGED <<setup, run, phase, cancelled, running, loan>>
      /\ pc' = [pc EXCEPT ![t] = "describe"]
      /\ lock' = [r \in Streams |-> IF lock[r] = t THEN None ELSE lock[r]]
  BY DEF Reserve, main
<1>3. \A r \in First : r \in Streams
  BY DEF First
<1>4. borrowed => \A r \in First : Free(r) => Free(r)'
  <2> SUFFICES ASSUME borrowed, NEW r \in First, Free(r) PROVE Free(r)'
    OBVIOUS
  <2>1. r # s
    BY <1>1 DEF LoanInv, LoanPlaces
  <2> QED BY <1>0, <1>2, <1>3, <2>1 DEF ResetTo, Free, EventDone, BaseInv, TypeOK
<1>5. LoanPlaces'
  <2>1. borrower # "away" => phase' \in {"prove", "collect", "join", "done"}
    BY <1>2 DEF LoanInv, LoanPlaces
  <2>2. \A r \in First : lock'[r] \in Threads => lock[r] \in Threads
    BY <1>2, <1>3, NamesAssumption
  <2> QED BY <1>2, <1>4, <2>1, <2>2, LoanKept
<1>6. Quiet'
  <2>1. running[s] = None
    BY <1>1, FreeQuiet
  <2>2. \A u \in Threads : /\ pc'[u] = IF u = t THEN "describe" ELSE pc[u]
                           /\ at'[u] = IF u = t THEN s ELSE at[u]
    BY <1>0, <1>2 DEF BaseInv, TypeOK
  <2>3. \A u \in Threads : pc[u] = "publish" => at[u] # s
    BY <1>1, NamesAssumption DEF Live, Owned, BaseInv, TypeOK
  <2> QED BY <1>0, <1>1, <1>2, <2>1, <2>2, <2>3, SettledLoan
<1> QED BY <1>5, <1>6 DEF LoanInv

LEMMA TakeResidentLoan ==
  ASSUME BaseInv, LoanInv, Lent, Live, NEW t \in Threads, TakeResident(t)
  PROVE  LoanInv'
<1>0. PICK s \in left : ResetTo(s, 1) /\ at' = [at EXCEPT ![t] = s]
  BY DEF TakeResident
<1>1. /\ phase = "resident" /\ UNCHANGED <<setup, run, phase, cancelled, running, loan>>
      /\ pc' = [pc EXCEPT ![t] = "describe"]
  BY DEF TakeResident
<1>2. s \in Streams /\ Settled(s)
  BY <1>1 DEF Live, RestingApart, Resting, BaseInv, TypeOK
<1>3. borrower' = "away" /\ borrowed' = FALSE
  BY <1>1 DEF LoanInv, LoanPlaces, loan, BaseInv, TypeOK
<1>4. LoanPlaces'
  BY <1>1, <1>3 DEF LoanPlaces, Lent
<1>5. Quiet'
  <2>1. running[s] = None
    BY <1>2 DEF LoanInv, Quiet, Lent
  <2>2. \A u \in Threads : /\ pc'[u] = IF u = t THEN "describe" ELSE pc[u]
                           /\ at'[u] = IF u = t THEN s ELSE at[u]
    BY <1>0, <1>1 DEF BaseInv, TypeOK
  <2>3. \A u \in Threads : pc[u] = "publish" => at[u] # s
    BY <1>2, NamesAssumption DEF Live, Owned, BaseInv, TypeOK, Settled
  <2> QED BY <1>0, <1>1, <1>2, <2>1, <2>2, <2>3, SettledLoan
<1> QED BY <1>4, <1>5 DEF LoanInv

LEMMA LoadLoan ==
  ASSUME BaseInv, LoanInv, Lent, Live, NEW t \in Threads,
         Describe(t) \/ Launch(t) \/ Publish(t)
  PROVE  LoanInv'
<1>0. PICK s \in Streams : s = at[t]
  BY NamesAssumption DEF Describe, Launch, Publish, BaseInv, TypeOK
<1>1. /\ UNCHANGED <<setup, run, phase, cancelled, lock, loan>>
      /\ s # None /\ status[s] = 1 /\ ~Free(s) /\ run > 0
      /\ \A u \in Threads \ {t} : at[u] # s
  <2>1. phase # "done"
    BY DEF Describe, Launch, Publish, BaseInv, Places
  <2> QED BY <1>0, <2>1, RunPositive, NamesAssumption
          DEF Describe, Launch, Publish, main, Live, Owned, Free
<1>2. \A r \in Streams \ {s} : status'[r] = status[r] /\ recorded'[r] = recorded[r] /\ running'[r] = running[r]
  BY <1>0 DEF Describe, Launch, Publish, BaseInv, TypeOK
<1>3. \A u \in Threads \ {t} : pc'[u] = pc[u] /\ at'[u] = at[u]
  BY DEF Describe, Launch, Publish, BaseInv, TypeOK
<1>4. \A r \in Streams : Free(r) => Free(r)'
  BY <1>1, <1>2 DEF Free, EventDone
<1>5. LoanPlaces'
  <2>1. borrower # "away" => phase' \in {"prove", "collect", "join", "done"}
    BY <1>1 DEF LoanInv, LoanPlaces
  <2>2. \A r \in First : r \in Streams
    BY DEF First
  <2> QED BY <1>1, <1>4, <2>1, <2>2, LoanKept
<1>6. Quiet'
  <2>0. /\ \A r \in Streams : /\ Settled(r) => running[r] = None
                              /\ status[r] = 2 => recorded[r]
        /\ \A u \in Threads : /\ pc[u] \in {"describe", "launch"} => running[at[u]] = None
                              /\ pc[u] = "publish" => recorded[at[u]]
    BY DEF LoanInv, Quiet, Lent
  <2>1. /\ pc'[t] = "launch" => at'[t] = s /\ running'[s] = None
        /\ pc'[t] = "publish" => at'[t] = s /\ recorded'[s] = TRUE
        /\ pc'[t] # "describe"
    <3>1. CASE Describe(t)
      BY <1>0, <2>0, <3>1 DEF Describe, BaseInv, TypeOK
    <3>2. CASE Launch(t)
      BY <1>0, <3>2 DEF Launch, BaseInv, TypeOK
    <3>3. CASE Publish(t)
      BY <3>3 DEF Publish, BaseInv, TypeOK
    <3> QED BY <3>1, <3>2, <3>3
  <2>2. /\ status'[s] \in {1, 2}
        /\ status'[s] = 2 => recorded'[s] = TRUE
    <3>1. CASE Publish(t)
      BY <1>0, <2>0, <3>1 DEF Publish, BaseInv, TypeOK
    <3>2. CASE Describe(t) \/ Launch(t)
      BY <1>1, <3>2 DEF Describe, Launch
    <3> QED BY <3>1, <3>2
  <2>3. \A u \in Threads \ {t} : pc[u] \in {"describe", "launch",
          "publish"} => at[u] \in Streams \ {s}
    BY <1>1, NamesAssumption DEF BaseInv, TypeOK
  <2>4. ASSUME NEW r \in Streams
        PROVE  (Settled(r)' => running'[r] = None) /\ (status'[r] = 2 => recorded'[r])
    <3>1. CASE r = s
      BY <3>1, <2>2 DEF Settled
    <3>2. CASE r # s
      BY <3>2, <2>0, <1>2 DEF Settled
    <3> QED BY <3>1, <3>2
  <2>5. ASSUME NEW u \in Threads
        PROVE  /\ pc'[u] \in {"describe", "launch"} => running'[at'[u]] = None
               /\ pc'[u] = "publish" => recorded'[at'[u]]
    <3>1. CASE u = t
      BY <3>1, <2>1
    <3>2. CASE u # t
      BY <3>2, <2>0, <2>3, <1>2, <1>3
    <3> QED BY <3>1, <3>2
  <2> QED BY <1>1, <2>4, <2>5 DEF Quiet
<1> QED BY <1>5, <1>6 DEF LoanInv

LEMMA CompleteLoan ==
  ASSUME BaseInv, LoanInv, Lent, NEW s \in Streams, Complete(s)
  PROVE  LoanInv'
<1>1. /\ UNCHANGED <<setup, run, phase, cancelled, lock, status, recorded, pc, at, loan>>
      /\ \A r \in Streams : running'[r] = None \/ running'[r] = running[r]
  BY DEF Complete, main, work, BaseInv, TypeOK
<1>2. \A r \in Streams : (Free(r) => Free(r)') /\ Settled(r)' = Settled(r)
  BY <1>1 DEF Free, EventDone, Settled
<1>3. LoanPlaces'
  <2>1. borrower # "away" => phase' \in {"prove", "collect", "join", "done"}
    BY <1>1 DEF LoanInv, LoanPlaces
  <2>2. \A r \in First : r \in Streams
    BY DEF First
  <2> QED BY <1>1, <1>2, <2>1, <2>2, LoanKept
<1>4. Quiet'
  <2>1. \A t \in Threads : pc[t] \in {"describe", "launch"} => at[t] \in Streams
    BY NamesAssumption DEF BaseInv, TypeOK
  <2> QED BY <1>1, <1>2, <2>1 DEF LoanInv, Quiet
<1> QED BY <1>3, <1>4 DEF LoanInv

LEMMA BorrowerLoan ==
  ASSUME BaseInv, LoanInv, Lent, Ask \/ Borrower
  PROVE  LoanInv'
<1>1. UNCHANGED <<setup, run, phase, cancelled, status, recorded, running, pc, at>>
  BY DEF Ask, Borrower, LockFirst, RaiseFlag, Drain, Own, Return, main, cards, work
<1>2. \A r \in Streams : Free(r)' = Free(r) /\ Settled(r)' = Settled(r)
  BY <1>1 DEF Free, EventDone, Settled
<1>3. Quiet'
  BY <1>1, <1>2 DEF LoanInv, Quiet
<1>4. First' = First /\ \A r \in First : r \in Streams
  BY DEF First, OnFirst
<1>5. \A r \in Streams : lock'[r] \in Threads => lock[r] \in Threads
  BY NamesAssumption DEF Borrower, Ask, LockFirst, RaiseFlag, Drain, Own, Return,
     cards, BaseInv, TypeOK
<1>6. LoanPlaces'
  <2>1. CASE Ask
    <3>1. phase = "prove" /\ run = 1
      BY <2>1, RunPositive DEF Ask, Lent, BaseInv, Types
    <3>2. borrower = "away" /\ borrower' = "locking" /\ borrowed' = borrowed
      BY <2>1 DEF Ask
    <3> QED BY <1>1, <3>1, <3>2 DEF LoanInv, LoanPlaces, Lent
  <2>2. CASE LockFirst
    BY <1>1, <1>2, <1>4, <1>5, <2>2 DEF LockFirst, LoanInv, LoanPlaces, loan
  <2>3. CASE RaiseFlag
    <3>1. \A r \in First : lock'[r] = None
      BY <1>4, <2>3 DEF RaiseFlag
    <3> QED BY <1>1, <1>4, <2>3, <3>1, NamesAssumption DEF RaiseFlag, LoanInv, LoanPlaces
  <2>4. CASE Drain
    <3>1. \A r \in First \ drain' : r \notin drain \/ Free(r)
      BY <2>4 DEF Drain
    <3> QED BY <1>1, <1>2, <1>4, <1>5, <2>4, <3>1 DEF Drain, LoanInv, LoanPlaces
  <2>5. CASE Own
    BY <1>1, <1>2, <1>4, <1>5, <2>5 DEF Own, LoanInv, LoanPlaces
  <2>6. CASE Return
    BY <1>1, <2>6 DEF Return, LoanInv, LoanPlaces
  <2> QED BY <2>1, <2>2, <2>3, <2>4, <2>5, <2>6 DEF Borrower
<1> QED BY <1>3, <1>6 DEF LoanInv

LEMMA LoanStep ==
  ASSUME LateLoans
  PROVE  BaseInv /\ LiveInv /\ LoanInv /\ [Next]_vars => LoanInv'
<1> SUFFICES ASSUME BaseInv, LiveInv, LoanInv, [Next]_vars PROVE LoanInv'
  OBVIOUS
<1>1. CASE setup.asks = {}
  BY <1>1, NoLoan
<1>2. CASE setup.asks # {}
  <2>0. Lent /\ Live
    BY <1>2, LentIs DEF LiveInv, Lent
  <2>1. CASE UNCHANGED vars
    BY <2>1 DEF LoanInv, LoanPlaces, Quiet, Free, EventDone, Settled, First, OnFirst,
       vars, main, cards, work, loan
  <2>2. CASE StartRun \/ Cancel
    BY <2>0, <2>2, StartRunLoan DEF Cancel, Lent
  <2>3. CASE Ask \/ Borrower
    BY <2>0, <2>3, BorrowerLoan
  <2>4. CASE Caller
    BY <2>0, <2>4, CallerLoan, CollectStreamLoan, PollLoan DEF Caller, CallerMovesOn
  <2>5. CASE \E t \in Threads : Worker(t)
    BY <2>0, <2>5, SearchLoan, ReserveLoan, TakeResidentLoan, LoadLoan DEF Worker
  <2>6. CASE \E s \in Streams : Complete(s)
    BY <2>0, <2>6, CompleteLoan
  <2> QED BY <2>1, <2>2, <2>3, <2>4, <2>5, <2>6 DEF Next
<1> QED BY <1>1, <1>2

(* Whoever is given the first GPU has it to itself: every stream was found *)
(* free under its lock after the flag was raised, no worker can lock one   *)
(* any more, and a stream that is being loaded is not free                 *)
(* (acquire_first_gpu_buffer_gpu and selectStream).                        *)
THEOREM LoanExclusive ==
  ASSUME LateLoans
  PROVE  Spec => []BorrowExclusive
<1>1. BaseInv /\ LiveInv /\ LoanInv => BorrowExclusive
  <2> SUFFICES ASSUME BaseInv, LiveInv, LoanInv, borrower = "owner", NEW s \in First
               PROVE  running[s] = None /\ \A t \in Threads : at[t] # s
    BY DEF BorrowExclusive
  <2>1. Lent /\ Free(s) /\ s \in Streams
    BY LentIs DEF LoanInv, LoanPlaces, First
  <2>2. \A t \in Threads : at[t] # s
    BY <2>1, NamesAssumption DEF Lent, LiveInv, Live, Owned, Free
  <2> QED BY <2>1, <2>2, FreeQuiet
<1> QED BY <1>1, BaseAlways, LiveAlways, InitLoan, LoanStep, PTL DEF Spec

-----------------------------------------------------------------------------
(* What is delivered.                                                      *)
DeliveredResults ==
  \A j \in Jobs : \A k \in 1 .. Len(delivered[j]) : delivered[j][k] = Result(j)

(* Steps that touch neither a buffer nor a job that was described.         *)
LEMMA RightKept ==
  ASSUME BaseInv, Right, UNCHANGED <<setup, job, buffer, status, sink, recorded,
         running, pinned, delivered>>,
         (Early \/ phase = "resident")' => Early \/ phase = "resident",
         phase' = "resident" => phase = "resident" \/ \A t \in Threads : pc'[t] = "idle",
         \A t \in Threads : pc'[t] \in {"describe", "launch", "publish"} =>
           pc'[t] = pc[t] /\ at'[t] = at[t] /\ mine'[t] = mine[t] /\ reuse'[t] = reuse[t],
         \A t \in Threads : pc[t] \in {"describe", "launch", "publish"} => pc'[t] = pc[t]
  PROVE  Right'
<1>1. \A s \in Streams : Published(s)' = Published(s)
  BY DEF Published
<1>2. \A s \in Streams : Expected(s)' = Expected(s) /\ Launched(s)' = Launched(s)
  BY <1>1 DEF Expected, Launched
<1>3. Uploaded'
  BY <1>2 DEF Right, Uploaded
<1>4. ResidentTraces' /\ Reuses'
  BY DEF Right, ResidentTraces, Reuses
<1>5. Kernels'
  BY <1>2 DEF Right, Kernels, Computes
<1> QED BY <1>3, <1>4, <1>5 DEF Right

LEMMA SearchRight ==
  ASSUME BaseInv, Right, NEW t \in Threads,
         TakeJob(t) \/ BeginScan(t) \/ TryStream(t) \/ NothingFree(t)
  PROVE  Right'
<1>1. /\ UNCHANGED <<setup, job, buffer, status, sink, recorded, running, pinned,
         delivered, phase, at, reuse>>
      /\ pc[t] \in {"idle", "select", "recursive", "plain"}
  BY DEF TakeJob, BeginScan, TryStream, NothingFree, main, cards, out
<1>2. \A u \in Threads : IF u = t THEN pc'[u] \in {"select", "recursive", "plain"}
                         ELSE pc'[u] = pc[u] /\ mine'[u] = mine[u]
  BY DEF TakeJob, BeginScan, TryStream, NothingFree, BaseInv, TypeOK
<1> QED BY <1>1, <1>2, RightKept DEF Early

LEMMA CallerRight ==
  ASSUME BaseInv, Right,
         JoinContributions \/ FindResident \/ JoinResident \/ WaitZero \/ ClearCallback \/ JoinWorkers
  PROVE  Right' \/ cancelled'
<1>1. UNCHANGED <<setup, cards, work, out>>
  BY DEF JoinContributions, FindResident, JoinResident, WaitZero, ClearCallback,
     JoinWorkers
<1>2. CASE JoinContributions /\ cancelled
  BY <1>2 DEF JoinContributions
<1>3. CASE ~(JoinContributions /\ cancelled)
  <2>1. (Early \/ phase = "resident")' => Early \/ phase = "resident"
    BY <1>3 DEF JoinContributions, FindResident, JoinResident, WaitZero, ClearCallback,
       JoinWorkers, Early
  <2>2. phase' = "resident" => \A t \in Threads : pc'[t] = "idle"
    BY <1>1, <1>3 DEF JoinContributions, FindResident, JoinResident, WaitZero,
       ClearCallback, JoinWorkers,
       work, BaseInv, Places
  <2> QED BY <1>1, <2>1, <2>2, RightKept DEF cards, work, out
<1> QED BY <1>2, <1>3

LEMMA BorrowerRight ==
  ASSUME BaseInv, LiveInv, LoanInv, LateLoans, TreesApart, Right, Ask \/ Borrower
  PROVE  Right'
<1>1. UNCHANGED <<setup, phase, job, status, sink, recorded, running, pinned,
        delivered, pc, at, mine, reuse>>
  BY DEF Ask, Borrower, LockFirst, RaiseFlag, Drain, Own, Return, main, cards, work, out
<1>2. CASE buffer' = buffer
  BY <1>1, <1>2, RightKept DEF Early
<1>3. CASE Own
  <2>1. Lent /\ setup.stored /\ phase \in {"prove", "collect", "join", "done"}
    BY <1>3, LentIs DEF Own, LoanInv, LoanPlaces, TreesApart, BaseInv, Types
  <2>2. \A s \in First : running[s] = None
    BY <1>3, <2>1, FreeQuiet DEF Own, LoanInv, LoanPlaces, First
  <2>3. \A s \in Streams \ First : buffer'[s] = buffer[s]
    BY <1>3 DEF Own
  <2>4. \A s \in Streams : Launched(s)' = Launched(s)
    BY <1>1 DEF Launched, Published
  <2>5. Uploaded' /\ ResidentTraces'
    BY <1>1, <2>1 DEF Uploaded, ResidentTraces, Lent, Early
  <2>6. Reuses'
    BY <1>1, <2>1 DEF Right, Reuses, Lent
  <2>7. Kernels'
    BY <1>1, <2>2, <2>3, <2>4 DEF Right, Kernels, Computes
  <2> QED BY <1>1, <2>5, <2>6, <2>7 DEF Right
<1>4. buffer' = buffer \/ Own
  BY DEF Ask, Borrower, LockFirst, RaiseFlag, Drain, Return, cards
<1> QED BY <1>2, <1>3, <1>4

LEMMA CompleteRight ==
  ASSUME BaseInv, Right, NEW s \in Streams, Complete(s)
  PROVE  Right'
<1>1. /\ UNCHANGED <<setup, phase, job, status, sink, recorded, buffer, delivered, pc,
         at, mine, reuse>>
      /\ running[s] # None
      /\ \A r \in Streams : pinned'[r] = IF r = s THEN Computes(s,
         running[s]) ELSE pinned[r]
      /\ \A r \in Streams : running'[r] = IF r = s THEN None ELSE running[r]
  BY DEF Complete, main, work, out, BaseInv, TypeOK, Types, Computes
<1>2. \A r \in Streams : Expected(r)' = Expected(r) /\ Launched(r)' = Launched(r)
  BY <1>1 DEF Expected, Launched, Published
<1>3. Uploaded' /\ ResidentTraces' /\ Reuses'
  BY <1>1, <1>2 DEF Right, Uploaded, ResidentTraces, Reuses, Early
<1>4. Kernels'
  <2> SUFFICES ASSUME NEW r \in Streams, Launched(r)
               PROVE  /\ recorded[r]
                      /\ running'[r] = None => pinned'[r] = Result(job[r])
                      /\ running'[r] # None =>
                           running'[r] = job[r] /\ Computes(r, job[r]) = Result(job[r])
    BY <1>1, <1>2 DEF Kernels, Computes
  <2>1. CASE r = s
    BY <1>1, <2>1 DEF Right, Kernels
  <2>2. CASE r # s
    BY <1>1, <2>2 DEF Right, Kernels
  <2> QED BY <2>1, <2>2
<1> QED BY <1>1, <1>3, <1>4 DEF Right

(* What is copied out of a stream that is not being loaded and whose       *)
(* kernels ended is the result of its job.                                 *)
LEMMA GatheredRight ==
  ASSUME BaseInv, Live, Right, NEW s \in Streams, status[s] # 1,
         \/ Collect(s) /\ (EventDone(s) \/ running[s] = None)
         \/ Finish(s)
  PROVE  DeliveredResults'
<1>1. CASE delivered' = delivered
  BY <1>1 DEF Right, DeliveredResults
<1>2. CASE delivered' # delivered
  <2>1. /\ sink[s] # None
        /\ delivered' = [delivered EXCEPT ![job[s]] = Append(@, pinned[s])]
        /\ EventDone(s) \/ running[s] = None
    BY <1>2 DEF Collect, Finish, out
  <2>2. Published(s) /\ Launched(s)
    BY <2>1 DEF Published, Launched, Live, Described, Settled, BaseInv, TypeOK
  <2>3. pinned[s] = Result(job[s])
    BY <2>1, <2>2 DEF Right, Kernels, EventDone
  <2>4. job[s] \in Jobs /\ delivered[job[s]] = <<>>
    <3>1. job[s] \in Jobs
      BY <2>1 DEF BaseInv, TypeOK, Places
    <3> QED BY <2>2, <3>1 DEF Live, OnePlace, Out
  <2>5. \A j \in Jobs : delivered'[j] = IF j = job[s] THEN <<Result(j)>> ELSE delivered[j]
    BY <2>1, <2>3, <2>4 DEF BaseInv, Types
  <2>6. ASSUME NEW j \in Jobs, NEW k \in 1 .. Len(delivered'[j])
        PROVE  delivered'[j][k] = Result(j)
    <3>1. CASE j = job[s]
      <4>1. delivered'[j] = <<Result(j)>>
        BY <2>5, <3>1
      <4>2. Len(<<Result(j)>>) = 1
        OBVIOUS
      <4>3. k = 1
        BY <4>1, <4>2
      <4> QED BY <4>1, <4>3
    <3>2. CASE j # job[s]
      BY <2>5, <2>6, <3>2 DEF Right
    <3> QED BY <3>1, <3>2
  <2> QED BY <2>6 DEF DeliveredResults
<1> QED BY <1>1, <1>2

(* A stream that nobody owns is emptied, or reserved.                      *)
LEMMA EmptiedRight ==
  ASSUME BaseInv, Live, Right, NEW s \in Streams, NEW st \in {1, 3}, status[s] # 1,
         ResetTo(s, st),
         DeliveredResults', UNCHANGED <<setup, phase, job, buffer, running, pinned,
           reuse>>,
         \A t \in Threads : pc'[t] = "launch" <=> pc[t] = "launch",
         \A t \in Threads : pc'[t] = "publish" <=> pc[t] = "publish",
         \A t \in Threads : pc[t] \in {"launch",
           "publish"} => at'[t] = at[t] /\ mine'[t] = mine[t]
  PROVE  Uploaded' /\ Reuses' /\ Kernels'
<1>1. \A t \in Threads : pc[t] \in {"launch", "publish"} => at[t] # s
  BY NamesAssumption DEF Live, Owned, BaseInv, TypeOK
<1>2. \A r \in Streams : Expected(r)' = Expected(r)
  BY DEF Expected
<1>3. \A r \in Streams \ {s} : Launched(r)' = Launched(r) /\ recorded'[r] = recorded[r]
  BY DEF Launched, Published, ResetTo, BaseInv, TypeOK
<1>4. ~Launched(s)'
  BY <1>1, NamesAssumption DEF Launched, Published, ResetTo, BaseInv, TypeOK
<1>5. Uploaded'
  BY <1>2 DEF Right, Uploaded, Early
<1>6. Reuses'
  BY DEF Right, Reuses
<1>7. Kernels'
  BY <1>3, <1>4 DEF Right, Kernels, Computes
<1> QED BY <1>5, <1>6, <1>7

LEMMA PollRight ==
  ASSUME BaseInv, Live, Right, NEW s \in Streams, Poll(s)
  PROVE  Right'
<1>1. /\ phase \in {"commit", "prove"} /\ status[s] = 2 /\ EventDone(s) /\ Collect(s) /\ ResetTo(s, 3)
      /\ UNCHANGED <<setup, phase, job, buffer, running, pinned, pc, at, mine, reuse>>
  BY DEF Poll, main, work
<1>2. DeliveredResults'
  BY <1>1, GatheredRight
<1>3. Uploaded' /\ Reuses' /\ Kernels'
  BY <1>1, <1>2, EmptiedRight
<1> QED BY <1>1, <1>2, <1>3 DEF Right, DeliveredResults, ResidentTraces

LEMMA CollectStreamRight ==
  ASSUME BaseInv, Live, Right, CollectStream
  PROVE  Right'
<1>0. PICK s \in left :
        \/ UNCHANGED <<status, sink, recorded, out>>
        \/ running[s] = None /\ Collect(s) /\ ResetTo(s, 3)
  <2>1. left \subseteq Nat /\ IsFiniteSet(left) /\ left # {}
    BY StreamsAssumption, FS_Subset DEF CollectStream, BaseInv, TypeOK
  <2> QED BY <2>1, MinExists DEF CollectStream
<1>1. /\ s \in Streams /\ phase \in {"roots", "collect"}
      /\ UNCHANGED <<setup, phase, job, buffer, running, pinned, pc, at, mine, reuse>>
  BY DEF CollectStream, work, BaseInv, TypeOK
<1>2. CASE UNCHANGED <<status, sink, recorded, out>>
  BY <1>1, <1>2, RightKept DEF Early, out
<1>3. CASE running[s] = None /\ Collect(s) /\ ResetTo(s, 3)
  <2>1. status[s] # 1
    BY <1>1, CollectUnowned
  <2>2. DeliveredResults'
    BY <1>1, <1>3, <2>1, GatheredRight
  <2>3. Uploaded' /\ Reuses' /\ Kernels'
    BY <1>1, <1>3, <2>1, <2>2, EmptiedRight
  <2> QED BY <1>1, <2>2, <2>3 DEF Right, DeliveredResults, ResidentTraces
<1> QED BY <1>0, <1>2, <1>3

LEMMA ReserveRight ==
  ASSUME BaseInv, Live, Right, NEW t \in Threads, Reserve(t)
  PROVE  Right'
<1>0. PICK s \in Preferred(Held(t)) : Finish(s) /\ ResetTo(s,
        1) /\ at' = [at EXCEPT ![t] = s]
  BY DEF Reserve
<1>1. s \in Streams /\ status[s] # 1
  <2>1. s \in Streams /\ lock[s] = t
    BY PreferredIn DEF Held
  <2> QED BY <2>1 DEF Live, Owned, Free
<1>2. /\ UNCHANGED <<setup, phase, job, buffer, running, pinned, mine, reuse>>
      /\ pc[t] \in {"recursive", "plain"} /\ phase # "resident"
      /\ \A u \in Threads : /\ pc'[u] = IF u = t THEN "describe" ELSE pc[u]
                            /\ u # t => at'[u] = at[u]
  BY <1>0 DEF Reserve, main, BaseInv, TypeOK, Places, Scanning
<1>3. DeliveredResults'
  BY <1>0, <1>1, GatheredRight
<1>4. Uploaded' /\ Reuses' /\ Kernels'
  BY <1>0, <1>1, <1>2, <1>3, EmptiedRight
<1> QED BY <1>2, <1>3, <1>4 DEF Right, DeliveredResults, ResidentTraces

LEMMA TakeResidentRight ==
  ASSUME BaseInv, Live, Right, NEW t \in Threads, TakeResident(t)
  PROVE  Right'
<1>0. PICK s \in left : /\ mine' = [mine EXCEPT ![t] = Waiting(s)]
                        /\ at' = [at EXCEPT ![t] = s]
                        /\ Finish(s)
                        /\ ResetTo(s, 1)
  BY DEF TakeResident, Waiting
<1>1. /\ phase = "resident" /\ pc[t] = "idle"
      /\ UNCHANGED <<setup, phase, job, buffer, running, pinned, reuse>>
      /\ \A u \in Threads : /\ pc'[u] = IF u = t THEN "describe" ELSE pc[u]
                            /\ at'[u] = IF u = t THEN s ELSE at[u]
                            /\ mine'[u] = IF u = t THEN Waiting(s) ELSE mine[u]
  BY <1>0 DEF TakeResident, BaseInv, TypeOK
<1>2. s \in Streams /\ s \in Resting /\ Settled(s) /\ status[s] # 1 /\ job[s] \in Roots
  BY <1>1 DEF Resting, Settled, Live, RestingApart, BaseInv, TypeOK
<1>3. DeliveredResults'
  BY <1>0, <1>2, GatheredRight
<1>4. Uploaded' /\ Reuses' /\ Kernels'
  BY <1>0, <1>1, <1>2, <1>3, EmptiedRight
<1>5. buffer[s].trace = TraceOf(Waiting(s))
  <2>1. ~Expected(s)
    BY <1>2, NamesAssumption DEF Expected, Live, Owned
  <2>2. job[s] # None
    BY <1>1, <1>2 DEF BaseInv, Places
  <2>3. buffer[s].trace = TraceOf(job[s])
    BY <1>1, <1>2, <2>1, <2>2 DEF Right, Uploaded
  <2> QED BY <1>2, <2>3 DEF TraceOf, Waiting, Roots, Job
<1>6. ResidentTraces'
  BY <1>1, <1>5 DEF Right, ResidentTraces
<1> QED BY <1>3, <1>4, <1>6 DEF Right, DeliveredResults

LEMMA DescribeRight ==
  ASSUME BaseInv, Live, Right, NEW t \in Threads, Describe(t)
  PROVE  Right'
<1>0. PICK s \in Streams : s = at[t]
  BY NamesAssumption DEF Describe, BaseInv, TypeOK
<1>1. /\ s # None /\ mine[t] \in Jobs /\ status[s] = 1
      /\ UNCHANGED <<setup, phase, status, buffer, recorded, running, pinned,
         delivered, mine, at>>
      /\ pc[t] = "describe"
      /\ \A u \in Threads : pc'[u] = IF u = t THEN "launch" ELSE pc[u]
      /\ \A u \in Threads \ {t} : reuse'[u] = reuse[u] /\ at[u] # s
  BY <1>0, NamesAssumption DEF Describe, main, out, BaseInv, TypeOK, Types, Live, Owned
<1>2. /\ \A r \in Streams : job'[r] = IF r = s THEN mine[t] ELSE job[r]
      /\ \A r \in Streams \ {s} : sink'[r] = sink[r]
  BY <1>0 DEF Describe, BaseInv, TypeOK
<1>3. ~Expected(s) /\ Expected(s)' /\ ~Launched(s)'
  BY <1>0, <1>1 DEF Expected, Launched, Published
<1>4. \A r \in Streams \ {s} : Expected(r)' = Expected(r) /\ Launched(r)' = Launched(r)
  <2>1. \A r \in Streams \ {s} : Published(r)' = Published(r)
    BY <1>1, <1>2 DEF Published
  <2> QED BY <1>0, <1>1, <2>1 DEF Expected, Launched
<1>5. Uploaded'
  BY <1>1, <1>2, <1>3, <1>4 DEF Right, Uploaded, Early
<1>6. ResidentTraces'
  BY <1>1 DEF Right, ResidentTraces
<1>7. Reuses'
  <2>1. ASSUME reuse'[t], mine[t].kind # "witness"
        PROVE  ~setup.stored /\ buffer[s].tree = Tree(mine[t])
    <3>1. ~setup.stored /\ job[s] # None /\ Tree(job[s]) = Tree(mine[t])
      BY <1>0, <2>1 DEF Describe, BaseInv, Types
    <3>2. job[s].kind = mine[t].kind
      BY <3>1 DEF Tree
    <3>3. buffer[s].tree = Result(job[s]).tree
      BY <1>3, <3>1 DEF Right, Uploaded
    <3> QED BY <2>1, <3>1, <3>2, <3>3 DEF Result
  <2> QED BY <1>0, <1>1, <2>1 DEF Right, Reuses
<1>8. Kernels'
  BY <1>1, <1>2, <1>3, <1>4 DEF Right, Kernels, Computes
<1> QED BY <1>1, <1>5, <1>6, <1>7, <1>8 DEF Right

LEMMA LaunchRight ==
  ASSUME BaseInv, Live, Right, NEW t \in Threads, Launch(t)
  PROVE  Right'
<1>0. PICK s \in Streams, j \in Jobs : s = at[t] /\ j = mine[t]
  BY NamesAssumption DEF Launch, BaseInv, TypeOK
<1>1. /\ s # None /\ j # None /\ status[s] = 1 /\ job[s] = j
      /\ UNCHANGED <<setup, phase, job, status, sink, pinned, delivered, mine, at, reuse>>
      /\ pc[t] = "launch"
      /\ \A u \in Threads : pc'[u] = IF u = t THEN "publish" ELSE pc[u]
      /\ \A u \in Threads \ {t} : at[u] # s
  BY <1>0, NamesAssumption DEF Launch, main, out, BaseInv, TypeOK, Live, Owned,
     Described, Loaded
<1>2. \A r \in Streams \ {s} : buffer'[r] = buffer[r] /\ recorded'[r] = recorded[r] /\ running'[r] = running[r]
  BY <1>0 DEF Launch, BaseInv, TypeOK
<1>3. recorded'[s] = TRUE /\ running'[s] = j
  BY <1>0 DEF Launch, BaseInv, TypeOK
<1>4. buffer'[s].trace = TraceOf(j) /\ buffer'[s].tree = Result(j).tree
  <2>1. buffer'[s] = [trace |-> IF phase = "resident" THEN buffer[s].trace ELSE TraceOf(j),
                      tree  |-> IF j.kind = "witness" THEN None
                                ELSE IF reuse[t] THEN buffer[s].tree ELSE Tree(j)]
    BY <1>0 DEF Launch, BaseInv, TypeOK
  <2>2. phase = "resident" => buffer[s].trace = TraceOf(j)
    BY <1>0, <1>1 DEF Right, ResidentTraces
  <2>3. reuse[t] /\ j.kind # "witness" => buffer[s].tree = Tree(j)
    BY <1>0, <1>1 DEF Right, Reuses
  <2> QED BY <2>1, <2>2, <2>3 DEF Result
<1>5. \A r \in Streams \ {s} : Expected(r)' = Expected(r) /\ Launched(r)' = Launched(r)
  <2>1. \A r \in Streams \ {s} : Published(r)' = Published(r)
    BY <1>1 DEF Published
  <2> QED BY <1>0, <1>1, <2>1 DEF Expected, Launched
<1>6. Uploaded'
  BY <1>1, <1>2, <1>4, <1>5 DEF Right, Uploaded, Early
<1>7. ResidentTraces' /\ Reuses'
  <2>1. \A u \in Threads : pc'[u] \in {"describe",
          "launch"} => u # t /\ pc[u] = pc'[u] /\ at[u] \in Streams \ {s}
    BY <1>1, NamesAssumption DEF BaseInv, TypeOK
  <2> QED BY <1>1, <1>2, <2>1 DEF Right, ResidentTraces, Reuses
<1>8. Kernels'
  <2>1. Computes(s, j)' = Result(j)
    BY <1>4 DEF Computes, Result
  <2> QED BY <1>1, <1>2, <1>3, <1>5, <2>1 DEF Right, Kernels, Computes
<1> QED BY <1>1, <1>6, <1>7, <1>8 DEF Right

LEMMA PublishRight ==
  ASSUME BaseInv, Live, Right, NEW t \in Threads, Publish(t)
  PROVE  Right'
<1>0. PICK s \in Streams : s = at[t]
  BY NamesAssumption DEF Publish, BaseInv, TypeOK
<1>1. /\ sink[s] # None
      /\ UNCHANGED <<setup, phase, job, sink, buffer, recorded, running, pinned,
         delivered>>
      /\ pc[t] = "publish" /\ pc'[t] = "idle"
      /\ \A u \in Threads \ {t} : pc'[u] = pc[u] /\ at'[u] = at[u] /\ mine'[u] = mine[u] /\ reuse'[u] = reuse[u]
      /\ \A r \in Streams : status'[r] = IF r = s THEN 2 ELSE status[r]
  BY <1>0 DEF Publish, main, out, BaseInv, TypeOK, Types, Live, Described, Loaded
<1>2. \A r \in Streams : Expected(r)' = Expected(r)
  BY <1>1 DEF Expected
<1>3. \A r \in Streams : Launched(r)' => Launched(r)
  BY <1>0, <1>1 DEF Launched, Published
<1>4. Uploaded'
  BY <1>1, <1>2 DEF Right, Uploaded, Early
<1>5. ResidentTraces' /\ Reuses'
  BY <1>1 DEF Right, ResidentTraces, Reuses
<1>6. Kernels'
  BY <1>1, <1>3 DEF Right, Kernels, Computes
<1> QED BY <1>1, <1>4, <1>5, <1>6 DEF Right

LEMMA StartRunRight ==
  ASSUME BaseInv, StartRun
  PROVE  Right'
<1>1. /\ phase' = "commit"
      /\ \A s \in Streams : status'[s] = 0 /\ job'[s] = None
      /\ \A t \in Threads : pc'[t] = "idle"
      /\ \A j \in Jobs : delivered'[j] = <<>>
  BY DEF StartRun, work, BaseInv, Places
<1>2. Uploaded' /\ ResidentTraces' /\ Reuses'
  BY <1>1 DEF Uploaded, ResidentTraces, Reuses
<1>3. Kernels'
  BY <1>1 DEF Kernels, Launched, Published
<1> QED BY <1>1, <1>2, <1>3 DEF Right

LEMMA InitRight == Init => RightInv
<1> SUFFICES ASSUME Init PROVE Right
  BY DEF RightInv
<1>1. /\ phase = "done"
      /\ \A s \in Streams : status[s] = 0 /\ job[s] = None
      /\ \A t \in Threads : pc[t] = "idle"
      /\ \A j \in Jobs : delivered[j] = <<>>
  BY DEF Init
<1>2. Uploaded /\ ResidentTraces /\ Reuses
  BY <1>1 DEF Uploaded, ResidentTraces, Reuses
<1>3. Kernels
  BY <1>1 DEF Kernels, Launched, Published
<1> QED BY <1>1, <1>2, <1>3 DEF Right

LEMMA RightStep ==
  ASSUME LateLoans, TreesApart
  PROVE  BaseInv /\ LiveInv /\ LoanInv /\ RightInv /\ [Next]_vars => RightInv'
<1> SUFFICES ASSUME BaseInv, LiveInv, LoanInv, RightInv, [Next]_vars,
      ~cancelled' PROVE Right'
  BY DEF RightInv
<1>1. CASE StartRun
  BY <1>1, StartRunRight
<1>2. CASE ~StartRun
  <2>0. ~Cancel
    BY DEF Cancel
  <2>1. ~cancelled
    BY <1>2, <2>0 DEF Next, Ask,
       Caller, CallerMovesOn, Borrower, Worker, LockFirst, RaiseFlag, Drain,
       Own, Return,
       JoinContributions, CollectStream, FindResident, JoinResident, WaitZero,
         ClearCallback,
       JoinWorkers, Poll, TakeJob, TakeResident, BeginScan, TryStream, NothingFree,
         Reserve,
       Describe, Launch, Publish, Complete, main, vars
  <2>2. Live /\ Right
    BY <2>1 DEF LiveInv, RightInv
  <2>3. CASE UNCHANGED vars
    BY <2>2, <2>3, RightKept DEF vars, main, cards, work, out, Early
  <2>4. CASE Ask \/ Borrower
    BY <2>2, <2>4, BorrowerRight
  <2>5. CASE Caller
    BY <2>2, <2>5, CallerRight, CollectStreamRight, PollRight DEF Caller, CallerMovesOn
  <2>6. CASE \E t \in Threads : Worker(t)
    BY <2>2, <2>6, SearchRight, ReserveRight, TakeResidentRight, DescribeRight,
       LaunchRight,
       PublishRight DEF Worker
  <2>7. CASE \E s \in Streams : Complete(s)
    BY <2>2, <2>7, CompleteRight
  <2> QED BY <1>2, <2>0, <2>3, <2>4, <2>5, <2>6, <2>7 DEF Next
<1> QED BY <1>1, <1>2

(* A root or proof that is copied out was computed by the job it is copied *)
(* out for, from that instance's trace, which a proof from the resident    *)
(* trace finds in place, and with its AIR's constant tree, a tree that is  *)
(* used again included (get_commit_root, get_proof, gen_proof_gpu).        *)
THEOREM RightDelivered ==
  ASSUME LateLoans, TreesApart
  PROVE  Spec => []DeliveredRight
<1>1. RightInv => DeliveredRight
  BY DEF RightInv, Right, DeliveredRight
<1> QED BY <1>1, BaseAlways, LiveAlways, InitLoan, LoanStep, InitRight, RightStep,
      PTL DEF Spec
=============================================================================
