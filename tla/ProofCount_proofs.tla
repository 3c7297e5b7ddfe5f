-------------------------- MODULE ProofCount_proofs --------------------------
(***************************************************************************)
(* For every input, not only the ones a run enumerates, the loop of        *)
(* total_recursive_proofs returns the number of merges that leaves one     *)
(* proof, and asks for padding exactly on even positive inputs.            *)
(***************************************************************************)
EXTENDS ProofCount, TLAPS

(* What each iteration keeps: the proofs still to merge plus twice the      *)
(* merges counted make up the input.  A loop that ended on two leftovers    *)
(* has n = 0 and rem = 2; it counts those two.                              *)
LoopInv ==
  ~returned =>
    \/ n > 0 /\ input = 2 * total + n /\ (n = 1 => rem # 2)
    \/ n = 0 /\ rem = 2 /\ input = 2 * total + 2
    \/ n = 0 /\ rem = 0 /\ total = 0 /\ input = 0

IInv == CountTypeOK /\ LoopInv /\ ReducesToOne /\ PaddingIsParity

(* Integer division by three and its remainder, as the steps below use them. *)
LEMMA DivMod ==
  ASSUME NEW k \in Nat
  PROVE  /\ k \div 3 \in Nat
         /\ k % 3 \in 0 .. 2
         /\ k = 3 * (k \div 3) + (k % 3)
  OBVIOUS

LEMMA InitIInv == CountInit => IInv
  <1> SUFFICES ASSUME CountInit PROVE IInv
    OBVIOUS
  <1>1. input \in Nat
    BY InputsAssumption DEF CountInit
  <1>5. rem \in 0 .. 2
    BY <1>1, DivMod DEF CountInit, PerAggregation
  <1>2. CountTypeOK
    <2>1. hasRemaining \in BOOLEAN /\ returned \in BOOLEAN
      BY DEF CountInit
    <2>3. rem \in 0 .. PerAggregation - 1
      BY <1>5 DEF PerAggregation
    <2>2. input \in Inputs /\ n \in Nat /\ total \in Nat
      BY <1>1 DEF CountInit
    <2> QED
      BY <2>1, <2>2, <2>3, Zenon DEF CountTypeOK
  <1>3. LoopInv
    BY <1>1 DEF CountInit, LoopInv, PerAggregation
  <1>4. ReducesToOne /\ PaddingIsParity
    BY DEF CountInit, ReducesToOne, PaddingIsParity
  <1> QED
    BY <1>2, <1>3, <1>4 DEF IInv

LEMMA IterateIInv ==
  ASSUME IInv, Iterate
  PROVE  IInv'
  <1> DEFINE next == n \div 3
             left == n % 3
  <1>1. n \in Nat /\ n > 1 /\ total \in Nat /\ input \in Nat /\ ~returned
    BY InputsAssumption DEF IInv, CountTypeOK, Iterate
  <1>2. next \in Nat /\ left \in 0 .. 2 /\ n = 3 * next + left
    BY <1>1, DivMod
  <1>3. /\ total' = total + next
        /\ rem' = left
        /\ n' = IF next # 0 THEN next + left ELSE IF left # 1 THEN next ELSE n
        /\ input' = input /\ returned' = returned /\ hasRemaining' = hasRemaining
    BY DEF Iterate, PerAggregation
  <1> HIDE DEF next, left
  <1>4. input = 2 * total + n
    BY <1>1 DEF IInv, LoopInv
  <1>5. CountTypeOK'
    BY <1>1, <1>2, <1>3 DEF IInv, CountTypeOK, PerAggregation
  <1>6. LoopInv'
    <2>1. CASE next # 0
      BY <2>1, <1>1, <1>2, <1>3, <1>4 DEF LoopInv
    <2>2. CASE next = 0
      <3>1. left = 2 /\ n = 2
        BY <2>2, <1>1, <1>2
      <3> QED
        BY <3>1, <2>2, <1>1, <1>2, <1>3, <1>4 DEF LoopInv
    <2> QED
      BY <2>1, <2>2
  <1>7. ReducesToOne' /\ PaddingIsParity'
    BY <1>1, <1>3 DEF ReducesToOne, PaddingIsParity
  <1> QED
    BY <1>5, <1>6, <1>7 DEF IInv

LEMMA ReturnIInv ==
  ASSUME IInv, Return
  PROVE  IInv'
  <1>1. /\ n \in {0, 1} /\ total \in Nat /\ input \in Nat
        /\ rem \in 0 .. 2 /\ ~returned
    BY InputsAssumption DEF IInv, CountTypeOK, Return, PerAggregation
  <1>2. /\ hasRemaining' = (rem = 2)
        /\ total' = IF rem = 2 THEN total + 1 ELSE total
        /\ returned' = TRUE
        /\ input' = input /\ n' = n /\ rem' = rem
    BY DEF Return
  <1>3. CountTypeOK'
    BY <1>1, <1>2 DEF IInv, CountTypeOK, PerAggregation
  <1>4. LoopInv'
    BY <1>2 DEF LoopInv
  <1>5. CASE rem = 2
    <2>5. hasRemaining' = TRUE /\ total' = total + 1
      BY <1>2, <1>5
    <2>1. input = 2 * total + 2 /\ n = 0
      BY <1>1, <1>5 DEF IInv, LoopInv
    <2>2. ReducesToOne'
      BY <2>1, <2>5, <1>1, <1>2 DEF ReducesToOne
    <2>3. input % 2 = 0
      BY <2>1, <1>1
    <2>4. PaddingIsParity'
      BY <2>1, <2>3, <2>5, <1>1, <1>2 DEF PaddingIsParity
    <2> QED
      BY <1>3, <1>4, <2>2, <2>4 DEF IInv
  <1>6. CASE rem # 2
    <2>5. hasRemaining' = FALSE /\ total' = total
      BY <1>2, <1>6
    <2>1. \/ input = 2 * total + 1
          \/ input = 0
      BY <1>1, <1>6 DEF IInv, LoopInv
    <2>2. ReducesToOne'
      BY <2>1, <2>5, <1>1, <1>2 DEF ReducesToOne
    <2>3. ~(input > 0 /\ input % 2 = 0)
      BY <2>1, <1>1
    <2>4. PaddingIsParity'
      BY <2>3, <2>5, <1>1, <1>2 DEF PaddingIsParity
    <2> QED
      BY <1>3, <1>4, <2>2, <2>4 DEF IInv
  <1> QED
    BY <1>5, <1>6

LEMMA Invariance == CountSpec => []IInv
  <1>1. IInv /\ [CountNext]_countVars => IInv'
    <2>1. ASSUME IInv, UNCHANGED countVars PROVE IInv'
      BY <2>1 DEF IInv, CountTypeOK, LoopInv, ReducesToOne, PaddingIsParity, countVars
    <2> QED
      BY <2>1, IterateIInv, ReturnIInv DEF CountNext
  <1> QED
    BY InitIInv, <1>1, PTL DEF CountSpec

(* total_recursive_proofs is correct for every n: the merges it announces   *)
(* reduce the n proofs and the padding to exactly one proof.                *)
THEOREM ProofCountCorrect == CountSpec => []ReducesToOne
  <1>1. IInv => ReducesToOne
    BY DEF IInv
  <1> QED
    BY <1>1, Invariance, PTL

(* It asks for a null proof exactly when n is even and positive, for        *)
(* merging by three keeps the parity.                                       *)
THEOREM PaddingInvariant == CountSpec => []PaddingIsParity
  <1>1. IInv => PaddingIsParity
    BY DEF IInv
  <1> QED
    BY <1>1, Invariance, PTL

=============================================================================
