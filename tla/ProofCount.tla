----------------------------- MODULE ProofCount -----------------------------
(***************************************************************************)
(* total_recursive_proofs (proofman/src/recursion.rs): how many recursive2 *)
(* proofs reduce n proofs of an airgroup to one when every recursive2      *)
(* proof merges three, and whether one null proof has to be added first.   *)
(*                                                                         *)
(* The caller waits for exactly n_proofs completions and pushes exactly    *)
(* one null proof when has_remaining is set, so an answer that is off by   *)
(* one is a hang or a proof that is never merged.  The loop is a state     *)
(* machine with one step per iteration.                                    *)
(***************************************************************************)
EXTENDS Naturals

CONSTANT Inputs          \* the values of n the function is called with

ASSUME InputsAssumption == Inputs \subseteq Nat

PerAggregation == 3      \* N_RECURSIVE_PROOFS_PER_AGGREGATION

VARIABLES
  input,                 \* the argument
  n, total, rem,         \* the locals of the function
  hasRemaining,          \* the field of the returned Recursive2Proofs
  returned               \* whether the function has returned

countVars == <<input, n, total, rem, hasRemaining, returned>>

CountInit ==
  /\ input \in Inputs
  /\ n = input
  /\ total = 0
  /\ rem = input % PerAggregation
  /\ hasRemaining = FALSE
  /\ returned = FALSE

(* Mutant of Iterate: a round that merges nothing keeps n.                  *)
IterateStalling ==
  LET next == n \div PerAggregation
      left == n % PerAggregation
  IN  /\ ~returned
      /\ n > 1
      /\ total' = total + next
      /\ rem' = left
      /\ n' = IF next # 0 THEN next + left ELSE n
      /\ UNCHANGED <<input, hasRemaining, returned>>

(* One iteration of `while n > 1`: a round merges the n \div 3 full triples *)
(* and carries the remainder over; two leftovers end the loop.              *)
Iterate ==
  LET next == n \div PerAggregation
      left == n % PerAggregation
  IN  /\ ~returned
      /\ n > 1
      /\ total' = total + next
      /\ rem' = left
      /\ n' = IF next # 0 THEN next + left
              ELSE IF left # 1 THEN next
              ELSE n
      /\ UNCHANGED <<input, hasRemaining, returned>>

(* Mutant of Return: the padded merge is not counted.                       *)
ReturnUncounted ==
  /\ ~returned
  /\ n <= 1
  /\ hasRemaining' = (rem = 2)
  /\ returned' = TRUE
  /\ UNCHANGED <<input, n, total, rem>>

(* Mutant of Return: any remainder asks for padding.                        *)
ReturnPaddingAlways ==
  /\ ~returned
  /\ n <= 1
  /\ hasRemaining' = (rem # 0)
  /\ total' = IF rem = 2 THEN total + 1 ELSE total
  /\ returned' = TRUE
  /\ UNCHANGED <<input, n, rem>>

(* The exit of the loop: a remainder of two takes one more proof, padded.   *)
Return ==
  /\ ~returned
  /\ n <= 1
  /\ hasRemaining' = (rem = 2)
  /\ total' = IF rem = 2 THEN total + 1 ELSE total
  /\ returned' = TRUE
  /\ UNCHANGED <<input, n, rem>>

CountNext == Iterate \/ Return

CountSpec == CountInit /\ [][CountNext]_countVars /\ WF_countVars(CountNext)

-----------------------------------------------------------------------------

CountTypeOK ==
  /\ input \in Inputs
  /\ n \in Nat
  /\ total \in Nat
  /\ rem \in 0 .. PerAggregation - 1
  /\ hasRemaining \in BOOLEAN
  /\ returned \in BOOLEAN

(* One merge replaces three proofs by one.  The returned number of merges,  *)
(* applied to the proofs and the null proof if one is asked for, leaves     *)
(* exactly one proof: 2 * n_proofs + 1 = n + padding.  This is the fact the *)
(* waits on `total_outer_agg_proofs` and on `recursive2_done` rely on.      *)
ReducesToOne ==
  returned /\ input > 0 =>
    2 * total + 1 = input + (IF hasRemaining THEN 1 ELSE 0)

(* A null proof is asked for exactly when the number of proofs is even and  *)
(* positive; for n = 0 nothing is to be done and the caller adds the null   *)
(* proof on its own condition.                                              *)
PaddingIsParity ==
  returned => (hasRemaining <=> (input > 0 /\ input % 2 = 0))

(* The loop ends for every input, also where a round merges nothing.        *)
Terminates == <>returned

=============================================================================
