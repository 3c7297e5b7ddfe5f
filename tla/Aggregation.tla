----------------------------- MODULE Aggregation -----------------------------
(***************************************************************************)
(* What the recursion of an airgroup promises, whatever the threads,       *)
(* channels and buffers that carry it out: the proofs of the instances of  *)
(* an airgroup are merged three at a time, in any order, into one proof    *)
(* that covers every instance of the airgroup exactly once.                *)
(*                                                                         *)
(* A recursive proof is the set of the instances it covers.  The null      *)
(* proof, which _generate_proof adds so that merging by three can end on   *)
(* one proof, covers none: it is the empty set.                            *)
(***************************************************************************)
EXTENDS Naturals, FiniteSets

CONSTANTS
  Airgroups,
  Leaves,              \* the instances of this process
  AirgroupOf           \* the airgroup of an instance

ASSUME LeavesAssumption ==
  /\ IsFiniteSet(Leaves)
  /\ AirgroupOf \in [Leaves -> Airgroups]

NRecursive == 3        \* N_RECURSIVE_PROOFS_PER_AGGREGATION

VARIABLE pieces        \* the recursive proofs of each airgroup not merged yet

LeavesOf(a) == {l \in Leaves : AirgroupOf[l] = a}

(* Mutant of HasRemaining: odd counts are padded.                           *)
HasRemainingIfOdd(n) == n % 2 = 1

(* has_remaining of total_recursive_proofs in closed form.                  *)
HasRemaining(n) == n > 0 /\ n % 2 = 0

(* Mutant of Padding: an airgroup without instances gets no proof at all.   *)
PaddingIfRemaining(a) ==
  IF HasRemaining(Cardinality(LeavesOf(a))) THEN {{}} ELSE {}

(* The null proof an airgroup starts with, if it needs one.                 *)
Padding(a) ==
  LET n == Cardinality(LeavesOf(a))
  IN  IF HasRemaining(n) \/ n = 0 THEN {{}} ELSE {}

InitialPieces(a) == {{l} : l \in LeavesOf(a)} \cup Padding(a)

Init == pieces = [a \in Airgroups |-> InitialPieces(a)]

(* Mutant of Merge: the third proof stays in the pool.                      *)
MergeKeepingThird(a) ==
  \E x, y, z \in pieces[a] :
    /\ x # y /\ x # z /\ y # z
    /\ pieces' = [pieces EXCEPT ![a] = (@ \ {x, y}) \cup {x \cup y \cup z}]

(* One recursive2 proof of an airgroup replaces three proofs of it.         *)
Merge(a) ==
  \E x, y, z \in pieces[a] :
    /\ x # y /\ x # z /\ y # z
    /\ pieces' = [pieces EXCEPT ![a] = (@ \ {x, y, z}) \cup {x \cup y \cup z}]

Next == \E a \in Airgroups : Merge(a)

Spec == Init /\ [][Next]_pieces

FairSpec == Spec /\ WF_pieces(Next)

-----------------------------------------------------------------------------

TypeOK == pieces \in [Airgroups -> SUBSET SUBSET Leaves]

(* No instance is lost and none is aggregated twice: at every moment the    *)
(* proofs of an airgroup partition its instances.                           *)
Partition ==
  \A a \in Airgroups :
    /\ UNION pieces[a] = LeavesOf(a)
    /\ \A x, y \in pieces[a] : x # y => x \cap y = {}

(* The padding makes the number of proofs odd and a merge keeps it odd, so  *)
(* two proofs can never be left over waiting for a third.                   *)
OddCount == \A a \in Airgroups : Cardinality(pieces[a]) % 2 = 1

(* An airgroup that cannot merge any more is down to one proof, and that    *)
(* proof covers all its instances.                                          *)
StuckIsDone ==
  \A a \in Airgroups :
    Cardinality(pieces[a]) < NRecursive => pieces[a] = {LeavesOf(a)}

(* Every airgroup comes down to its one proof.                              *)
AllMerged == <>(\A a \in Airgroups : pieces[a] = {LeavesOf(a)})

=============================================================================
