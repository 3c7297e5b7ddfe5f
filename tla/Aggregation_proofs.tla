------------------------- MODULE Aggregation_proofs -------------------------
(***************************************************************************)
(* For every finite set of instances and every assignment of instances to  *)
(* airgroups: merging by three keeps a partition of the instances and an   *)
(* odd number of proofs, hence stops only at one proof that covers all.    *)
(***************************************************************************)
EXTENDS Aggregation, FiniteSetTheorems, FunctionTheorems, TLAPS

(* The proofs of one airgroup as a merge finds and leaves them.             *)
Sound(P, L) ==
  /\ P \subseteq SUBSET Leaves
  /\ UNION P = L
  /\ \A x, y \in P : x # y => x \cap y = {}
  /\ IsFiniteSet(P)
  /\ Cardinality(P) % 2 = 1

IInv ==
  /\ DOMAIN pieces = Airgroups
  /\ pieces = [a \in Airgroups |-> pieces[a]]
  /\ \A a \in Airgroups : Sound(pieces[a], LeavesOf(a))

(* The number of proofs before padding is the number of instances.          *)
LEMMA SingletonsCount ==
  ASSUME NEW S, IsFiniteSet(S)
  PROVE  /\ IsFiniteSet({{l} : l \in S})
         /\ Cardinality({{l} : l \in S}) = Cardinality(S)
  <1> DEFINE T == {{l} : l \in S}
             f == [l \in S |-> {l}]
  <1>3. f \in [S -> T]
    OBVIOUS
  <1>4. \A l, m \in S : f[l] = f[m] => l = m
    BY Zenon
  <1>5. \A t \in T : \E l \in S : f[l] = t
    BY Zenon
  <1>1. f \in Bijection(S, T)
    BY <1>3, <1>4, <1>5, Fun_IsBij
  <1>2. ExistsBijection(S, T)
    BY <1>1 DEF ExistsBijection
  <1> QED
    BY <1>2, FS_Bijection

(* The initial proofs of an airgroup are sound: has_remaining and the test  *)
(* for an empty airgroup add the null proof exactly where it is needed.     *)
LEMMA InitialSound ==
  ASSUME NEW a \in Airgroups
  PROVE  Sound(InitialPieces(a), LeavesOf(a))
  <1> DEFINE L == LeavesOf(a)
             T == {{l} : l \in L}
             n == Cardinality(L)
  <1>1. L \subseteq Leaves /\ IsFiniteSet(L) /\ n \in Nat
    BY LeavesAssumption, FS_Subset, FS_CardinalityType DEF LeavesOf
  <1>2. IsFiniteSet(T) /\ Cardinality(T) = n
    BY <1>1, SingletonsCount
  <1>3. {} \notin T
    OBVIOUS
  <1>4. CASE HasRemaining(n) \/ n = 0
    <2>1. InitialPieces(a) = T \cup {{}}
      BY <1>4 DEF InitialPieces, Padding
    <2>2. IsFiniteSet(T \cup {{}}) /\ Cardinality(T \cup {{}}) = n + 1
      BY <1>2, <1>3, FS_AddElement
    <2>3. (n + 1) % 2 = 1
      BY <1>1, <1>4 DEF HasRemaining
    <2>4. UNION (T \cup {{}}) = L /\ T \cup {{}} \subseteq SUBSET Leaves
      BY <1>1
    <2>5. \A x, y \in T \cup {{}} : x # y => x \cap y = {}
      OBVIOUS
    <2> QED
      BY <2>1, <2>2, <2>3, <2>4, <2>5 DEF Sound
  <1>5. CASE ~(HasRemaining(n) \/ n = 0)
    <2>1. InitialPieces(a) = T
      BY <1>5 DEF InitialPieces, Padding
    <2>3. n % 2 = 1
      BY <1>1, <1>5 DEF HasRemaining
    <2>4. UNION T = L /\ T \subseteq SUBSET Leaves
      BY <1>1
    <2>5. \A x, y \in T : x # y => x \cap y = {}
      OBVIOUS
    <2> QED
      BY <2>1, <1>2, <2>3, <2>4, <2>5 DEF Sound
  <1> QED
    BY <1>4, <1>5

(* Three proofs out, their union in.                                        *)
LEMMA MergeSound ==
  ASSUME NEW P, NEW L, Sound(P, L),
         NEW x \in P, NEW y \in P, NEW z \in P, x # y, x # z, y # z
  PROVE  Sound((P \ {x, y, z}) \cup {x \cup y \cup z}, L)
  <1> DEFINE R == P \ {x, y, z}
             u == x \cup y \cup z
  <1>1. /\ P \subseteq SUBSET Leaves /\ UNION P = L
        /\ \A v, w \in P : v # w => v \cap w = {}
        /\ IsFiniteSet(P) /\ Cardinality(P) % 2 = 1
    BY DEF Sound
  <1>2. Cardinality(P) \in Nat
    BY <1>1, FS_CardinalityType
  <1>3. IsFiniteSet(P \ {x}) /\ Cardinality(P \ {x}) = Cardinality(P) - 1
    BY <1>1, FS_RemoveElement
  <1>4. y \in P \ {x} /\ z \in (P \ {x}) \ {y}
    OBVIOUS
  <1>5. /\ IsFiniteSet((P \ {x}) \ {y})
        /\ Cardinality((P \ {x}) \ {y}) = Cardinality(P \ {x}) - 1
    BY <1>3, <1>4, FS_RemoveElement
  <1>6. /\ IsFiniteSet(((P \ {x}) \ {y}) \ {z})
        /\ Cardinality(((P \ {x}) \ {y}) \ {z}) = Cardinality((P \ {x}) \ {y}) - 1
    BY <1>5, <1>4, FS_RemoveElement
  <1>7. R = ((P \ {x}) \ {y}) \ {z}
    OBVIOUS
  <1>8. IsFiniteSet(R) /\ Cardinality(R) = Cardinality(P) - 3
    BY <1>2, <1>3, <1>5, <1>6, <1>7
  <1>9. u \notin R
    <2> SUFFICES ASSUME u \in R PROVE FALSE
      OBVIOUS
    <2>1. u \cap x = {} /\ u \cap y = {} /\ u \cap z = {}
      BY <1>1
    <2>2. x = {} /\ y = {}
      BY <2>1
    <2> QED
      BY <2>2
  <1>10. IsFiniteSet(R \cup {u}) /\ Cardinality(R \cup {u}) = Cardinality(P) - 2
    <2> HIDE DEF R, u
    <2>1. IsFiniteSet(R \cup {u}) /\ Cardinality(R \cup {u}) = Cardinality(R) + 1
      BY <1>8, <1>9, FS_AddElement
    <2> QED
      BY <1>2, <1>8, <2>1
  <1>11. (Cardinality(P) - 2) % 2 = 1
    BY <1>1, <1>2
  <1>12. UNION (R \cup {u}) = L
    <2>1. ASSUME NEW l \in L PROVE l \in UNION (R \cup {u})
      <3>1. PICK v \in P : l \in v
        BY <1>1
      <3>2. CASE v \in {x, y, z}
        <4>1. l \in u
          BY <3>1, <3>2
        <4> QED
          BY <4>1, Zenon
      <3>3. CASE v \notin {x, y, z}
        <4>1. v \in R
          BY <3>3
        <4> QED
          BY <3>1, <4>1, Zenon
      <3> QED
        BY <3>2, <3>3
    <2>2. ASSUME NEW v \in R \cup {u}, NEW l \in v PROVE l \in L
      BY <1>1
    <2> QED
      BY <2>1, <2>2
  <1>13. R \cup {u} \subseteq SUBSET Leaves
    BY <1>1
  <1>14. \A v, w \in R \cup {u} : v # w => v \cap w = {}
    <2>1. ASSUME NEW v \in R PROVE v \cap u = {}
      BY <1>1
    <2> QED
      BY <1>1, <2>1
  <1> QED
    BY <1>10, <1>11, <1>12, <1>13, <1>14 DEF Sound

LEMMA InitIInv == Init => IInv
  BY InitialSound DEF Init, IInv

LEMMA NextIInv == IInv /\ [Next]_pieces => IInv'
  <1> SUFFICES ASSUME IInv, [Next]_pieces PROVE IInv'
    OBVIOUS
  <1>1. CASE UNCHANGED pieces
    BY <1>1 DEF IInv, LeavesOf, Sound
  <1>2. ASSUME NEW a \in Airgroups, Merge(a) PROVE IInv'
    <2>1. PICK x, y, z \in pieces[a] :
            /\ x # y /\ x # z /\ y # z
            /\ pieces' = [pieces EXCEPT ![a] = (@ \ {x, y, z}) \cup {x \cup y \cup z}]
      BY <1>2 DEF Merge
    <2>2. Sound((pieces[a] \ {x, y, z}) \cup {x \cup y \cup z}, LeavesOf(a))
      BY <2>1, MergeSound DEF IInv
    <2>3. /\ DOMAIN pieces' = Airgroups
          /\ pieces' = [b \in Airgroups |-> pieces'[b]]
          /\ pieces'[a] = (pieces[a] \ {x, y, z}) \cup {x \cup y \cup z}
          /\ \A b \in Airgroups \ {a} : pieces'[b] = pieces[b]
      BY <2>1 DEF IInv
    <2>4. \A b \in Airgroups : Sound(pieces'[b], LeavesOf(b))
      BY <2>2, <2>3 DEF IInv
    <2> QED
      BY <2>3, <2>4 DEF IInv, LeavesOf, Sound
  <1> QED
    BY <1>1, <1>2 DEF Next

(* TypeOK, Partition and OddCount are read off the invariant.               *)
LEMMA IInvImplies == IInv => TypeOK /\ Partition /\ OddCount /\ StuckIsDone
  <1> SUFFICES ASSUME IInv PROVE TypeOK /\ Partition /\ OddCount /\ StuckIsDone
    OBVIOUS
  <1>1. TypeOK
    BY DEF IInv, Sound, TypeOK
  <1>2. Partition /\ OddCount
    BY DEF IInv, Sound, Partition, OddCount
  <1>3. ASSUME NEW a \in Airgroups, Cardinality(pieces[a]) < NRecursive
        PROVE  pieces[a] = {LeavesOf(a)}
    <2>1. IsFiniteSet(pieces[a]) /\ Cardinality(pieces[a]) \in Nat
      BY FS_CardinalityType DEF IInv, Sound
    <2>2. Cardinality(pieces[a]) = 1
      BY <1>3, <2>1, <1>2 DEF OddCount, NRecursive
    <2>3. PICK x : pieces[a] = {x}
      BY <2>1, <2>2, FS_Singleton
    <2>4. UNION pieces[a] = LeavesOf(a)
      BY DEF IInv, Sound
    <2> QED
      BY <2>3, <2>4
  <1> QED
    BY <1>1, <1>2, <1>3 DEF StuckIsDone

LEMMA Invariance == Spec => []IInv
  BY InitIInv, NextIInv, PTL DEF Spec

(* The proofs of an airgroup always partition its instances: none is lost,  *)
(* none is aggregated twice.                                                *)
THEOREM PartitionInvariant == Spec => [](TypeOK /\ Partition)
  BY Invariance, IInvImplies, PTL

(* Merging by three never leaves two proofs over: an airgroup that cannot   *)
(* merge has its final proof, and it covers every instance.                 *)
THEOREM StuckIsDoneInvariant == Spec => [](OddCount /\ StuckIsDone)
  BY Invariance, IInvImplies, PTL

=============================================================================
