-------------------------- MODULE GoldilocksField --------------------------
(***************************************************************************)
(* The field of the proofs, at a size TLC can compute with: a prime P with *)
(* roots of unity of the powers of two, and its extension by a root of     *)
(* x^3 - x - 1.  An element is its canonical representative; the words of  *)
(* the machine are the subject of GoldilocksWords.  The loops of the       *)
(* source are recursive functions here, so that Goldilocks_proofs can      *)
(* reason about them.                                                      *)
(***************************************************************************)
EXTENDS Naturals, Sequences

CONSTANTS P, Shift

ASSUME FieldAssumption == P \in Nat /\ Shift \in 1 .. P - 1

FAdd(x, y) == (x + y) % P
FSub(x, y) == (x + P - y) % P
FMul(x, y) == (x * y) % P

FExp(base, e) ==
  LET pow[b \in Nat, k \in Nat] ==
        IF k = 0 THEN 1
                 ELSE FMul(IF k % 2 = 1 THEN b ELSE 1, pow[FMul(b, b), k \div 2])
  IN pow[base, e]

(* The extended Euclidean algorithm of Goldilocks::inv, which throws on 0:  *)
(* its locals, one round of its loop, and what it returns from there.       *)
Locals == [t : Nat, r : Nat, newt : Nat, newr : Nat]

Round(s) ==
  LET q == s.r \div s.newr
  IN [t    |-> s.newt, r |-> s.newr,
      newt |-> FSub(s.t, FMul(q, s.newt)),
      newr |-> FSub(s.r % P, FMul(q, s.newr))]

Euclid[s \in Locals] == IF s.newr = 0 THEN s.t ELSE Euclid[Round(s)]

FInv(x) == Euclid[[t |-> 0, r |-> P, newt |-> 1, newr |-> x]]

(* W[i], a root of unity of order 2^i, and the square of W[i + 1].         *)
W(i) == FExp(Shift, (P - 1) \div 2 ^ i)

-----------------------------------------------------------------------------
(* Goldilocks3: a + bx + cx^2.                                             *)
Add3(a, b) == [i \in 1 .. 3 |-> FAdd(a[i], b[i])]

Mul3(a, b) ==
  LET A == FMul(FAdd(a[1], a[2]), FAdd(b[1], b[2]))
      B == FMul(FAdd(a[1], a[3]), FAdd(b[1], b[3]))
      C == FMul(FAdd(a[2], a[3]), FAdd(b[2], b[3]))
      D == FMul(a[1], b[1])
      E == FMul(a[2], b[2])
      F == FMul(a[3], b[3])
      G == FSub(D, E)
  IN <<FSub(FAdd(C, G), F), FSub(FSub(FSub(FAdd(A, C), E), E), D), FSub(B, G)>>

FSum(s) == LET f[i \in 0 .. Len(s)] == IF i = 0 THEN 0 ELSE FAdd(f[i - 1], s[i]) IN f[Len(s)]

One3 == <<1, 0, 0>>

(* Multiplication modulo x^3 = x + 1, the definition Mul3 is compared with. *)
Product3(a, b) ==
  <<(a[1] * b[1] + a[2] * b[3] + a[3] * b[2]) % P,
    (a[1] * b[2] + a[2] * b[1] + a[2] * b[3] + a[3] * b[2] + a[3] * b[3]) % P,
    (a[1] * b[3] + a[2] * b[2] + a[3] * b[1] + a[3] * b[3]) % P>>

FAdd3(x, y, z) == FAdd(FAdd(x, y), z)
FMul3(x, y, z) == FMul(FMul(x, y), z)

(* t of Goldilocks3::inv, the norm of a + bx + cx^2 up to its sign.         *)
Norm(a, b, c) ==
  FSub(FAdd3(FAdd3(FMul3(a, b, c), FMul3(a, b, c), FMul3(a, b, c)),
             FMul3(a, b, b), FMul3(b, c, c)),
       FAdd(FAdd3(FMul3(a, a, a), FMul3(a, a, c), FMul3(a, a, c)),
            FAdd3(FMul3(a, c, c), FMul3(b, b, b), FMul3(c, c, c))))

(* The product of the two conjugates of e, over the norm.                   *)
Inv3(e) ==
  LET a == e[1]   b == e[2]   c == e[3]
      tinv == FInv(Norm(a, b, c))
      i1 == FSub(FAdd(FMul(b, c), FMul(b, b)),
                 FAdd(FAdd3(FMul(a, a), FMul(a, c), FMul(a, c)), FMul(c, c)))
      i2 == FSub(FMul(b, a), FMul(c, c))
      i3 == FSub(FAdd(FMul(a, c), FMul(c, c)), FMul(b, b))
  IN <<FMul(i1, tinv), FMul(i2, tinv), FMul(i3, tinv)>>

(* batchInverse: one inversion for the product, then two multiplications   *)
(* for each element from the last to the first.                            *)
BatchInverse(src) ==
  LET n == Len(src)
      tmp[i \in 1 .. n] == IF i = 1 THEN src[1] ELSE Mul3(tmp[i - 1], src[i])
      z[i \in 1 .. n] == IF i = n THEN Inv3(tmp[n]) ELSE Mul3(z[i + 1], src[i + 1])
  IN [i \in 1 .. n |-> IF i = 1 THEN z[1] ELSE Mul3(z[i], tmp[i - 1])]
=============================================================================
