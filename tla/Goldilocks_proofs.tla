-------------------------- MODULE Goldilocks_proofs --------------------------
(***************************************************************************)
(* For half words of any size: the word operations compute in the field of *)
(* Half^2 - Half + 1 elements, whatever representatives they get.  With    *)
(* Half = 2^32 this is the arithmetic of the source itself.                *)
(*                                                                         *)
(* For every prime P: the inversion of an element is right, and when       *)
(* x^3 - x - 1 has no root, the multiplication, the inversion and the      *)
(* batch inversion of the cubic extension are right as well, for batches   *)
(* of any size.                                                            *)
(***************************************************************************)
EXTENDS GoldilocksWords, GoldilocksField, WellFoundedInduction, TLAPS


(* The facts about the sizes that the linear arguments below need.         *)
LEMMA Sizes ==
  /\ Word \in Nat /\ CQ \in Nat /\ Prime \in Nat
  /\ Word = Prime + CQ /\ CQ >= 1 /\ CQ < Prime
  <1>1. Half * Half >= 2 * Half /\ Half * Half \in Nat
    BY WordsAssumption
  <1> QED
    BY <1>1, WordsAssumption DEF Word, CQ, Prime

(* Quotient and remainder.                                                 *)
LEMMA Remainder ==
  ASSUME NEW k \in Int, NEW r \in Int, NEW p \in Nat, 0 <= r, r < p
  PROVE  ((k * p) + r) % p = r
  OBVIOUS

LEMMA Division ==
  ASSUME NEW a \in Int, NEW p \in Nat, p > 0
  PROVE  /\ a \div p \in Int /\ a % p \in Int /\ 0 <= a % p /\ a % p < p
         /\ a = ((a \div p) * p) + (a % p)
  OBVIOUS

(* A word stands for a number when it differs by a multiple of the prime.  *)
Apart(r, v, k) == v \in Int /\ k \in Int /\ r - v = k * Prime

LEMMA Multiple ==
  ASSUME NEW r \in Representatives, NEW v, NEW k, Apart(r, v, k)
  PROVE  Represents(r, v)
  <1>1. ((k * Prime) + 0) % Prime = 0
    BY Sizes, Remainder DEF Apart
  <1> QED
    BY <1>1, Sizes DEF Represents, Representatives, Apart

(* What a register keeps.                                                  *)
LEMMA PlusIs ==
  ASSUME NEW x \in Representatives, NEW y \in Representatives
  PROVE  /\ Carry(x, y) => Plus(x, y) = x + y - Word
         /\ ~Carry(x, y) => Plus(x, y) = x + y
         /\ Plus(x, y) \in Representatives
         /\ Carry(x, y) \in BOOLEAN
  <1> USE Sizes DEF Representatives
  <1>1. CASE Carry(x, y)
    <2>1. x + y - Word \in Int /\ 0 <= x + y - Word /\ x + y - Word < Word
      BY <1>1 DEF Carry
    <2>2. ((1 * Word) + (x + y - Word)) % Word = x + y - Word
      BY <2>1, Remainder
    <2> QED
      BY <1>1, <2>1, <2>2 DEF Plus, Carry
  <1>2. CASE ~Carry(x, y)
    <2>1. x + y \in Int /\ 0 <= x + y /\ x + y < Word
      BY <1>2 DEF Carry
    <2>2. ((0 * Word) + (x + y)) % Word = x + y
      BY <2>1, Remainder
    <2> QED
      BY <1>2, <2>1, <2>2 DEF Plus, Carry
  <1> QED
    BY <1>1, <1>2 DEF Carry

LEMMA MinusIs ==
  ASSUME NEW x \in Representatives, NEW y \in Representatives
  PROVE  /\ y > x => Minus(x, y) = x + Word - y
         /\ ~(y > x) => Minus(x, y) = x - y
         /\ Minus(x, y) \in Representatives
  <1> USE Sizes DEF Representatives
  <1>1. CASE y > x
    <2>1. x + Word - y \in Int /\ 0 <= x + Word - y /\ x + Word - y < Word
      BY <1>1
    <2>2. ((0 * Word) + (x + Word - y)) % Word = x + Word - y
      BY <2>1, Remainder
    <2> QED
      BY <1>1, <2>1, <2>2 DEF Minus
  <1>2. CASE ~(y > x)
    <2>1. x - y \in Int /\ 0 <= x - y /\ x - y < Word
      BY <1>2
    <2>2. ((1 * Word) + (x - y)) % Word = x - y
      BY <2>1, Remainder
    <2> QED
      BY <1>2, <2>1, <2>2 DEF Minus
  <1> QED
    BY <1>1, <1>2

-----------------------------------------------------------------------------
LEMMA AddAsmRight ==
  ASSUME NEW x \in Representatives, NEW y \in Representatives
  PROVE  Represents(AddAsm(x, y), x + y)
  <1> DEFINE once == Plus(x, y)
             cor == IF Carry(x, y) THEN CQ ELSE 0
             twice == Plus(once, cor)
             r == IF Carry(once, cor) THEN Plus(twice, CQ) ELSE twice
  <1>1. r = AddAsm(x, y)
    BY DEF AddAsm
  <1>2. x \in Int /\ y \in Int /\ 0 <= x /\ x < Word /\ 0 <= y /\ y < Word
    BY Sizes DEF Representatives
  <1>3. once \in Representatives /\ CQ \in Representatives /\ 0 \in Representatives
    BY PlusIs, Sizes DEF Representatives
  <1>4. CASE ~Carry(x, y)
    <2>1. once = x + y /\ cor = 0 /\ ~Carry(once, cor)
      BY <1>2, <1>4, PlusIs, Sizes DEF Carry
    <2>2. twice = x + y
      BY <1>2, <1>3, <2>1, PlusIs
    <2>3. r \in Representatives /\ Apart(r, x + y, 0)
      BY <1>2, <1>3, <2>1, <2>2, Sizes DEF Apart
    <2> QED
      BY <1>1, <1>2, <2>3, Multiple
  <1>5. CASE Carry(x, y) /\ ~Carry(once, cor)
    <2>1. once = x + y - Word /\ cor = CQ
      BY <1>5, PlusIs
    <2>2. twice = x + y - Word + CQ /\ twice \in Representatives
      BY <1>2, <1>3, <1>5, <2>1, PlusIs, Sizes
    <2>3. r \in Representatives /\ Apart(r, x + y, -1)
      BY <1>2, <1>5, <2>2, Sizes DEF Apart
    <2> QED
      BY <1>1, <1>2, <2>3, Multiple
  <1>6. CASE Carry(x, y) /\ Carry(once, cor)
    <2>1. once = x + y - Word /\ cor = CQ
      BY <1>6, PlusIs
    <2>2. twice = x + y - Word + CQ - Word /\ twice \in Representatives
      BY <1>2, <1>3, <1>6, <2>1, PlusIs, Sizes
    <2>3. twice < CQ /\ ~Carry(twice, CQ)
      BY <1>2, <2>1, <2>2, Sizes DEF Carry, Representatives
    <2>4. Plus(twice, CQ) = twice + CQ /\ Plus(twice, CQ) \in Representatives
      BY <1>3, <2>2, <2>3, PlusIs
    <2>5. r \in Representatives /\ Apart(r, x + y, -2)
      BY <1>2, <1>6, <2>2, <2>4, Sizes DEF Apart
    <2> QED
      BY <1>1, <1>2, <2>5, Multiple
  <1> QED
    BY <1>4, <1>5, <1>6

LEMMA ReduceIs ==
  ASSUME NEW x \in Representatives
  PROVE  /\ Reduce(x) \in Representatives /\ Reduce(x) \in Int
         /\ 0 <= Reduce(x) /\ Reduce(x) < Prime
         /\ \E k \in Int : x - Reduce(x) = k * Prime
  <1>1. x \in Int /\ 0 <= x /\ x < Word
    BY Sizes DEF Representatives
  <1>2. CASE x >= Prime
    <2>1. Reduce(x) = x - Prime /\ x - Reduce(x) = 1 * Prime
      BY <1>1, <1>2, Sizes DEF Reduce
    <2> QED
      BY <1>1, <1>2, <2>1, Sizes DEF Representatives
  <1>3. CASE ~(x >= Prime)
    <2>1. Reduce(x) = x /\ x - Reduce(x) = 0 * Prime
      BY <1>1, <1>3, Sizes DEF Reduce
    <2> QED
      BY <1>1, <1>3, <2>1, Sizes DEF Representatives
  <1> QED
    BY <1>2, <1>3

LEMMA AddPlainRight ==
  ASSUME NEW x \in Representatives, NEW y \in Representatives
  PROVE  Represents(AddPlain(x, y), x + y)
  <1> DEFINE a == Reduce(x)
             s == Plus(a, y)
             r == IF a > s THEN Minus(s, Prime) ELSE s
  <1>1. r = AddPlain(x, y)
    BY DEF AddPlain
  <1>2. a \in Representatives /\ a \in Int /\ 0 <= a /\ a < Prime
    BY ReduceIs
  <1>3. PICK k \in Int : x - a = k * Prime
    BY ReduceIs
  <1>4. x \in Int /\ y \in Int /\ 0 <= y /\ y < Word /\ Prime \in Representatives
    BY Sizes DEF Representatives
  <1>5. \A j \in Int : j * Prime \in Int /\ (0 - k) * Prime = 0 - k * Prime
          /\ (0 - 1 - k) * Prime = 0 - Prime - k * Prime
    BY <1>3, Sizes
  <1> HIDE DEF a
  <1>6. CASE Carry(a, y)
    <2>1. s = a + y - Word /\ s \in Representatives
      BY <1>2, <1>6, PlusIs
    <2>2. a > s /\ Prime > s
      BY <1>2, <1>4, <2>1, Sizes
    <2>3. r = s + Word - Prime /\ r \in Representatives
      BY <1>4, <2>1, <2>2, MinusIs
    <2>4. Apart(r, x + y, 0 - 1 - k)
      BY <1>2, <1>3, <1>4, <1>5, <2>1, <2>3, Sizes DEF Apart
    <2> QED
      BY <1>1, <1>3, <1>4, <2>3, <2>4, Multiple
  <1>7. CASE ~Carry(a, y)
    <2>1. s = a + y /\ s \in Representatives
      BY <1>2, <1>7, PlusIs
    <2>2. r = s
      BY <1>2, <1>4, <2>1
    <2>3. Apart(r, x + y, 0 - k)
      BY <1>2, <1>3, <1>4, <1>5, <2>1, <2>2, Sizes DEF Apart
    <2> QED
      BY <1>1, <1>3, <1>4, <2>1, <2>2, <2>3, Multiple
  <1> QED
    BY <1>2, <1>4, <1>6, <1>7, PlusIs

LEMMA SubAsmRight ==
  ASSUME NEW x \in Representatives, NEW y \in Representatives
  PROVE  Represents(SubAsm(x, y), x - y)
  <1> DEFINE once == Minus(x, y)
             cor == IF y > x THEN CQ ELSE 0
             twice == Minus(once, cor)
             r == IF cor > once THEN Minus(twice, CQ) ELSE twice
  <1>1. r = SubAsm(x, y)
    BY DEF SubAsm
  <1>2. x \in Int /\ y \in Int /\ 0 <= x /\ x < Word /\ 0 <= y /\ y < Word
    BY Sizes DEF Representatives
  <1>3. /\ once \in Representatives /\ CQ \in Representatives /\ 0 \in Representatives
        /\ once \in Int /\ 0 <= once
    BY MinusIs, Sizes DEF Representatives
  <1>4. CASE ~(y > x)
    <2>1. once = x - y /\ cor = 0 /\ ~(cor > once)
      BY <1>2, <1>3, <1>4, MinusIs
    <2>2. twice = x - y /\ twice \in Representatives
      BY <1>2, <1>3, <2>1, MinusIs
    <2>3. r \in Representatives /\ Apart(r, x - y, 0)
      BY <1>2, <2>1, <2>2, Sizes DEF Apart
    <2> QED
      BY <1>1, <1>2, <2>3, Multiple
  <1>5. CASE y > x /\ ~(cor > once)
    <2>1. once = x + Word - y /\ cor = CQ
      BY <1>5, MinusIs
    <2>2. twice = x + Word - y - CQ /\ twice \in Representatives
      BY <1>2, <1>3, <1>5, <2>1, MinusIs, Sizes
    <2>3. r \in Representatives /\ Apart(r, x - y, 1)
      BY <1>2, <1>5, <2>2, Sizes DEF Apart
    <2> QED
      BY <1>1, <1>2, <2>3, Multiple
  <1>6. CASE y > x /\ cor > once
    <2>1. once = x + Word - y /\ cor = CQ
      BY <1>6, MinusIs
    <2>2. twice = x + Word - y + Word - CQ /\ twice \in Representatives
      BY <1>2, <1>3, <1>6, <2>1, MinusIs, Sizes
    <2>3. ~(CQ > twice)
      BY <1>2, <1>3, <2>1, <2>2, Sizes
    <2>4. Minus(twice, CQ) = twice - CQ /\ Minus(twice, CQ) \in Representatives
      BY <1>3, <2>2, <2>3, MinusIs
    <2>5. r \in Representatives /\ Apart(r, x - y, 2)
      BY <1>2, <1>6, <2>2, <2>4, Sizes DEF Apart
    <2> QED
      BY <1>1, <1>2, <2>5, Multiple
  <1> QED
    BY <1>4, <1>5, <1>6

LEMMA SubPlainRight ==
  ASSUME NEW x \in Representatives, NEW y \in Representatives
  PROVE  Represents(SubPlain(x, y), x - y)
  <1> DEFINE b == Reduce(y)
  <1>1. b \in Int /\ 0 <= b /\ b < Prime
    BY ReduceIs
  <1>2. PICK k \in Int : y - b = k * Prime
    BY ReduceIs
  <1>3. x \in Int /\ y \in Int /\ 0 <= x /\ x < Word
    BY Sizes DEF Representatives
  <1>4. SubPlain(x, y) = IF b <= x THEN x - b ELSE Prime - (b - x)
    BY DEF SubPlain
  <1>5. k * Prime \in Int /\ (k + 1) * Prime = k * Prime + Prime
    BY <1>2, Sizes
  <1> HIDE DEF b
  <1>6. SubPlain(x, y) \in Representatives
    BY <1>1, <1>3, <1>4, Sizes DEF Representatives
  <1>7. CASE b <= x
    <2>1. Apart(SubPlain(x, y), x - y, k)
      BY <1>1, <1>2, <1>3, <1>4, <1>5, <1>7 DEF Apart
    <2> QED
      BY <1>3, <1>6, <2>1, Multiple
  <1>8. CASE ~(b <= x)
    <2>1. Apart(SubPlain(x, y), x - y, k + 1)
      BY <1>1, <1>2, <1>3, <1>4, <1>5, <1>8, Sizes DEF Apart
    <2> QED
      BY <1>3, <1>6, <2>1, Multiple
  <1> QED
    BY <1>7, <1>8

LEMMA IncRight ==
  ASSUME NEW x \in Representatives
  PROVE  Represents(Inc(x), x + 1)
  <1>1. x \in Int /\ 0 <= x /\ x < Word
    BY Sizes DEF Representatives
  <1>2. CASE x < Prime - 2
    <2>1. Inc(x) = x + 1 /\ Inc(x) \in Representatives /\ Apart(Inc(x), x + 1, 0)
      BY <1>1, <1>2, Sizes DEF Inc, Representatives, Apart
    <2> QED
      BY <1>1, <2>1, Multiple
  <1>3. CASE x = Prime - 1
    <2>1. Inc(x) = 0 /\ Inc(x) \in Representatives /\ Apart(Inc(x), x + 1, -1)
      BY <1>1, <1>3, Sizes DEF Inc, Representatives, Apart
    <2> QED
      BY <1>1, <2>1, Multiple
  <1>4. CASE ~(x < Prime - 2) /\ x # Prime - 1
    <2>1. Inc(x) = AddAsm(x, 1) /\ 1 \in Representatives
      BY <1>4, Sizes DEF Inc, Representatives
    <2> QED
      BY <2>1, AddAsmRight
  <1> QED
    BY <1>2, <1>3, <1>4

LEMMA DecRight ==
  ASSUME NEW x \in Representatives
  PROVE  Represents(Dec(x), x - 1)
  <1>1. x \in Int /\ 0 <= x /\ x < Word
    BY Sizes DEF Representatives
  <1>2. CASE x > 0
    <2>1. Dec(x) \in Representatives /\ Apart(Dec(x), x - 1, 0)
      BY <1>1, <1>2, Sizes DEF Dec, Representatives, Apart
    <2> QED
      BY <1>1, <2>1, Multiple
  <1>3. CASE x = 0
    <2>1. Dec(x) \in Representatives /\ Apart(Dec(x), x - 1, 1)
      BY <1>1, <1>3, Sizes DEF Dec, Representatives, Apart
    <2> QED
      BY <1>1, <2>1, Multiple
  <1> QED
    BY <1>1, <1>2, <1>3

-----------------------------------------------------------------------------
(* Half^3 = -1 in the field, as Half^2 = Half - 1 by Sizes.                *)
LEMMA Powers == Word * Half = (Half + 1) * Prime - 1
  <1>1. /\ (Half + 1) * (Half * Half - (Half - 1)) = Half * (Half * Half) + 1
        /\ Half * Half \in Nat /\ (Half * Half) * Half = Half * (Half * Half)
    BY WordsAssumption
  <1> QED
    BY <1>1, WordsAssumption DEF Word, CQ, Prime

(* The quotient of a number below a product.                               *)
LEMMA QuotientBound ==
  ASSUME NEW d \in Int, NEW p \in Nat, NEW r \in Int, 0 <= r, r < p, NEW q \in Nat,
         0 <= (d * p) + r, (d * p) + r < p * q
  PROVE  0 <= d /\ d < q
  <1>1. ASSUME d < 0 PROVE FALSE
    <2>1. d * p <= 0 - p
      BY <1>1
    <2> QED
      BY <2>1
  <1>2. ASSUME d >= q PROVE FALSE
    <2>1. d * p >= p * q
      BY <1>2
    <2> QED
      BY <2>1
  <1> QED
    BY <1>1, <1>2

(* Dividing by a product is dividing twice.                                *)
LEMMA DivisionTwice ==
  ASSUME NEW a \in Nat, NEW p \in Nat, p > 0, NEW q \in Nat, q > 0
  PROVE  a \div (p * q) = (a \div p) \div q
  <1> DEFINE d == a \div p
             e == d \div q
             m == d % q
             n == a % p
  <1>1. /\ d \in Int /\ n \in Int /\ 0 <= n /\ n < p /\ a = (d * p) + n
        /\ e \in Int /\ m \in Int /\ 0 <= m /\ m < q /\ d = (e * q) + m
    BY Division
  <1> HIDE DEF d, e, m, n
  <1>2. a = (e * (p * q)) + (m * p + n)
    BY <1>1
  <1>3. 0 <= m * p /\ m * p <= (q - 1) * p /\ m * p \in Int
    BY <1>1
  <1>4. p * q \in Nat /\ p * q > 0 /\ (q - 1) * p = p * q - p
    OBVIOUS
  <1>5. m * p + n \in Int /\ 0 <= m * p + n /\ m * p + n < p * q
    BY <1>1, <1>3, <1>4
  <1>6. ((e * (p * q)) + (m * p + n)) \div (p * q) = e
    <2>1. ASSUME NEW k \in Int, NEW r \in Int, NEW b \in Nat, 0 <= r, r < b
          PROVE  ((k * b) + r) \div b = k
      BY <2>1
    <2> QED
      BY <1>1, <1>4, <1>5, <2>1
  <1> QED
    BY <1>2, <1>6 DEF d, e

(* A word stands for every number of its class.                            *)
LEMMA SameClass ==
  ASSUME NEW r, NEW v \in Int, NEW w, Represents(r, v), NEW k, Apart(v, w, k)
  PROVE  Represents(r, w)
  <1>1. r \in Representatives /\ r \in Int /\ (r - v) % Prime = 0
    BY Sizes DEF Represents, Representatives
  <1> DEFINE j == (r - v) \div Prime
  <1>2. j \in Int /\ r - v = (j * Prime) + 0
    <2>1. r - v \in Int /\ Prime > 0 /\ Prime \in Nat
      BY <1>1, Sizes
    <2> QED
      BY <1>1, <2>1, Division
  <1> HIDE DEF j
  <1>3. Apart(r, w, j + k)
    <2>1. w \in Int /\ k \in Int /\ v - w = k * Prime
      BY DEF Apart
    <2>2. (j + k) * Prime = j * Prime + k * Prime /\ j * Prime \in Int /\ k * Prime \in Int
      BY <1>2, <2>1, Sizes
    <2> QED
      BY <1>1, <1>2, <2>1, <2>2 DEF Apart
  <1> QED
    BY <1>1, <1>3, Multiple

(* One correction is enough when one word is below the prime.              *)
LEMMA AddNoDoubleCarryRight ==
  ASSUME NEW x \in Representatives, NEW y \in Representatives, y < Prime
  PROVE  Represents(AddNoDoubleCarry(x, y), x + y)
  <1> DEFINE once == Plus(x, y)
  <1>1. x \in Int /\ y \in Int /\ 0 <= x /\ x < Word /\ 0 <= y
    BY Sizes DEF Representatives
  <1>2. once \in Representatives /\ CQ \in Representatives /\ 0 \in Representatives
    BY PlusIs, Sizes DEF Representatives
  <1>3. CASE Carry(x, y)
    <2>1. once = x + y - Word /\ ~Carry(once, CQ)
      BY <1>1, <1>3, PlusIs, Sizes DEF Carry
    <2>2. /\ AddNoDoubleCarry(x, y) = x + y - Word + CQ
          /\ AddNoDoubleCarry(x, y) \in Representatives
      BY <1>2, <1>3, <2>1, PlusIs DEF AddNoDoubleCarry
    <2>3. Apart(AddNoDoubleCarry(x, y), x + y, -1)
      BY <1>1, <2>2, Sizes DEF Apart
    <2> QED
      BY <2>2, <2>3, Multiple
  <1>4. CASE ~Carry(x, y)
    <2>1. once = x + y /\ ~Carry(once, 0)
      BY <1>1, <1>4, PlusIs, Sizes DEF Carry
    <2>2. AddNoDoubleCarry(x, y) = x + y /\ AddNoDoubleCarry(x, y) \in Representatives
      BY <1>1, <1>2, <1>4, <2>1, PlusIs DEF AddNoDoubleCarry
    <2>3. Apart(AddNoDoubleCarry(x, y), x + y, 0)
      BY <1>1, <2>2, Sizes DEF Apart
    <2> QED
      BY <2>2, <2>3, Multiple
  <1> QED
    BY <1>3, <1>4

(* The parts of a product.                                                 *)
LEMMA MulParts ==
  ASSUME NEW x \in Representatives, NEW y \in Representatives,
         NEW rl, NEW rhh, NEW rhl,
         rl = (x * y) % Word, rhh = (x * y) \div (Word * Half),
         rhl = ((x * y) \div Word) % Half
  PROVE  /\ rl \in Representatives /\ rhh \in 0 .. CQ /\ rhl \in 0 .. CQ
         /\ Apart(rl + CQ * rhl - rhh, x * y, 0 - (rhh * (Half + 1) + rhl))
  <1> DEFINE n == x * y
             hi == n \div Word
  <1>1. x \in Nat /\ y \in Nat /\ x < Word /\ y < Word /\ Word \in Nat /\ Word > 0
    BY Sizes DEF Representatives
  <1>2. n \in Nat /\ n < Word * Word
    BY <1>1
  <1>3. Half \in Nat /\ Half > 0 /\ Word = Half * Half /\ CQ = Half - 1
    BY WordsAssumption DEF Word, CQ
  <1> HIDE DEF n
  <1>4. hi \in Int /\ rl \in Int /\ 0 <= rl /\ rl < Word /\ n = (hi * Word) + rl
    BY <1>1, <1>2, Division DEF n
  <1>5. rhh = hi \div Half
    BY <1>1, <1>2, <1>3, DivisionTwice DEF n
  <1> HIDE DEF hi
  <1>6. rhl = hi % Half
    BY DEF hi, n
  <1>7. rhh \in Int /\ rhl \in Int /\ 0 <= rhl /\ rhl < Half /\ hi = (rhh * Half) + rhl
    BY <1>3, <1>4, <1>5, <1>6, Division
  <1>8. 0 <= hi /\ hi < Word
    BY <1>1, <1>2, <1>4, QuotientBound
  <1>9. 0 <= rhh /\ rhh < Half
    BY <1>3, <1>7, <1>8, QuotientBound
  <1>10. n = (rhh * (Word * Half)) + (rhl * Word) + rl
    <2>1. Half \in Int /\ Word \in Int
      BY <1>1, <1>3
    <2>2. ((rhh * Half) + rhl) * Word = (rhh * (Word * Half)) + (rhl * Word)
      BY <1>7, <2>1
    <2> QED
      BY <1>4, <1>7, <2>2
  <1>11. /\ rhh * (Word * Half) = (rhh * (Half + 1)) * Prime - rhh
         /\ rhl * Word = CQ * rhl + rhl * Prime
    BY <1>3, <1>7, Powers, Sizes
  <1>12. /\ (0 - (rhh * (Half + 1) + rhl)) * Prime
              = 0 - (rhh * (Half + 1)) * Prime - rhl * Prime
         /\ rhh * (Half + 1) \in Int /\ (rhh * (Half + 1)) * Prime \in Int
         /\ rhl * Prime \in Int
         /\ CQ * rhl \in Int
    BY <1>3, <1>7, Sizes
  <1>13. Apart(rl + CQ * rhl - rhh, n, 0 - (rhh * (Half + 1) + rhl))
    BY <1>2, <1>4, <1>7, <1>10, <1>11, <1>12 DEF Apart
  <1> QED
    BY <1>3, <1>4, <1>7, <1>9, <1>13 DEF n, Representatives

LEMMA MulRight ==
  ASSUME NEW x \in Representatives, NEW y \in Representatives, NEW asm \in BOOLEAN
  PROVE  Represents(Mul(x, y, asm), x * y)
  <1> DEFINE rl == (x * y) % Word
             rhh == (x * y) \div (Word * Half)
             rhl == ((x * y) \div Word) % Half
             once == Minus(rl, rhh)
             aux1 == Minus(once, IF rhh > rl THEN CQ ELSE 0)
             rest == CQ * rhl
  <1>1. Mul(x, y, asm) = IF asm THEN AddNoDoubleCarry(aux1, rest) ELSE AddPlain(rest, aux1)
    BY DEF Mul
  <1>2. /\ rl \in Representatives /\ rhh \in 0 .. CQ /\ rhl \in 0 .. CQ
        /\ Apart(rl + CQ * rhl - rhh, x * y, 0 - (rhh * (Half + 1) + rhl))
    BY MulParts
  <1> HIDE DEF rl, rhh, rhl
  <1>3. /\ rl \in Int /\ 0 <= rl /\ rl < Word /\ rhh \in Int /\ 0 <= rhh /\ rhh <= CQ
        /\ rhh \in Representatives /\ CQ \in Representatives /\ 0 \in Representatives
    BY <1>2, Sizes DEF Representatives
  <1>4. rest \in Int /\ 0 <= rest /\ rest < Prime /\ rest \in Representatives
    <2>1. CQ * rhl <= CQ * CQ /\ 0 <= CQ * rhl /\ CQ * rhl \in Int
      BY <1>2, Sizes
    <2>2. CQ * CQ = Prime - Half
      BY WordsAssumption DEF CQ, Prime, Word
    <2> QED
      BY <2>1, <2>2, WordsAssumption, Sizes DEF Representatives
  <1> HIDE DEF rest
  <1>5. PICK j \in {0, 1} : aux1 \in Representatives /\ aux1 = rl - rhh + j * Prime
    <2>1. CASE rhh > rl
      <3>1. once = rl + Word - rhh /\ once \in Representatives /\ ~(CQ > once)
        BY <1>2, <1>3, <2>1, MinusIs, Sizes
      <3>2. aux1 = rl - rhh + 1 * Prime /\ aux1 \in Representatives
        BY <1>3, <2>1, <3>1, MinusIs, Sizes
      <3> QED
        BY <3>2
    <2>2. CASE ~(rhh > rl)
      <3>1. once = rl - rhh /\ once \in Representatives /\ ~(0 > once)
        BY <1>2, <1>3, <2>2, MinusIs, Sizes
      <3>2. aux1 = rl - rhh + 0 * Prime /\ aux1 \in Representatives
        BY <1>3, <2>2, <3>1, MinusIs, Sizes
      <3> QED
        BY <3>2
    <2> QED
      BY <2>1, <2>2
  <1> HIDE DEF aux1
  <1>6. Represents(Mul(x, y, asm), aux1 + rest)
    <2>1. aux1 + rest = rest + aux1
      BY <1>4, <1>5, Sizes DEF Representatives
    <2>2. CASE asm
      BY <1>1, <1>4, <1>5, <2>2, AddNoDoubleCarryRight
    <2>3. CASE ~asm
      BY <1>1, <1>4, <1>5, <2>1, <2>3, AddPlainRight
    <2> QED
      BY <2>2, <2>3
  <1>7. Apart(aux1 + rest, rl + rest - rhh, j) /\ aux1 + rest \in Int
    BY <1>3, <1>4, <1>5, Sizes DEF Apart
  <1>8. Represents(Mul(x, y, asm), rl + rest - rhh)
    BY <1>6, <1>7, SameClass
  <1> QED
    BY <1>2, <1>3, <1>4, <1>8, SameClass DEF rest

(* Addition, subtraction and multiplication of any two words, with and     *)
(* without the assembly, and increment and decrement, stay in the words    *)
(* and are right in the field (goldilocks_base_field_scalar.hpp 16-260).   *)
THEOREM ArithmeticRight ==
  \A x, y \in Representatives :
    /\ Represents(AddAsm(x, y), x + y) /\ Represents(AddPlain(x, y), x + y)
    /\ Represents(SubAsm(x, y), x - y) /\ Represents(SubPlain(x, y), x - y)
    /\ Represents(Mul(x, y, TRUE), x * y) /\ Represents(Mul(x, y, FALSE), x * y)
    /\ Represents(Inc(x), x + 1) /\ Represents(Dec(x), x - 1)
  BY AddAsmRight, AddPlainRight, SubAsmRight, SubPlainRight, MulRight, IncRight, DecRight

-----------------------------------------------------------------------------
(* Recursion.  The algorithms of the field are functions defined by         *)
(* recursion; that such a function exists is shown once, for questions of   *)
(* a rank that each pass on to a question of a lower rank.                  *)

(* A set of numbers has a least one.                                        *)
LEMMA Least ==
  ASSUME NEW T, T \subseteq Nat, T # {}
  PROVE  \E x \in T : \A y \in T : x <= y
  <1> DEFINE R == {ss \in Nat \X Nat : ss[1] < ss[2]}
  <1>1. IsWellFoundedOn(R, Nat)
    BY NatLessThanWellFounded DEF OpToRel
  <1>2. \E x \in T : \A y \in T : ~ (<<y, x>> \in R)
    <2> HIDE DEF R
    <2> QED
      BY <1>1, WFMin
  <1>3. PICK x \in T : \A y \in T : ~ (<<y, x>> \in R)
    BY <1>2
  <1>4. ASSUME NEW y \in T PROVE x <= y
    <2>1. x \in Nat /\ y \in Nat /\ ~ (<<y, x>> \in R)
      BY <1>3
    <2>2. ~(y < x)
      BY <2>1
    <2> QED
      BY <2>1, <2>2
  <1> QED
    BY <1>4

(* Induction for a set of numbers.                                          *)
LEMMA Induct ==
  ASSUME NEW S, 0 \in S, \A n \in Nat : n \in S => n + 1 \in S
  PROVE  Nat \subseteq S
  <1>1. ASSUME NEW m \in Nat \ S, \A y \in Nat \ S : m <= y PROVE FALSE
    <2>1. m # 0 /\ m - 1 \in Nat /\ ~(m <= m - 1)
      BY <1>1
    <2>2. m - 1 \in S
      BY <1>1, <2>1
    <2> QED
      BY <2>1, <2>2
  <1> QED
    BY <1>1, Least, Nat \ S \subseteq Nat

(* A rank that comes down from each question to the one it is passed on to. *)
Ranked(D, V, rank, next, base, step) ==
  /\ rank \in [D -> Nat] /\ next \in [D -> D]
  /\ base \in [D -> V] /\ step \in [D \X V -> V]
  /\ \A d \in D : rank[d] # 0 => rank[next[d]] < rank[d]

(* f answers every question of rank up to n by the answer of the next one,  *)
(* of a lower rank.                                                         *)
Below(D, rank, n) == {d \in D : rank[d] <= n}

Answers(f, D, V, rank, next, base, step, n) ==
  /\ f \in [Below(D, rank, n) -> V]
  /\ \A d \in Below(D, rank, n) :
       f[d] = IF rank[d] = 0 THEN base[d] ELSE step[<<d, f[next[d]]>>]

(* The answers up to two ranks agree where both are defined ...             *)
LEMMA AnswersAgree ==
  ASSUME NEW D, NEW V, NEW rank, NEW next, NEW base, NEW step,
         Ranked(D, V, rank, next, base, step),
         NEW m \in Nat, NEW n \in Nat, NEW f, NEW g,
         Answers(f, D, V, rank, next, base, step, m),
         Answers(g, D, V, rank, next, base, step, n),
         NEW d \in Below(D, rank, m) \cap Below(D, rank, n)
  PROVE  f[d] = g[d]
  <1>0. /\ rank \in [D -> Nat] /\ next \in [D -> D]
        /\ base \in [D -> V] /\ step \in [D \X V -> V]
        /\ \A c \in D : rank[c] # 0 => rank[next[c]] < rank[c]
    BY DEF Ranked
  <1> USE <1>0
  <1> DEFINE Both == Below(D, rank, m) \cap Below(D, rank, n)
             S == {k \in Nat : \A e \in Both : rank[e] <= k => f[e] = g[e]}
  <1>1. \A e \in Both : rank[e] = 0 => f[e] = g[e]
    BY DEF Answers
  <1>2. 0 \in S
    BY <1>1 DEF Below
  <1>3. ASSUME NEW k \in Nat, k \in S, NEW e \in Both, rank[e] <= k + 1
        PROVE  f[e] = g[e]
    <2>1. CASE rank[e] = 0
      BY <1>1, <2>1
    <2>2. CASE rank[e] # 0
      <3>1. /\ next[e] \in D /\ rank[next[e]] < rank[e] /\ rank[next[e]] \in Nat
            /\ rank[e] \in Nat /\ rank[e] <= m /\ rank[e] <= n
        BY <2>2 DEF Below
      <3>2. next[e] \in Both /\ rank[next[e]] <= k
        BY <3>1, <1>3 DEF Below
      <3>3. f[next[e]] = g[next[e]]
        BY <3>2, <1>3
      <3>4. f[e] = step[<<e, f[next[e]]>>]
        BY <2>2 DEF Answers
      <3>5. g[e] = step[<<e, g[next[e]]>>]
        BY <2>2 DEF Answers
      <3> QED
        BY <3>3, <3>4, <3>5
    <2> QED
      BY <2>1, <2>2
  <1>4. \A k \in Nat : k \in S => k + 1 \in S
    BY <1>3
  <1> HIDE DEF S
  <1>5. Nat \subseteq S
    BY <1>2, <1>4, Induct
  <1>6. rank[d] \in Nat
    BY DEF Below
  <1> QED
    BY <1>5, <1>6 DEF S

(* ... and exist up to every rank.                                          *)
LEMMA AnswersExist ==
  ASSUME NEW D, NEW V, NEW rank, NEW next, NEW base, NEW step,
         Ranked(D, V, rank, next, base, step),
         NEW n \in Nat
  PROVE  \E f : Answers(f, D, V, rank, next, base, step, n)
  <1>0. /\ rank \in [D -> Nat] /\ next \in [D -> D]
        /\ base \in [D -> V] /\ step \in [D \X V -> V]
        /\ \A c \in D : rank[c] # 0 => rank[next[c]] < rank[c]
    BY DEF Ranked
  <1> USE <1>0
  <1> DEFINE S == {k \in Nat : \E f : Answers(f, D, V, rank, next, base, step, k)}
  <1>1. 0 \in S
    <2> DEFINE f == [d \in Below(D, rank, 0) |-> base[d]]
    <2>1. \A d \in Below(D, rank, 0) : d \in D /\ rank[d] = 0
      BY DEF Below
    <2>2. Answers(f, D, V, rank, next, base, step, 0)
      BY <2>1 DEF Answers
    <2> QED
      BY <2>2
  <1>2. ASSUME NEW k \in Nat, k \in S PROVE k + 1 \in S
    <2>1. PICK f : Answers(f, D, V, rank, next, base, step, k)
      BY <1>2
    <2> DEFINE B == Below(D, rank, k + 1)
               g == [d \in B |-> IF rank[d] = 0 THEN base[d]
                                                ELSE step[<<d, f[next[d]]>>]]
    <2>2. ASSUME NEW d \in B, rank[d] # 0
          PROVE  d \in D /\ next[d] \in Below(D, rank, k) /\ f[next[d]] \in V /\ next[d] \in B
      <3>1. /\ d \in D /\ next[d] \in D /\ rank[next[d]] < rank[d] /\ rank[next[d]] \in Nat
            /\ rank[d] \in Nat /\ rank[d] <= k + 1
        BY <2>2 DEF Below
      <3>2. next[d] \in Below(D, rank, k) /\ next[d] \in B
        BY <3>1 DEF Below
      <3> QED
        BY <3>1, <3>2, <2>1 DEF Answers
    <2>3. g \in [B -> V]
      <3>1. ASSUME NEW d \in B PROVE g[d] \in V
        <4>1. d \in D
          BY DEF Below
        <4> QED
          BY <4>1, <2>2
      <3> QED
        BY <3>1
    <2>4. ASSUME NEW d \in Below(D, rank, k) PROVE d \in B /\ g[d] = f[d]
      <3>1. d \in B
        BY DEF Below
      <3> QED
        BY <3>1, <2>1 DEF Answers
    <2>5. ASSUME NEW d \in B
          PROVE  g[d] = IF rank[d] = 0 THEN base[d] ELSE step[<<d, g[next[d]]>>]
      BY <2>2, <2>4
    <2> HIDE DEF g
    <2>6. Answers(g, D, V, rank, next, base, step, k + 1)
      BY <2>3, <2>5 DEF Answers
    <2> QED
      BY <2>6
  <1> HIDE DEF S
  <1>3. Nat \subseteq S
    BY <1>1, <1>2, Induct
  <1> QED
    BY <1>3 DEF S

(* A function defined by recursion on a rank exists.                        *)
LEMMA Recursion ==
  ASSUME NEW D, NEW V, NEW rank, NEW next, NEW base, NEW step,
         Ranked(D, V, rank, next, base, step)
  PROVE  \E f \in [D -> V] :
           \A d \in D : f[d] = IF rank[d] = 0 THEN base[d] ELSE step[<<d, f[next[d]]>>]
  <1>0. /\ rank \in [D -> Nat] /\ next \in [D -> D]
        /\ base \in [D -> V] /\ step \in [D \X V -> V]
        /\ \A c \in D : rank[c] # 0 => rank[next[c]] < rank[c]
    BY DEF Ranked
  <1> USE <1>0
  <1> DEFINE A(f, n) == Answers(f, D, V, rank, next, base, step, n)
             F == [d \in D |-> (CHOOSE f : A(f, rank[d]))[d]]
  <1>1. ASSUME NEW n \in Nat PROVE A(CHOOSE f : A(f, n), n)
    <2>1. \E f : A(f, n)
      BY AnswersExist
    <2> HIDE DEF A
    <2> QED
      BY <2>1
  <1>2. ASSUME NEW d \in D PROVE F[d] \in V
    <2>1. d \in Below(D, rank, rank[d]) /\ rank[d] \in Nat
      BY DEF Below
    <2> QED
      BY <2>1, <1>1 DEF Answers
  <1>3. ASSUME NEW d \in D
        PROVE  F[d] = IF rank[d] = 0 THEN base[d] ELSE step[<<d, F[next[d]]>>]
    <2> DEFINE f == CHOOSE h : A(h, rank[d])
               g == CHOOSE h : A(h, rank[next[d]])
    <2>1. rank[d] \in Nat /\ next[d] \in D /\ rank[next[d]] \in Nat
      OBVIOUS
    <2>2. A(f, rank[d]) /\ A(g, rank[next[d]])
      BY <2>1, <1>1
    <2>3. F[d] = f[d] /\ F[next[d]] = g[next[d]]
      BY <2>1
    <2> HIDE DEF f, g, F
    <2>4. f[d] = IF rank[d] = 0 THEN base[d] ELSE step[<<d, f[next[d]]>>]
      BY <2>1, <2>2 DEF Answers, Below
    <2>5. CASE rank[d] # 0
      <3>1. next[d] \in Below(D, rank, rank[d]) \cap Below(D, rank, rank[next[d]])
        BY <2>1, <2>5 DEF Below
      <3>2. /\ Answers(f, D, V, rank, next, base, step, rank[d])
            /\ Answers(g, D, V, rank, next, base, step, rank[next[d]])
        BY <2>2
      <3>3. f[next[d]] = g[next[d]]
        BY ONLY <3>1, <3>2, <2>1, AnswersAgree, Ranked(D, V, rank, next, base, step)
      <3> QED
        BY <2>3, <2>4, <3>3
    <2> QED
      BY <2>3, <2>4, <2>5
  <1> HIDE DEF F
  <1>4. F \in [D -> V]
    BY <1>2 DEF F
  <1> QED
    BY <1>3, <1>4
-----------------------------------------------------------------------------
(* The field: what an operation returns, as a congruence of integers.       *)
Elements == 0 .. P - 1

(* Two numbers stand for the same element.                                  *)
Same(x, y) == \E k \in Int : x = y + k * P

LEMMA Modulus == P \in Nat /\ P > 1
  BY FieldAssumption

LEMMA ModSame ==
  ASSUME NEW x \in Int
  PROVE  x % P \in Elements /\ Same(x % P, x)
  <1> DEFINE d == x \div P
  <1>1. d \in Int /\ x % P \in Int /\ 0 <= x % P /\ x % P < P /\ x = (P * d) + (x % P)
    BY Modulus
  <1>2. x % P = x + (0 - d) * P
    <2>1. (0 - d) * P = 0 - (P * d)
      BY <1>1, Modulus
    <2> QED
      BY <1>1, <2>1, Modulus
  <1>3. x % P \in Elements
    BY <1>1, Modulus DEF Elements
  <1>4. 0 - d \in Int
    BY <1>1
  <1> HIDE DEF d
  <1> QED
    BY <1>2, <1>3, <1>4 DEF Same

LEMMA SameRefl == ASSUME NEW x \in Int PROVE Same(x, x)
  <1>1. x = x + 0 * P
    BY Modulus
  <1> QED
    BY <1>1 DEF Same

LEMMA SameSym ==
  ASSUME NEW x \in Int, NEW y \in Int, Same(x, y)
  PROVE  Same(y, x)
  <1>1. PICK k \in Int : x = y + k * P
    BY DEF Same
  <1>2. y = x + (0 - k) * P
    BY <1>1, Modulus
  <1> QED
    BY <1>2 DEF Same

LEMMA SameTrans ==
  ASSUME NEW x \in Int, NEW y \in Int, NEW z \in Int, Same(x, y), Same(y, z)
  PROVE  Same(x, z)
  <1>1. PICK k \in Int : x = y + k * P
    BY DEF Same
  <1>2. PICK l \in Int : y = z + l * P
    BY DEF Same
  <1>3. x = z + (k + l) * P /\ k + l \in Int
    BY <1>1, <1>2, Modulus
  <1> QED
    BY <1>3 DEF Same

LEMMA SamePlus ==
  ASSUME NEW x \in Int, NEW y \in Int, NEW u \in Int, NEW v \in Int, Same(x, y), Same(u, v)
  PROVE  Same(x + u, y + v) /\ Same(x - u, y - v) /\ Same(x * u, y * v)
  <1>1. PICK k \in Int : x = y + k * P
    BY DEF Same
  <1>2. PICK l \in Int : u = v + l * P
    BY DEF Same
  <1>3. x + u = (y + v) + (k + l) * P /\ k + l \in Int
    BY <1>1, <1>2, Modulus
  <1>4. x - u = (y - v) + (k - l) * P /\ k - l \in Int
    BY <1>1, <1>2, Modulus
  <1>5. x * u = (y * v) + ((y * l) + (k * v) + (k * l) * P) * P
    <2>1. (y + k * P) * (v + l * P) = y * v + y * (l * P) + (k * P) * v + (k * P) * (l * P)
      BY Modulus
    <2>2. y * (l * P) = (y * l) * P /\ (k * P) * v = (k * v) * P
      BY Modulus
    <2>3. (k * P) * (l * P) = ((k * l) * P) * P
      BY Modulus
    <2> QED
      BY <1>1, <1>2, <2>1, <2>2, <2>3, Modulus
  <1>6. (y * l) + (k * v) + (k * l) * P \in Int
    BY Modulus
  <1> QED
    BY <1>3, <1>4, <1>5, <1>6 DEF Same

LEMMA SameEqual ==
  ASSUME NEW x \in Elements, NEW y \in Elements, Same(x, y)
  PROVE  x = y
  <1>1. x \in Int /\ y \in Int /\ 0 <= x /\ x < P /\ 0 <= y /\ y < P
    BY Modulus DEF Elements
  <1>2. PICK k \in Int : x = y + k * P
    BY DEF Same
  <1>3. k < 1
    <2> SUFFICES ASSUME k >= 1 PROVE FALSE
      OBVIOUS
    <2>1. k * P >= P
      BY Modulus
    <2> QED
      BY <1>1, <1>2, <2>1, Modulus
  <1>4. k > 0 - 1
    <2> SUFFICES ASSUME k <= 0 - 1 PROVE FALSE
      OBVIOUS
    <2>1. k * P <= 0 - P
      BY Modulus
    <2> QED
      BY <1>1, <1>2, <2>1, Modulus
  <1>5. k = 0
    BY <1>3, <1>4
  <1> QED
    BY <1>1, <1>2, <1>5, Modulus

(* The operations of the field, on numbers that stand for its elements.     *)
LEMMA AddSame ==
  ASSUME NEW x \in Elements, NEW y \in Elements, NEW u \in Int, NEW v \in Int,
         Same(x, u), Same(y, v)
  PROVE  FAdd(x, y) \in Elements /\ Same(FAdd(x, y), u + v)
  <1>1. x + y \in Int /\ Same(x + y, u + v)
    BY SamePlus, Modulus DEF Elements
  <1>2. FAdd(x, y) \in Elements /\ Same(FAdd(x, y), x + y)
    BY <1>1, ModSame DEF FAdd
  <1>3. FAdd(x, y) \in Int
    BY <1>2, Modulus DEF Elements
  <1>4. Same(FAdd(x, y), u + v)
    BY <1>1, <1>2, <1>3, SameTrans
  <1> QED
    BY <1>2, <1>4

LEMMA SubSame ==
  ASSUME NEW x \in Elements, NEW y \in Elements, NEW u \in Int, NEW v \in Int,
         Same(x, u), Same(y, v)
  PROVE  FSub(x, y) \in Elements /\ Same(FSub(x, y), u - v)
  <1>1. x \in Int /\ y \in Int /\ x - y \in Int /\ Same(x - y, u - v)
    BY SamePlus, Modulus DEF Elements
  <1>2. x + P - y = (x - y) + 1 * P /\ x + P - y \in Int
    BY <1>1, Modulus
  <1>3. Same(x + P - y, x - y)
    BY <1>2 DEF Same
  <1>4. Same(x + P - y, u - v)
    BY <1>1, <1>2, <1>3, SameTrans
  <1>5. FSub(x, y) \in Elements /\ Same(FSub(x, y), x + P - y)
    BY <1>2, ModSame DEF FSub
  <1>6. FSub(x, y) \in Int
    BY <1>5, Modulus DEF Elements
  <1>7. Same(FSub(x, y), u - v)
    BY <1>2, <1>4, <1>5, <1>6, SameTrans
  <1> QED
    BY <1>5, <1>7

LEMMA MulSame ==
  ASSUME NEW x \in Elements, NEW y \in Elements, NEW u \in Int, NEW v \in Int,
         Same(x, u), Same(y, v)
  PROVE  FMul(x, y) \in Elements /\ Same(FMul(x, y), u * v)
  <1>1. x * y \in Int /\ Same(x * y, u * v) /\ u * v \in Int
    BY SamePlus, Modulus DEF Elements
  <1>2. FMul(x, y) \in Elements /\ Same(FMul(x, y), x * y)
    BY <1>1, ModSame DEF FMul
  <1>3. FMul(x, y) \in Int
    BY <1>2, Modulus DEF Elements
  <1>4. Same(FMul(x, y), u * v)
    BY <1>1, <1>2, <1>3, SameTrans
  <1> QED
    BY <1>2, <1>4

(* The extension, and the element that stands for an integer.               *)
Cubic == Elements \X Elements \X Elements

Stands(x, u) == x \in Elements /\ u \in Int /\ Same(x, u)

LEMMA StandsSelf == ASSUME NEW x \in Elements PROVE Stands(x, x)
  BY SameRefl, Modulus DEF Stands, Elements

LEMMA StandsSum ==
  ASSUME NEW x, NEW y, NEW u, NEW v, Stands(x, u), Stands(y, v)
  PROVE  Stands(FAdd(x, y), u + v)
  BY AddSame DEF Stands

LEMMA StandsDifference ==
  ASSUME NEW x, NEW y, NEW u, NEW v, Stands(x, u), Stands(y, v)
  PROVE  Stands(FSub(x, y), u - v)
  BY SubSame DEF Stands

LEMMA StandsProduct ==
  ASSUME NEW x, NEW y, NEW u, NEW v, Stands(x, u), Stands(y, v)
  PROVE  Stands(FMul(x, y), u * v)
  BY MulSame DEF Stands

LEMMA StandsMod == ASSUME NEW u \in Int PROVE Stands(u % P, u)
  BY ModSame DEF Stands

LEMMA StandsEqual ==
  ASSUME NEW x, NEW y, NEW u, NEW v, Stands(x, u), Stands(y, v), u = v
  PROVE  x = y
  <1>1. x \in Int /\ y \in Int /\ u \in Int
    BY Modulus DEF Stands, Elements
  <1>2. Same(u, y)
    BY <1>1, SameSym DEF Stands
  <1>3. Same(x, y)
    BY <1>1, <1>2, SameTrans DEF Stands
  <1> QED
    BY <1>3, SameEqual DEF Stands

(* Nine products of Goldilocks3::mul are six by Karatsuba's rule.           *)
LEMMA MulRight3 ==
  ASSUME NEW a1 \in Elements, NEW a2 \in Elements, NEW a3 \in Elements,
         NEW b1 \in Elements, NEW b2 \in Elements, NEW b3 \in Elements
  PROVE  Mul3(<<a1, a2, a3>>, <<b1, b2, b3>>) = Product3(<<a1, a2, a3>>, <<b1, b2, b3>>)
  <1> DEFINE A == FMul(FAdd(a1, a2), FAdd(b1, b2))
             B == FMul(FAdd(a1, a3), FAdd(b1, b3))
             C == FMul(FAdd(a2, a3), FAdd(b2, b3))
             D == FMul(a1, b1)
             E == FMul(a2, b2)
             F == FMul(a3, b3)
             G == FSub(D, E)
             r0 == FSub(FAdd(C, G), F)
             r1 == FSub(FSub(FSub(FAdd(A, C), E), E), D)
             r2 == FSub(B, G)
             iA == (a1 + a2) * (b1 + b2)
             iB == (a1 + a3) * (b1 + b3)
             iC == (a2 + a3) * (b2 + b3)
             u0 == a1 * b1 + a2 * b3 + a3 * b2
             u1 == a1 * b2 + a2 * b1 + a2 * b3 + a3 * b2 + a3 * b3
             u2 == a1 * b3 + a2 * b2 + a3 * b1 + a3 * b3
  <1>0. /\ a1 \in Int /\ a2 \in Int /\ a3 \in Int
        /\ b1 \in Int /\ b2 \in Int /\ b3 \in Int
    BY Modulus DEF Elements
  <1>1. Mul3(<<a1, a2, a3>>, <<b1, b2, b3>>) = <<r0, r1, r2>>
    BY DEF Mul3
  <1>2. Product3(<<a1, a2, a3>>, <<b1, b2, b3>>) = <<u0 % P, u1 % P, u2 % P>>
    BY DEF Product3
  <1>3. /\ Stands(A, iA) /\ Stands(B, iB) /\ Stands(C, iC)
        /\ Stands(D, a1 * b1) /\ Stands(E, a2 * b2) /\ Stands(F, a3 * b3)
    BY StandsSelf, StandsSum, StandsProduct
  <1> HIDE DEF A, B, C, D, E, F
  <1>4. Stands(G, a1 * b1 - a2 * b2)
    BY <1>3, StandsDifference
  <1> HIDE DEF G
  <1>5. Stands(r0, (iC + (a1 * b1 - a2 * b2)) - a3 * b3)
    BY <1>3, <1>4, StandsSum, StandsDifference
  <1>6. Stands(r1, (((iA + iC) - a2 * b2) - a2 * b2) - a1 * b1)
    BY <1>3, StandsSum, StandsDifference
  <1>7. Stands(r2, iB - (a1 * b1 - a2 * b2))
    BY <1>3, <1>4, StandsDifference
  <1>8. Stands(u0 % P, u0) /\ Stands(u1 % P, u1) /\ Stands(u2 % P, u2)
    BY <1>0, StandsMod
  <1>9. /\ u0 = (iC + (a1 * b1 - a2 * b2)) - a3 * b3
        /\ u1 = (((iA + iC) - a2 * b2) - a2 * b2) - a1 * b1
        /\ u2 = iB - (a1 * b1 - a2 * b2)
    BY <1>0
  <1> HIDE DEF u0, u1, u2, r0, r1, r2, iA, iB, iC
  <1>10. r0 = u0 % P /\ r1 = u1 % P /\ r2 = u2 % P
    BY <1>5, <1>6, <1>7, <1>8, <1>9, StandsEqual
  <1> QED
    BY <1>1, <1>2, <1>10

-----------------------------------------------------------------------------
LEMMA Quotient ==
  ASSUME NEW r \in Nat, NEW p \in Nat, p > 0
  PROVE  /\ r \div p \in Nat /\ r % p \in Nat /\ r % p < p
         /\ r = (r \div p) * p + (r % p)
  OBVIOUS

(* One round of the loop of Goldilocks::inv: a division with remainder.     *)
LEMMA RoundIs ==
  ASSUME NEW s \in Locals, s.newr # 0
  PROVE  /\ Round(s) \in Locals /\ Round(s).newr < s.newr
         /\ Round(s).t = s.newt /\ Round(s).r = s.newr
         /\ Round(s).newt = FSub(s.t, FMul(s.r \div s.newr, s.newt))
         /\ s.r < P \/ s.newr < P => Round(s).newr = s.r % s.newr
  <1> DEFINE q == s.r \div s.newr
             v == s.r % s.newr
             a == FSub(s.t, FMul(q, s.newt))
             w == FSub(s.r % P, FMul(q, s.newr))
  <1>1. /\ s.t \in Nat /\ s.r \in Nat /\ s.newt \in Nat /\ s.newr \in Nat
        /\ s.newr > 0
    BY DEF Locals
  <1>2. /\ q \in Nat /\ v \in Nat /\ v < s.newr /\ s.r = q * s.newr + v
    BY <1>1, Quotient
  <1>3. Round(s) = [t |-> s.newt, r |-> s.newr, newt |-> a, newr |-> w]
    BY DEF Round
  <1>4. Stands(s.r % P, s.r)
    BY <1>1, StandsMod
  <1>5. Stands(FMul(q, s.newr), q * s.newr)
    BY <1>1, <1>2, StandsMod DEF FMul
  <1>6. Stands(w, s.r - q * s.newr)
    BY <1>4, <1>5, StandsDifference
  <1> HIDE DEF w, q, v
  <1>7. s.r - q * s.newr = v
    BY <1>1, <1>2
  <1>8. w \in Elements /\ w \in Nat /\ w < P
    BY <1>6, Modulus DEF Stands, Elements
  <1>9. v < P => w = v
    BY <1>6, <1>7, <1>2, StandsSelf, StandsEqual, Modulus DEF Elements
  <1>10. w < s.newr
    BY <1>1, <1>2, <1>8, <1>9, Modulus
  <1>11. a \in Nat
    <2>1. FMul(q, s.newt) \in Nat /\ FMul(q, s.newt) < P
      <3>1. q * s.newt \in Int
        BY <1>1, <1>2
      <3> QED
        BY <3>1, ModSame, Modulus DEF FMul, Elements
    <2>2. s.t + P - FMul(q, s.newt) \in Int
      BY <2>1, <1>1, Modulus
    <2> QED
      BY <2>2, ModSame, Modulus DEF FSub, Elements
  <1>12. Round(s) \in Locals
    BY <1>1, <1>3, <1>8, <1>11 DEF Locals
  <1>13. s.r < P \/ s.newr < P => v < P
    <2>1. v <= s.r
      BY <1>1, <1>2
    <2> QED
      BY <1>1, <1>2, <2>1, Modulus
  <1> HIDE DEF a
  <1>14. /\ Round(s).t = s.newt /\ Round(s).r = s.newr
         /\ Round(s).newt = a /\ Round(s).newr = w
    BY <1>3
  <1> QED
    BY <1>9, <1>10, <1>12, <1>13, <1>14 DEF a, q, v

(* The loop ends, so what it returns from each state is defined.            *)
LEMMA EuclidIs ==
  \A s \in Locals : Euclid[s] = IF s.newr = 0 THEN s.t ELSE Euclid[Round(s)]
  <1> DEFINE rank == [s \in Locals |-> s.newr]
             next == [s \in Locals |-> IF s.newr = 0 THEN s ELSE Round(s)]
             base == [s \in Locals |-> s.t]
             step == [p \in Locals \X Nat |-> p[2]]
  <1>1. Ranked(Locals, Nat, rank, next, base, step)
    <2>1. rank \in [Locals -> Nat] /\ base \in [Locals -> Nat]
      BY DEF Locals
    <2>2. next \in [Locals -> Locals]
      BY RoundIs
    <2>3. step \in [Locals \X Nat -> Nat]
      OBVIOUS
    <2>4. ASSUME NEW s \in Locals, rank[s] # 0 PROVE rank[next[s]] < rank[s]
      BY <2>4, RoundIs
    <2> QED
      BY <2>1, <2>2, <2>3, <2>4 DEF Ranked
  <1> HIDE DEF rank, next, base, step
  <1>2. PICK f \in [Locals -> Nat] :
          \A s \in Locals : f[s] = IF rank[s] = 0 THEN base[s] ELSE step[<<s, f[next[s]]>>]
    BY <1>1, Recursion
  <1>3. ASSUME NEW s \in Locals
        PROVE  f[s] = IF s.newr = 0 THEN s.t ELSE f[Round(s)]
    <2>1. rank[s] = s.newr /\ base[s] = s.t
      BY DEF rank, base
    <2>2. ASSUME s.newr # 0
          PROVE  next[s] = Round(s) /\ step[<<s, f[next[s]]>>] = f[Round(s)]
      <3>1. next[s] = Round(s) /\ Round(s) \in Locals
        BY <2>2, RoundIs DEF next
      <3>2. f[next[s]] \in Nat
        BY <3>1
      <3> QED
        BY <3>1, <3>2 DEF step
    <2> QED
      BY <1>2, <2>1, <2>2
  <1>4. f = [s \in Locals |-> IF s.newr = 0 THEN s.t ELSE f[Round(s)]]
    BY <1>3
  <1>5. \E g : g = [s \in Locals |-> IF s.newr = 0 THEN s.t ELSE g[Round(s)]]
    BY <1>4, Zenon
  <1>6. Euclid = [s \in Locals |-> IF s.newr = 0 THEN s.t ELSE Euclid[Round(s)]]
    BY <1>5, Zenon DEF Euclid
  <1> QED
    BY <1>6, Zenon

-----------------------------------------------------------------------------
Divides(d, n) == \E k \in Nat : n = k * d

PrimeModulus == \A d \in Nat : Divides(d, P) => d = 1 \/ d = P

(* What a round keeps: t and newt are r and newr over x, and what divides   *)
(* both r and newr divides both P and x.                                    *)
Bezout(s, x) ==
  /\ s \in Locals /\ s.t \in Elements /\ s.newt \in Elements
  /\ s.r \in 1 .. P /\ s.newr < s.r
  /\ Same(s.t * x, s.r) /\ Same(s.newt * x, s.newr)
  /\ \A d \in Nat : Divides(d, s.r) /\ Divides(d, s.newr) => Divides(d, P) /\ Divides(d, x)

(* Each round keeps it ...                                                  *)
LEMMA RoundBezout ==
  ASSUME NEW x \in Nat, NEW s, Bezout(s, x), s.newr # 0
  PROVE  Bezout(Round(s), x)
  <1> DEFINE q == s.r \div s.newr
             v == s.r % s.newr
             u == Round(s)
  <1>1. /\ s \in Locals /\ s.t \in Elements /\ s.newt \in Elements
        /\ s.r \in Nat /\ 1 <= s.r /\ s.r <= P /\ s.newr < s.r
        /\ Same(s.t * x, s.r) /\ Same(s.newt * x, s.newr)
        /\ s.t \in Nat /\ s.newt \in Nat /\ s.newr \in Nat /\ s.newr > 0
    BY Modulus DEF Bezout, Locals
  <1>2. \A d \in Nat : Divides(d, s.r) /\ Divides(d, s.newr) => Divides(d, P) /\ Divides(d, x)
    BY DEF Bezout
  <1>3. /\ u \in Locals /\ u.newr < s.newr /\ u.t = s.newt /\ u.r = s.newr
        /\ u.newt = FSub(s.t, FMul(q, s.newt)) /\ u.newr = v
    BY <1>1, RoundIs, Modulus
  <1>4. q \in Nat /\ v \in Nat /\ v < s.newr /\ s.r = q * s.newr + v
    BY <1>1, Quotient
  <1> HIDE DEF q, v, u
  <1>5. Stands(u.newt, s.t - q * s.newt)
    <2>1. Stands(FMul(q, s.newt), q * s.newt)
      BY <1>1, <1>4, StandsMod DEF FMul
    <2> QED
      BY <1>1, <1>3, <2>1, StandsSelf, StandsDifference
  <1>6. Same(u.newt * x, u.newr)
    <2>1. u.newt \in Int /\ s.t - q * s.newt \in Int
      BY <1>1, <1>4, <1>5, Modulus DEF Stands, Elements
    <2>2. Same(u.newt * x, (s.t - q * s.newt) * x)
      <3>1. x \in Int /\ Same(x, x) /\ Same(u.newt, s.t - q * s.newt)
        BY <1>5, SameRefl DEF Stands
      <3> QED
        BY <3>1, <2>1, SamePlus
    <2>3. (s.t - q * s.newt) * x = s.t * x - q * (s.newt * x)
      BY <1>1, <1>4
    <2>4. s.t * x \in Int /\ s.newt * x \in Int /\ q * (s.newt * x) \in Int /\ q * s.newr \in Int
      BY <1>1, <1>4
    <2>5. Same(q * (s.newt * x), q * s.newr)
      <3>1. q \in Int /\ Same(q, q) /\ s.newr \in Int /\ Same(s.newt * x, s.newr)
        BY <1>1, <1>4, SameRefl
      <3> QED
        BY <3>1, <2>4, SamePlus
    <2>6. Same(s.t * x - q * (s.newt * x), s.r - q * s.newr)
      <3>1. s.r \in Int /\ Same(s.t * x, s.r)
        BY <1>1
      <3> QED
        BY <3>1, <2>4, <2>5, SamePlus
    <2>7. s.r - q * s.newr = u.newr
      BY <1>1, <1>3, <1>4, <2>4
    <2>8. u.newt * x \in Int /\ (s.t - q * s.newt) * x \in Int /\ u.newr \in Int
      BY <2>1, <2>7, <1>3, <1>4
    <2> QED
      BY <2>2, <2>3, <2>6, <2>7, <2>8, SameTrans
  <1>7. ASSUME NEW d \in Nat, Divides(d, s.newr), Divides(d, v)
        PROVE  Divides(d, s.r)
    <2>1. PICK k \in Nat : s.newr = k * d
      BY <1>7 DEF Divides
    <2>2. PICK l \in Nat : v = l * d
      BY <1>7 DEF Divides
    <2>3. s.r = (q * k + l) * d /\ q * k + l \in Nat
      BY <1>4, <2>1, <2>2
    <2> QED
      BY <2>3 DEF Divides
  <1>8. \A d \in Nat : Divides(d, u.r) /\ Divides(d, u.newr) => Divides(d, P) /\ Divides(d, x)
    BY <1>2, <1>3, <1>7
  <1>9. u.r \in 1 .. P
    BY <1>1, <1>3, Modulus
  <1>10. u.newt \in Elements
    BY <1>5 DEF Stands
  <1>11. Bezout(u, x)
    BY <1>1, <1>3, <1>6, <1>8, <1>9, <1>10 DEF Bezout
  <1> QED
    BY <1>11 DEF u

(* ... and at the end r is 1, since nothing else divides a prime.           *)
LEMMA EndBezout ==
  ASSUME PrimeModulus, NEW x \in 1 .. P - 1, NEW s, Bezout(s, x), s.newr = 0
  PROVE  Same(s.t * x, 1)
  <1>1. x \in Nat /\ 0 < x /\ x < P
    BY Modulus
  <1>2. s.r \in Nat /\ s.r >= 1 /\ Same(s.t * x, s.r)
    BY Modulus DEF Bezout
  <1>3. Divides(s.r, s.r) /\ Divides(s.r, s.newr)
    <2>1. s.r = 1 * s.r /\ 0 = 0 * s.r
      BY <1>2
    <2> QED
      BY <2>1 DEF Divides
  <1>4. Divides(s.r, P) /\ Divides(s.r, x)
    BY <1>2, <1>3 DEF Bezout
  <1>5. s.r # P
    <2> SUFFICES ASSUME s.r = P PROVE FALSE
      OBVIOUS
    <2>1. PICK k \in Nat : x = k * P
      BY <1>4 DEF Divides
    <2>2. k = 0 \/ k * P >= P
      BY Modulus
    <2> QED
      BY <1>1, <2>1, <2>2, Modulus
  <1>6. s.r = 1
    BY <1>2, <1>4, <1>5 DEF PrimeModulus
  <1> QED
    BY <1>2, <1>6

(* Goldilocks::inv returns the inverse of every element but 0, on which it  *)
(* throws (goldilocks_base_field.cpp 97-128).                               *)
THEOREM InverseRight ==
  ASSUME PrimeModulus, NEW x \in 1 .. P - 1
  PROVE  FInv(x) \in Elements /\ FMul(x, FInv(x)) = 1
  <1> DEFINE S == {n \in Nat : \A s \in Locals : Bezout(s, x) /\ s.newr <= n =>
                     Euclid[s] \in Elements /\ Same(Euclid[s] * x, 1)}
             s0 == [t |-> 0, r |-> P, newt |-> 1, newr |-> x]
  <1>1. x \in Nat /\ 0 < x /\ x < P
    BY Modulus
  <1>2. ASSUME NEW s \in Locals, Bezout(s, x), s.newr = 0
        PROVE  Euclid[s] \in Elements /\ Same(Euclid[s] * x, 1)
    BY <1>2, EndBezout, EuclidIs DEF Bezout
  <1>3. 0 \in S
    BY <1>2 DEF Locals
  <1>4. ASSUME NEW n \in Nat, n \in S PROVE n + 1 \in S
    <2> SUFFICES ASSUME NEW s \in Locals, Bezout(s, x), s.newr <= n + 1
                 PROVE  Euclid[s] \in Elements /\ Same(Euclid[s] * x, 1)
      OBVIOUS
    <2>1. CASE s.newr # 0
      <3>1. Bezout(Round(s), x) /\ Round(s) \in Locals /\ Round(s).newr < s.newr
        BY <1>1, <2>1, RoundBezout, RoundIs
      <3>2. Round(s).newr <= n
        BY <3>1 DEF Locals
      <3>3. Euclid[s] = Euclid[Round(s)]
        BY <2>1, EuclidIs
      <3> QED
        BY <1>4, <3>1, <3>2, <3>3
    <2> QED
      BY <1>2, <2>1
  <1> HIDE DEF S
  <1>5. Nat \subseteq S
    BY <1>3, <1>4, Induct
  <1>6. Bezout(s0, x)
    <2>1. s0 \in Locals
      BY <1>1, Modulus DEF Locals
    <2>2. 0 \in Elements /\ 1 \in Elements
      BY Modulus DEF Elements
    <2>3. Same(0 * x, P)
      <3>1. 0 * x = P + (0 - 1) * P
        BY <1>1, Modulus
      <3> QED
        BY <3>1 DEF Same
    <2>4. Same(1 * x, x)
      BY <1>1, SameRefl
    <2> QED
      BY <1>1, <2>1, <2>2, <2>3, <2>4, Modulus DEF Bezout
  <1>7. FInv(x) = Euclid[s0] /\ s0 \in Locals /\ s0.newr = x
    BY <1>6 DEF FInv, Bezout
  <1> HIDE DEF s0
  <1>8. FInv(x) \in Elements /\ Same(FInv(x) * x, 1)
    BY <1>1, <1>5, <1>6, <1>7 DEF S
  <1>9. FInv(x) * x = x * FInv(x) /\ FInv(x) \in Int /\ x * FInv(x) \in Int
    BY <1>1, <1>8, Modulus DEF Elements
  <1>10. Stands(FMul(x, FInv(x)), x * FInv(x))
    BY <1>9, StandsMod DEF FMul
  <1>11. Stands(1, 1)
    BY StandsSelf, Modulus DEF Elements
  <1>12. Stands(1, x * FInv(x))
    BY <1>8, <1>9, <1>11, SameSym DEF Stands
  <1> QED
    BY <1>8, <1>10, <1>12, StandsEqual

-----------------------------------------------------------------------------
Null(x) == Same(x, 0)

(* x^3 - x - 1 has no root, so it does not factor.                          *)
RootFree == \A r \in Elements : (r * r * r) % P # (r + 1) % P

(* What is not 0 in the field has an inverse ...                            *)
LEMMA Reciprocal ==
  ASSUME PrimeModulus, NEW x \in Int, ~Null(x)
  PROVE  \E y \in Int : Same(x * y, 1)
  <1> DEFINE u == x % P
             y == FInv(u)
  <1>1. u \in Elements /\ Same(u, x) /\ u \in Int
    BY ModSame, Modulus DEF Elements
  <1> HIDE DEF u
  <1>2. u # 0
    BY <1>1, SameSym DEF Null
  <1>3. u \in 1 .. P - 1
    BY <1>1, <1>2, Modulus DEF Elements
  <1>4. y \in Elements /\ FMul(u, y) = 1
    BY <1>3, InverseRight
  <1> HIDE DEF y
  <1>5. y \in Int
    BY <1>4, Modulus DEF Elements
  <1>6. Stands(FMul(u, y), x * y)
    BY <1>1, <1>4, <1>5, StandsProduct, StandsSelf DEF Stands
  <1>7. x * y \in Int
    BY <1>5
  <1>8. Same(x * y, 1)
    BY <1>4, <1>6, <1>7, SameSym DEF Stands
  <1> QED
    BY <1>5, <1>8

(* ... so a product is 0 only if a factor is.                               *)
LEMMA NullProduct ==
  ASSUME PrimeModulus, NEW x \in Int, NEW y \in Int, Null(x * y)
  PROVE  Null(x) \/ Null(y)
  <1> SUFFICES ASSUME ~Null(x) PROVE Null(y)
    OBVIOUS
  <1>1. PICK z \in Int : Same(x * z, 1)
    BY Reciprocal
  <1>2. PICK k \in Int : x * z = 1 + k * P
    BY <1>1 DEF Same
  <1>3. PICK l \in Int : x * y = 0 + l * P
    BY DEF Null, Same
  <1>4. (x * z) * y = (x * y) * z
    OBVIOUS
  <1>5. (1 + k * P) * y = y + (k * y) * P /\ (l * P) * z = (l * z) * P
    BY Modulus
  <1>6. y = 0 + (l * z - k * y) * P /\ l * z - k * y \in Int
    BY <1>2, <1>3, <1>4, <1>5, Modulus
  <1> QED
    BY <1>6 DEF Null, Same

(* No integer is a root either.                                             *)
LEMMA NoRoot ==
  ASSUME RootFree, NEW r \in Int
  PROVE  ~Null(r * r * r - r - 1)
  <1> SUFFICES ASSUME Null(r * r * r - r - 1) PROVE FALSE
    OBVIOUS
  <1> DEFINE u == r % P
  <1>1. u \in Elements /\ Same(u, r) /\ u \in Int
    BY ModSame, Modulus DEF Elements
  <1> HIDE DEF u
  <1>2. PICK k \in Int : u = r + k * P
    BY <1>1 DEF Same
  <1>3. PICK l \in Int : r * r * r - r - 1 = 0 + l * P
    BY DEF Null, Same
  <1>4. Same(u * u, r * r)
    BY <1>1, SamePlus
  <1>5. u * u \in Int /\ r * r \in Int /\ u * u * u \in Int /\ r * r * r \in Int
    BY <1>1
  <1>6. Same(u * u * u, r * r * r)
    BY <1>1, <1>4, <1>5, SamePlus
  <1>7. r * r * r = (r + 1) + l * P
    BY <1>3, <1>5, Modulus
  <1>8. Same(r * r * r, r + 1)
    BY <1>7 DEF Same
  <1>9. r + 1 = (u + 1) + (0 - k) * P
    BY <1>1, <1>2, Modulus
  <1>10. Same(r + 1, u + 1)
    BY <1>9 DEF Same
  <1>11. Same(u * u * u, u + 1)
    BY <1>1, <1>5, <1>6, <1>8, <1>10, SameTrans
  <1>12. Stands((u * u * u) % P, u * u * u) /\ Stands((u + 1) % P, u + 1)
    BY <1>1, <1>5, StandsMod
  <1>13. (u * u * u) % P \in Int /\ u + 1 \in Int
    BY <1>1, <1>5, Modulus
  <1>14. Same((u * u * u) % P, u + 1)
    BY <1>5, <1>11, <1>12, <1>13, SameTrans DEF Stands
  <1>15. (u * u * u) % P = (u + 1) % P
    BY <1>12, <1>13, <1>14, StandsEqual DEF Stands
  <1> QED
    BY <1>1, <1>15 DEF RootFree

(* An element a + bx whose norm is 0 is 0.                                  *)
LEMMA LinearNorm ==
  ASSUME PrimeModulus, RootFree, NEW a \in Int, NEW b \in Int,
         Null(a * b * b - a * a * a - b * b * b)
  PROVE  Null(a) /\ Null(b)
  <1>1. PICK l \in Int : a * b * b - a * a * a - b * b * b = 0 + l * P
    BY DEF Null, Same
  <1>2. CASE Null(b)
    <2>1. PICK k \in Int : b = 0 + k * P
      BY <1>2 DEF Null, Same
    <2>2. a * b * b = (a * b * k) * P /\ b * b * b = (b * b * k) * P
      BY <2>1, Modulus
    <2>3. a * a * a = 0 + (a * b * k - b * b * k - l) * P
      BY <1>1, <2>2, Modulus
    <2>4. Null(a * a * a)
      <3>1. a * b * k - b * b * k - l \in Int
        OBVIOUS
      <3> QED
        BY <2>3, <3>1 DEF Null, Same
    <2>5. a * a \in Int
      OBVIOUS
    <2>6. Null(a)
      BY <2>4, <2>5, NullProduct
    <2> QED
      BY <1>2, <2>6
  <1>3. CASE ~Null(b)
    <2>1. PICK y \in Int : Same(b * y, 1)
      BY <1>3, Reciprocal
    <2> DEFINE m == b * y
               c == a * y
               r == 0 - c
               cube == c * c * c
    <2>2. m \in Int /\ c \in Int /\ r \in Int /\ cube \in Int /\ m * m \in Int /\ m * m * m \in Int
      OBVIOUS
    <2>3. (a * b * b - a * a * a - b * b * b) * (y * y * y) = (c * (m * m) - cube) - m * m * m
      OBVIOUS
    <2>4. (l * P) * (y * y * y) = 0 + (l * (y * y * y)) * P /\ l * (y * y * y) \in Int
      BY Modulus
    <2>5. (c * (m * m) - cube) - m * m * m = 0 + (l * (y * y * y)) * P
      BY <1>1, <2>3, <2>4, Modulus
    <2>6. Same((c * (m * m) - cube) - m * m * m, 0)
      BY <2>4, <2>5 DEF Same
    <2>7. r * r * r - r - 1 = (c * 1 - cube) - 1
      OBVIOUS
    <2> HIDE DEF m, c, r, cube
    <2>8. Same(m * m, 1 * 1)
      BY <2>1, <2>2, SamePlus DEF m
    <2>9. Same(m * m * m, (1 * 1) * 1)
      BY <2>1, <2>2, <2>8, SamePlus DEF m
    <2>10. Same(m * m, 1) /\ Same(m * m * m, 1)
      BY <2>8, <2>9
    <2>11. Same(c * (m * m), c * 1) /\ c * (m * m) \in Int /\ c * 1 \in Int
      BY <2>2, <2>10, SamePlus, SameRefl
    <2>12. Same(c * (m * m) - cube, c * 1 - cube)
      BY <2>2, <2>11, SamePlus, SameRefl
    <2>13. Same((c * (m * m) - cube) - m * m * m, (c * 1 - cube) - 1)
      <3>1. c * (m * m) - cube \in Int /\ c * 1 - cube \in Int
        BY <2>2, <2>11
      <3> QED
        BY <2>2, <2>10, <2>12, <3>1, SamePlus
    <2>14. Same((c * 1 - cube) - 1, (c * (m * m) - cube) - m * m * m)
      <3>1. (c * 1 - cube) - 1 \in Int /\ (c * (m * m) - cube) - m * m * m \in Int
        BY <2>2, <2>11
      <3> QED
        BY <2>13, <3>1, SameSym
    <2>15. Same((c * 1 - cube) - 1, 0)
      <3>1. (c * 1 - cube) - 1 \in Int /\ (c * (m * m) - cube) - m * m * m \in Int
        BY <2>2, <2>11
      <3> QED
        BY <2>6, <2>14, <3>1, SameTrans
    <2>16. Null(r * r * r - r - 1)
      BY <2>7, <2>15 DEF Null
    <2> QED
      BY <2>2, <2>16, NoRoot
  <1> QED
    BY <1>2, <1>3

(* The norm that Goldilocks3::inv inverts, as a polynomial of integers.     *)
IntNorm(a, b, c) ==
  3 * (a * b * c) + a * b * b + b * c * c
    - a * a * a - 2 * (a * a * c) - a * c * c - b * b * b - c * c * c

(* Only 0 has norm 0: times c x - b, an element of norm 0 would be linear,  *)
(* hence 0, and then b / c would be a root.                                 *)
LEMMA CubicNorm ==
  ASSUME PrimeModulus, RootFree, NEW a \in Int, NEW b \in Int, NEW c \in Int,
         Null(IntNorm(a, b, c))
  PROVE  Null(a) /\ Null(b) /\ Null(c)
  <1> DEFINE G == c * c - a * b
             H == c * a - b * b + c * c
             N == IntNorm(a, b, c)
             M == b * b * b - b * c * c - c * c * c
  <1>0. G \in Int /\ H \in Int /\ N \in Int /\ M \in Int
    BY DEF IntNorm
  <1>1. PICK l \in Int : N = 0 + l * P
    BY DEF Null, Same
  <1>2. G * H * H - G * G * G - H * H * H = 0 - N * M
    BY DEF IntNorm
  <1>3. M = 0 - (c * G) - (b * H)
    OBVIOUS
  <1>4. a * a * a = 0 - N + c * (3 * (a * b) + b * c - 2 * (a * a) - a * c - c * c) + b * (a * b - b * b)
    BY DEF IntNorm
  <1>5. H = c * (a + c) - b * b
    OBVIOUS
  <1>6. M = b * b * b - b * c * c - c * c * c
    OBVIOUS
  <1> HIDE DEF N, M, G, H
  <1>7. Null(G) /\ Null(H)
    <2>1. 0 - N * M = 0 + (0 - l * M) * P /\ 0 - l * M \in Int
      BY <1>0, <1>1, Modulus
    <2>2. Null(G * H * H - G * G * G - H * H * H)
      BY <1>2, <2>1 DEF Null, Same
    <2> QED
      BY <1>0, <2>2, LinearNorm
  <1>8. PICK g \in Int : G = 0 + g * P
    BY <1>7 DEF Null, Same
  <1>9. PICK h \in Int : H = 0 + h * P
    BY <1>7 DEF Null, Same
  <1>10. CASE Null(c)
    <2>1. PICK k \in Int : c = 0 + k * P
      BY <1>10 DEF Null, Same
    <2>2. c * (a + c) = (k * (a + c)) * P
      BY <2>1, Modulus
    <2>3. b * b = 0 + (k * (a + c) - h) * P /\ k * (a + c) - h \in Int
      BY <1>5, <1>9, <2>2, <1>0, Modulus
    <2>4. Null(b * b)
      BY <2>3 DEF Null, Same
    <2>5. Null(b)
      BY <2>4, NullProduct
    <2>6. PICK j \in Int : b = 0 + j * P
      BY <2>5 DEF Null, Same
    <2> DEFINE u == 3 * (a * b) + b * c - 2 * (a * a) - a * c - c * c
               v == a * b - b * b
    <2>7. u \in Int /\ v \in Int /\ a * a * a = 0 - N + c * u + b * v
      BY <1>4
    <2> HIDE DEF u, v
    <2>8. c * u = (k * u) * P /\ b * v = (j * v) * P /\ k * u \in Int /\ j * v \in Int
      BY <2>1, <2>6, <2>7, Modulus
    <2>9. a * a * a = 0 + (k * u + j * v - l) * P /\ k * u + j * v - l \in Int
      BY <1>0, <1>1, <2>7, <2>8, Modulus
    <2>10. Null(a * a * a)
      BY <2>9 DEF Null, Same
    <2>11. a * a \in Int
      OBVIOUS
    <2>12. Null(a)
      BY <2>10, <2>11, NullProduct
    <2> QED
      BY <1>10, <2>5, <2>12
  <1>11. CASE ~Null(c)
    <2>1. PICK y \in Int : Same(c * y, 1)
      BY <1>11, Reciprocal
    <2> DEFINE m == c * y
               r == b * y
               cube == r * r * r
    <2>2. m \in Int /\ r \in Int /\ cube \in Int /\ m * m \in Int /\ m * m * m \in Int
      OBVIOUS
    <2>3. M * (y * y * y) = (cube - r * (m * m)) - m * m * m
      BY <1>6
    <2>4. M = (0 - c * g - b * h) * P /\ (0 - c * g - b * h) \in Int
      BY <1>0, <1>3, <1>8, <1>9, Modulus
    <2> DEFINE q == (0 - c * g - b * h) * (y * y * y)
    <2>5. (cube - r * (m * m)) - m * m * m = 0 + q * P /\ q \in Int
      <3>1. ((0 - c * g - b * h) * P) * (y * y * y) = q * P
        BY Modulus
      <3>2. q * P \in Int /\ q \in Int
        BY Modulus
      <3> HIDE DEF q, m, r, cube
      <3> QED
        BY <2>3, <2>4, <3>1, <3>2
    <2> HIDE DEF q
    <2>6. Same((cube - r * (m * m)) - m * m * m, 0)
      BY <2>5 DEF Same
    <2>7. r * r * r - r - 1 = (cube - r * 1) - 1
      OBVIOUS
    <2> HIDE DEF m, r, cube
    <2>8. Same(m * m, 1 * 1)
      BY <2>1, <2>2, SamePlus DEF m
    <2>9. Same(m * m * m, (1 * 1) * 1)
      BY <2>1, <2>2, <2>8, SamePlus DEF m
    <2>10. Same(m * m, 1) /\ Same(m * m * m, 1)
      BY <2>8, <2>9
    <2>11. Same(r * (m * m), r * 1) /\ r * (m * m) \in Int /\ r * 1 \in Int
      BY <2>2, <2>10, SamePlus, SameRefl
    <2>12. Same(cube - r * (m * m), cube - r * 1)
      BY <2>2, <2>11, SamePlus, SameRefl
    <2>13. /\ cube - r * (m * m) \in Int /\ cube - r * 1 \in Int
           /\ (cube - r * 1) - 1 \in Int /\ (cube - r * (m * m)) - m * m * m \in Int
      BY <2>2, <2>11
    <2>14. Same((cube - r * (m * m)) - m * m * m, (cube - r * 1) - 1)
      BY <2>2, <2>10, <2>12, <2>13, SamePlus
    <2>15. Same((cube - r * 1) - 1, (cube - r * (m * m)) - m * m * m)
      BY <2>13, <2>14, SameSym
    <2>16. Same((cube - r * 1) - 1, 0)
      BY <2>6, <2>13, <2>15, SameTrans
    <2>17. Null(r * r * r - r - 1)
      BY <2>7, <2>16 DEF Null
    <2> QED
      BY <2>2, <2>17, NoRoot
  <1> QED
    BY <1>10, <1>11

-----------------------------------------------------------------------------
(* Multiplication in the extension is that of polynomials of integers.      *)
LEMMA ProductStands ==
  ASSUME NEW x1, NEW x2, NEW x3, NEW y1, NEW y2, NEW y3,
         NEW u1, NEW u2, NEW u3, NEW v1, NEW v2, NEW v3,
         Stands(x1, u1), Stands(x2, u2), Stands(x3, u3),
         Stands(y1, v1), Stands(y2, v2), Stands(y3, v3)
  PROVE  \E p1, p2, p3 :
           /\ Product3(<<x1, x2, x3>>, <<y1, y2, y3>>) = <<p1, p2, p3>>
           /\ Stands(p1, u1 * v1 + u2 * v3 + u3 * v2)
           /\ Stands(p2, u1 * v2 + u2 * v1 + u2 * v3 + u3 * v2 + u3 * v3)
           /\ Stands(p3, u1 * v3 + u2 * v2 + u3 * v1 + u3 * v3)
  <1> DEFINE p1 == (x1 * y1 + x2 * y3 + x3 * y2) % P
             p2 == (x1 * y2 + x2 * y1 + x2 * y3 + x3 * y2 + x3 * y3) % P
             p3 == (x1 * y3 + x2 * y2 + x3 * y1 + x3 * y3) % P
             f1 == FAdd(FAdd(FMul(x1, y1), FMul(x2, y3)), FMul(x3, y2))
             f2 == FAdd(FAdd(FAdd(FAdd(FMul(x1, y2), FMul(x2, y1)), FMul(x2, y3)),
                             FMul(x3, y2)), FMul(x3, y3))
             f3 == FAdd(FAdd(FAdd(FMul(x1, y3), FMul(x2, y2)), FMul(x3, y1)), FMul(x3, y3))
  <1>1. /\ x1 \in Elements /\ x2 \in Elements /\ x3 \in Elements
        /\ y1 \in Elements /\ y2 \in Elements /\ y3 \in Elements
    BY DEF Stands
  <1>2. /\ x1 \in Int /\ x2 \in Int /\ x3 \in Int /\ y1 \in Int /\ y2 \in Int /\ y3 \in Int
    BY <1>1, Modulus DEF Elements
  <1>3. Product3(<<x1, x2, x3>>, <<y1, y2, y3>>) = <<p1, p2, p3>>
    BY DEF Product3
  <1>4. /\ Stands(x1, x1) /\ Stands(x2, x2) /\ Stands(x3, x3)
        /\ Stands(y1, y1) /\ Stands(y2, y2) /\ Stands(y3, y3)
    BY <1>1, StandsSelf
  <1>5. /\ Stands(p1, x1 * y1 + x2 * y3 + x3 * y2)
        /\ Stands(p2, x1 * y2 + x2 * y1 + x2 * y3 + x3 * y2 + x3 * y3)
        /\ Stands(p3, x1 * y3 + x2 * y2 + x3 * y1 + x3 * y3)
    BY <1>2, StandsMod
  <1>6. /\ Stands(f1, x1 * y1 + x2 * y3 + x3 * y2)
        /\ Stands(f2, x1 * y2 + x2 * y1 + x2 * y3 + x3 * y2 + x3 * y3)
        /\ Stands(f3, x1 * y3 + x2 * y2 + x3 * y1 + x3 * y3)
    BY <1>4, StandsProduct, StandsSum
  <1>7. /\ Stands(f1, u1 * v1 + u2 * v3 + u3 * v2)
        /\ Stands(f2, u1 * v2 + u2 * v1 + u2 * v3 + u3 * v2 + u3 * v3)
        /\ Stands(f3, u1 * v3 + u2 * v2 + u3 * v1 + u3 * v3)
    BY StandsProduct, StandsSum
  <1> HIDE DEF p1, p2, p3, f1, f2, f3
  <1>8. p1 = f1 /\ p2 = f2 /\ p3 = f3
    BY <1>5, <1>6, StandsEqual
  <1> QED
    BY <1>3, <1>7, <1>8

(* So the extension is a commutative ring with One3.                        *)
LEMMA ProductType ==
  ASSUME NEW a \in Cubic, NEW b \in Cubic
  PROVE  Product3(a, b) \in Cubic
  <1>1. PICK a1 \in Elements, a2 \in Elements, a3 \in Elements : a = <<a1, a2, a3>>
    BY DEF Cubic
  <1>2. PICK b1 \in Elements, b2 \in Elements, b3 \in Elements : b = <<b1, b2, b3>>
    BY DEF Cubic
  <1>3. /\ Stands(a1, a1) /\ Stands(a2, a2) /\ Stands(a3, a3)
        /\ Stands(b1, b1) /\ Stands(b2, b2) /\ Stands(b3, b3)
    BY StandsSelf
  <1>4. PICK p1, p2, p3 :
          /\ Product3(<<a1, a2, a3>>, <<b1, b2, b3>>) = <<p1, p2, p3>>
          /\ Stands(p1, a1 * b1 + a2 * b3 + a3 * b2)
          /\ Stands(p2, a1 * b2 + a2 * b1 + a2 * b3 + a3 * b2 + a3 * b3)
          /\ Stands(p3, a1 * b3 + a2 * b2 + a3 * b1 + a3 * b3)
    BY ONLY <1>3, ProductStands
  <1> QED
    BY <1>1, <1>2, <1>4 DEF Stands, Cubic

LEMMA ProductCommutes ==
  ASSUME NEW a \in Cubic, NEW b \in Cubic
  PROVE  Product3(a, b) = Product3(b, a)
  <1>1. PICK a1 \in Elements, a2 \in Elements, a3 \in Elements : a = <<a1, a2, a3>>
    BY DEF Cubic
  <1>2. PICK b1 \in Elements, b2 \in Elements, b3 \in Elements : b = <<b1, b2, b3>>
    BY DEF Cubic
  <1>3. /\ a1 \in Int /\ a2 \in Int /\ a3 \in Int /\ b1 \in Int /\ b2 \in Int /\ b3 \in Int
    BY Modulus DEF Elements
  <1>4. /\ a1 * b1 + a2 * b3 + a3 * b2 = b1 * a1 + b2 * a3 + b3 * a2
        /\ a1 * b2 + a2 * b1 + a2 * b3 + a3 * b2 + a3 * b3
             = b1 * a2 + b2 * a1 + b2 * a3 + b3 * a2 + b3 * a3
        /\ a1 * b3 + a2 * b2 + a3 * b1 + a3 * b3 = b1 * a3 + b2 * a2 + b3 * a1 + b3 * a3
    BY <1>3
  <1> QED
    BY <1>1, <1>2, <1>4 DEF Product3

LEMMA ProductAssociates ==
  ASSUME NEW a \in Cubic, NEW b \in Cubic, NEW c \in Cubic
  PROVE  Product3(Product3(a, b), c) = Product3(a, Product3(b, c))
  <1>1. PICK a1 \in Elements, a2 \in Elements, a3 \in Elements : a = <<a1, a2, a3>>
    BY DEF Cubic
  <1>2. PICK b1 \in Elements, b2 \in Elements, b3 \in Elements : b = <<b1, b2, b3>>
    BY DEF Cubic
  <1>3. PICK c1 \in Elements, c2 \in Elements, c3 \in Elements : c = <<c1, c2, c3>>
    BY DEF Cubic
  <1>4. /\ a1 \in Int /\ a2 \in Int /\ a3 \in Int /\ b1 \in Int /\ b2 \in Int /\ b3 \in Int
        /\ c1 \in Int /\ c2 \in Int /\ c3 \in Int
    BY Modulus DEF Elements
  <1>5. /\ Stands(a1, a1) /\ Stands(a2, a2) /\ Stands(a3, a3)
        /\ Stands(b1, b1) /\ Stands(b2, b2) /\ Stands(b3, b3)
        /\ Stands(c1, c1) /\ Stands(c2, c2) /\ Stands(c3, c3)
    BY StandsSelf
  <1> DEFINE u1 == a1 * b1 + a2 * b3 + a3 * b2
             u2 == a1 * b2 + a2 * b1 + a2 * b3 + a3 * b2 + a3 * b3
             u3 == a1 * b3 + a2 * b2 + a3 * b1 + a3 * b3
             v1 == b1 * c1 + b2 * c3 + b3 * c2
             v2 == b1 * c2 + b2 * c1 + b2 * c3 + b3 * c2 + b3 * c3
             v3 == b1 * c3 + b2 * c2 + b3 * c1 + b3 * c3
  <1>6. PICK p1, p2, p3 :
          /\ Product3(a, b) = <<p1, p2, p3>>
          /\ Stands(p1, u1) /\ Stands(p2, u2) /\ Stands(p3, u3)
    BY <1>1, <1>2, <1>5, ProductStands
  <1>7. PICK q1, q2, q3 :
          /\ Product3(b, c) = <<q1, q2, q3>>
          /\ Stands(q1, v1) /\ Stands(q2, v2) /\ Stands(q3, v3)
    BY <1>2, <1>3, <1>5, ProductStands
  <1>8. /\ u1 * c1 + u2 * c3 + u3 * c2 = a1 * v1 + a2 * v3 + a3 * v2
        /\ u1 * c2 + u2 * c1 + u2 * c3 + u3 * c2 + u3 * c3
             = a1 * v2 + a2 * v1 + a2 * v3 + a3 * v2 + a3 * v3
        /\ u1 * c3 + u2 * c2 + u3 * c1 + u3 * c3 = a1 * v3 + a2 * v2 + a3 * v1 + a3 * v3
    BY <1>4
  <1> HIDE DEF u1, u2, u3, v1, v2, v3
  <1>9. PICK r1, r2, r3 :
          /\ Product3(<<p1, p2, p3>>, <<c1, c2, c3>>) = <<r1, r2, r3>>
          /\ Stands(r1, u1 * c1 + u2 * c3 + u3 * c2)
          /\ Stands(r2, u1 * c2 + u2 * c1 + u2 * c3 + u3 * c2 + u3 * c3)
          /\ Stands(r3, u1 * c3 + u2 * c2 + u3 * c1 + u3 * c3)
    <2>1. /\ Stands(p1, u1) /\ Stands(p2, u2) /\ Stands(p3, u3)
          /\ Stands(c1, c1) /\ Stands(c2, c2) /\ Stands(c3, c3)
      BY <1>5, <1>6
    <2> QED
      BY ONLY <2>1, ProductStands
  <1>10. PICK s1, s2, s3 :
          /\ Product3(<<a1, a2, a3>>, <<q1, q2, q3>>) = <<s1, s2, s3>>
          /\ Stands(s1, a1 * v1 + a2 * v3 + a3 * v2)
          /\ Stands(s2, a1 * v2 + a2 * v1 + a2 * v3 + a3 * v2 + a3 * v3)
          /\ Stands(s3, a1 * v3 + a2 * v2 + a3 * v1 + a3 * v3)
    <2>1. /\ Stands(a1, a1) /\ Stands(a2, a2) /\ Stands(a3, a3)
          /\ Stands(q1, v1) /\ Stands(q2, v2) /\ Stands(q3, v3)
      BY <1>5, <1>7
    <2> QED
      BY ONLY <2>1, ProductStands
  <1>11. r1 = s1 /\ r2 = s2 /\ r3 = s3
    BY <1>8, <1>9, <1>10, StandsEqual
  <1> QED
    BY <1>1, <1>3, <1>6, <1>7, <1>9, <1>10, <1>11

LEMMA ProductOne ==
  ASSUME NEW a \in Cubic
  PROVE  Product3(a, One3) = a /\ One3 \in Cubic
  <1>1. PICK a1 \in Elements, a2 \in Elements, a3 \in Elements : a = <<a1, a2, a3>>
    BY DEF Cubic
  <1>2. a1 \in Int /\ a2 \in Int /\ a3 \in Int
    BY Modulus DEF Elements
  <1>3. 0 \in Elements /\ 1 \in Elements
    BY Modulus DEF Elements
  <1>4. PICK p1, p2, p3 :
          /\ Product3(<<a1, a2, a3>>, <<1, 0, 0>>) = <<p1, p2, p3>>
          /\ Stands(p1, a1 * 1 + a2 * 0 + a3 * 0)
          /\ Stands(p2, a1 * 0 + a2 * 1 + a2 * 0 + a3 * 0 + a3 * 0)
          /\ Stands(p3, a1 * 0 + a2 * 0 + a3 * 1 + a3 * 0)
    BY <1>3, ProductStands, StandsSelf
  <1>5. /\ a1 * 1 + a2 * 0 + a3 * 0 = a1
        /\ a1 * 0 + a2 * 1 + a2 * 0 + a3 * 0 + a3 * 0 = a2
        /\ a1 * 0 + a2 * 0 + a3 * 1 + a3 * 0 = a3
    BY <1>2
  <1>6. p1 = a1 /\ p2 = a2 /\ p3 = a3
    BY <1>4, <1>5, StandsSelf, StandsEqual
  <1> QED
    BY <1>1, <1>3, <1>4, <1>6 DEF One3, Cubic

-----------------------------------------------------------------------------
Zero3 == <<0, 0, 0>>

LEMMA NormStands ==
  ASSUME NEW a \in Elements, NEW b \in Elements, NEW c \in Elements
  PROVE  Stands(Norm(a, b, c), IntNorm(a, b, c))
  <1>1. a \in Int /\ b \in Int /\ c \in Int /\ Stands(a, a) /\ Stands(b, b) /\ Stands(c, c)
    BY StandsSelf, Modulus DEF Elements
  <1> DEFINE plus == FAdd3(FAdd3(FMul3(a, b, c), FMul3(a, b, c), FMul3(a, b, c)),
                           FMul3(a, b, b), FMul3(b, c, c))
             minus == FAdd(FAdd3(FMul3(a, a, a), FMul3(a, a, c), FMul3(a, a, c)),
                           FAdd3(FMul3(a, c, c), FMul3(b, b, b), FMul3(c, c, c)))
             iplus == ((a * b * c + a * b * c) + a * b * c) + a * b * b + b * c * c
             iminus == ((a * a * a + a * a * c) + a * a * c)
                         + ((a * c * c + b * b * b) + c * c * c)
  <1>2. Stands(plus, iplus)
    BY <1>1, StandsProduct, StandsSum DEF FMul3, FAdd3
  <1>3. Stands(minus, iminus)
    BY <1>1, StandsProduct, StandsSum DEF FMul3, FAdd3
  <1>4. Norm(a, b, c) = FSub(plus, minus)
    BY DEF Norm
  <1>5. iplus - iminus = IntNorm(a, b, c)
    BY <1>1 DEF IntNorm
  <1> HIDE DEF plus, minus, iplus, iminus
  <1> QED
    BY <1>2, <1>3, <1>4, <1>5, StandsDifference

(* Goldilocks3::inv returns the inverse of every element but 0              *)
(* (goldilocks_cubic_extension.hpp 289-318).                                *)
THEOREM Inverse3Right ==
  ASSUME PrimeModulus, RootFree, NEW e \in Cubic, e # Zero3
  PROVE  Inv3(e) \in Cubic /\ Product3(e, Inv3(e)) = One3
  <1>1. PICK a \in Elements, b \in Elements, c \in Elements : e = <<a, b, c>>
    BY DEF Cubic
  <1>2. a \in Int /\ b \in Int /\ c \in Int /\ Stands(a, a) /\ Stands(b, b) /\ Stands(c, c)
    BY StandsSelf, Modulus DEF Elements
  <1> DEFINE N == Norm(a, b, c)
             t == FInv(N)
             i1 == FSub(FAdd(FMul(b, c), FMul(b, b)),
                        FAdd(FAdd3(FMul(a, a), FMul(a, c), FMul(a, c)), FMul(c, c)))
             i2 == FSub(FMul(b, a), FMul(c, c))
             i3 == FSub(FAdd(FMul(a, c), FMul(c, c)), FMul(b, b))
             j1 == (b * c + b * b) - (((a * a + a * c) + a * c) + c * c)
             j2 == b * a - c * c
             j3 == (a * c + c * c) - b * b
             n == IntNorm(a, b, c)
  <1>3. Inv3(e) = <<FMul(i1, t), FMul(i2, t), FMul(i3, t)>>
    BY <1>1 DEF Inv3
  <1>4. Stands(i1, j1) /\ Stands(i2, j2) /\ Stands(i3, j3)
    <2>1. Stands(i1, j1)
      BY <1>2, StandsProduct, StandsSum, StandsDifference DEF FAdd3
    <2>2. Stands(i2, j2)
      BY <1>2, StandsProduct, StandsDifference
    <2>3. Stands(i3, j3)
      BY <1>2, StandsProduct, StandsSum, StandsDifference
    <2> QED
      BY <2>1, <2>2, <2>3
  <1>5. /\ a * j1 + b * j3 + c * j2 = n
        /\ a * j2 + b * j1 + b * j3 + c * j2 + c * j3 = 0
        /\ a * j3 + b * j2 + c * j1 + c * j3 = 0
    BY <1>2 DEF IntNorm
  <1>6. j1 \in Int /\ j2 \in Int /\ j3 \in Int
    BY <1>2
  <1>7. Stands(N, n)
    BY NormStands
  <1> HIDE DEF N, t, i1, i2, i3, j1, j2, j3, n
  <1>8. N # 0
    <2> SUFFICES ASSUME N = 0 PROVE FALSE
      OBVIOUS
    <2>1. n \in Int /\ Same(0, n)
      BY <1>7 DEF Stands
    <2>2. Null(IntNorm(a, b, c))
      BY <2>1, SameSym DEF Null, n
    <2>3. Null(a) /\ Null(b) /\ Null(c)
      BY <1>2, <2>2, CubicNorm
    <2>4. 0 \in Elements
      BY Modulus DEF Elements
    <2>5. a = 0 /\ b = 0 /\ c = 0
      BY <2>3, <2>4, SameEqual DEF Null
    <2> QED
      BY <1>1, <2>5 DEF Zero3
  <1>9. N \in 1 .. P - 1
    BY <1>7, <1>8, Modulus DEF Stands, Elements
  <1>10. t \in Elements /\ FMul(N, t) = 1
    BY <1>9, InverseRight DEF t
  <1>11. Stands(t, t) /\ t \in Int
    BY <1>10, StandsSelf, Modulus DEF Elements
  <1>12. Stands(1, n * t)
    BY <1>7, <1>10, <1>11, StandsProduct
  <1>13. Stands(FMul(i1, t), j1 * t) /\ Stands(FMul(i2, t), j2 * t) /\ Stands(FMul(i3, t), j3 * t)
    BY <1>4, <1>11, StandsProduct
  <1>14. PICK p1, p2, p3 :
           /\ Product3(e, Inv3(e)) = <<p1, p2, p3>>
           /\ Stands(p1, a * (j1 * t) + b * (j3 * t) + c * (j2 * t))
           /\ Stands(p2, a * (j2 * t) + b * (j1 * t) + b * (j3 * t) + c * (j2 * t) + c * (j3 * t))
           /\ Stands(p3, a * (j3 * t) + b * (j2 * t) + c * (j1 * t) + c * (j3 * t))
    BY <1>1, <1>2, <1>3, <1>13, ProductStands
  <1>15. /\ a * (j1 * t) + b * (j3 * t) + c * (j2 * t) = (a * j1 + b * j3 + c * j2) * t
         /\ a * (j2 * t) + b * (j1 * t) + b * (j3 * t) + c * (j2 * t) + c * (j3 * t)
              = (a * j2 + b * j1 + b * j3 + c * j2 + c * j3) * t
         /\ a * (j3 * t) + b * (j2 * t) + c * (j1 * t) + c * (j3 * t)
              = (a * j3 + b * j2 + c * j1 + c * j3) * t
    BY <1>2, <1>6, <1>11
  <1>16. Stands(p1, n * t) /\ Stands(p2, 0) /\ Stands(p3, 0)
    <2>1. 0 * t = 0
      BY <1>11
    <2> QED
      BY <1>5, <1>14, <1>15, <2>1
  <1>17. Stands(0, 0)
    BY StandsSelf, Modulus DEF Elements
  <1>18. p1 = 1 /\ p2 = 0 /\ p3 = 0
    BY <1>12, <1>16, <1>17, StandsEqual
  <1>19. Inv3(e) \in Cubic
    BY <1>3, <1>13 DEF Stands, Cubic
  <1> QED
    BY <1>14, <1>18, <1>19 DEF One3

-----------------------------------------------------------------------------
(* Goldilocks3::mul multiplies modulo x^3 - x - 1, for every modulus        *)
(* (goldilocks_cubic_extension.hpp 232-245).                                *)
THEOREM Mul3Right ==
  ASSUME NEW a \in Cubic, NEW b \in Cubic
  PROVE  Mul3(a, b) = Product3(a, b) /\ Mul3(a, b) \in Cubic
  <1>1. PICK a1 \in Elements, a2 \in Elements, a3 \in Elements : a = <<a1, a2, a3>>
    BY DEF Cubic
  <1>2. PICK b1 \in Elements, b2 \in Elements, b3 \in Elements : b = <<b1, b2, b3>>
    BY DEF Cubic
  <1>3. Mul3(a, b) = Product3(a, b)
    BY <1>1, <1>2, MulRight3
  <1> QED
    BY <1>3, ProductType

(* The extension has no divisors of zero.                                   *)
LEMMA ProductNotZero ==
  ASSUME PrimeModulus, RootFree,
         NEW a \in Cubic, a # Zero3, NEW b \in Cubic, b # Zero3
  PROVE  Product3(a, b) # Zero3
  <1> SUFFICES ASSUME Product3(a, b) = Zero3 PROVE FALSE
    OBVIOUS
  <1>1. Inv3(b) \in Cubic /\ Product3(b, Inv3(b)) = One3
    BY Inverse3Right
  <1> DEFINE c == Inv3(b)
  <1> HIDE DEF c
  <1>2. c \in Cubic /\ Product3(b, c) = One3
    BY <1>1 DEF c
  <1>3. Product3(Product3(a, b), c) = a
    BY <1>2, ProductAssociates, ProductOne
  <1>4. PICK c1 \in Elements, c2 \in Elements, c3 \in Elements : c = <<c1, c2, c3>>
    BY <1>2 DEF Cubic
  <1>5. c1 \in Int /\ c2 \in Int /\ c3 \in Int
    BY Modulus DEF Elements
  <1>6. Product3(Zero3, c) = <<0 % P, 0 % P, 0 % P>>
    <2>1. /\ 0 * c1 + 0 * c3 + 0 * c2 = 0
          /\ 0 * c2 + 0 * c1 + 0 * c3 + 0 * c2 + 0 * c3 = 0
          /\ 0 * c3 + 0 * c2 + 0 * c1 + 0 * c3 = 0
      BY <1>5
    <2> QED
      BY <1>4, <2>1 DEF Product3, Zero3
  <1>7. 0 % P = 0
    BY Modulus
  <1> QED
    BY <1>3, <1>6, <1>7 DEF Zero3

(* The two loops of Goldilocks3::batchInverse: the products up to i, and    *)
(* the inverses of those, taken apart from the last one to the first.       *)
LEMMA ProductsExist ==
  ASSUME NEW src \in Seq(Cubic), NEW n \in Nat, n = Len(src)
  PROVE  \E f \in [1 .. n -> Cubic] :
           f = [i \in 1 .. n |-> IF i = 1 THEN src[1] ELSE Mul3(f[i - 1], src[i])]
  <1> DEFINE D == 1 .. n
             rank == [i \in D |-> i - 1]
             next == [i \in D |-> IF i = 1 THEN 1 ELSE i - 1]
             base == [i \in D |-> src[i]]
             step == [p \in D \X Cubic |-> Mul3(p[2], src[p[1]])]
  <1>1. Ranked(D, Cubic, rank, next, base, step)
    <2>1. rank \in [D -> Nat] /\ next \in [D -> D] /\ base \in [D -> Cubic]
      OBVIOUS
    <2>2. step \in [D \X Cubic -> Cubic]
      <3> SUFFICES ASSUME NEW p \in D \X Cubic PROVE Mul3(p[2], src[p[1]]) \in Cubic
        OBVIOUS
      <3> QED
        BY Mul3Right
    <2>3. \A d \in D : rank[d] # 0 => rank[next[d]] < rank[d]
      OBVIOUS
    <2> QED
      BY <2>1, <2>2, <2>3 DEF Ranked
  <1> HIDE DEF D, rank, next, base, step
  <1>2. PICK f \in [D -> Cubic] :
          \A d \in D : f[d] = IF rank[d] = 0 THEN base[d] ELSE step[<<d, f[next[d]]>>]
    BY <1>1, Recursion
  <1>3. ASSUME NEW i \in D
        PROVE  f[i] = IF i = 1 THEN src[1] ELSE Mul3(f[i - 1], src[i])
    <2>1. CASE i = 1
      <3>1. rank[i] = 0 /\ base[i] = src[1]
        BY <2>1 DEF rank, base
      <3> QED
        BY <1>2, <2>1, <3>1
    <2>2. CASE i # 1
      <3>1. rank[i] # 0 /\ next[i] = i - 1 /\ i - 1 \in D
        BY <2>2 DEF D, rank, next
      <3>2. f[i] = step[<<i, f[i - 1]>>] /\ f[i - 1] \in Cubic
        BY <1>2, <3>1
      <3> QED
        BY <2>2, <3>2 DEF D, step
    <2> QED
      BY <2>1, <2>2
  <1>4. f = [i \in 1 .. n |-> IF i = 1 THEN src[1] ELSE Mul3(f[i - 1], src[i])]
    BY <1>3 DEF D
  <1> QED
    BY <1>4 DEF D

LEMMA InversesExist ==
  ASSUME NEW src \in Seq(Cubic), NEW n \in Nat, n = Len(src), NEW last \in Cubic
  PROVE  \E f \in [1 .. n -> Cubic] :
           f = [i \in 1 .. n |-> IF i = n THEN last ELSE Mul3(f[i + 1], src[i + 1])]
  <1> DEFINE D == 1 .. n
             rank == [i \in D |-> n - i]
             next == [i \in D |-> IF i = n THEN n ELSE i + 1]
             base == [i \in D |-> last]
             step == [p \in D \X Cubic |-> IF p[1] = n THEN last ELSE Mul3(p[2], src[p[1] + 1])]
  <1>1. Ranked(D, Cubic, rank, next, base, step)
    <2>1. rank \in [D -> Nat] /\ next \in [D -> D] /\ base \in [D -> Cubic]
      OBVIOUS
    <2>2. step \in [D \X Cubic -> Cubic]
      <3> SUFFICES ASSUME NEW p \in D \X Cubic, p[1] # n
                   PROVE  Mul3(p[2], src[p[1] + 1]) \in Cubic
        OBVIOUS
      <3>1. p[1] + 1 \in 1 .. n /\ p[2] \in Cubic
        OBVIOUS
      <3>2. src[p[1] + 1] \in Cubic
        BY <3>1
      <3> QED
        BY <3>1, <3>2, Mul3Right
    <2>3. \A d \in D : rank[d] # 0 => rank[next[d]] < rank[d]
      OBVIOUS
    <2> QED
      BY <2>1, <2>2, <2>3 DEF Ranked
  <1> HIDE DEF D, rank, next, base, step
  <1>2. PICK f \in [D -> Cubic] :
          \A d \in D : f[d] = IF rank[d] = 0 THEN base[d] ELSE step[<<d, f[next[d]]>>]
    BY <1>1, Recursion
  <1>3. ASSUME NEW i \in D
        PROVE  f[i] = IF i = n THEN last ELSE Mul3(f[i + 1], src[i + 1])
    <2>1. CASE i = n
      <3>1. rank[i] = 0 /\ base[i] = last
        BY <2>1 DEF rank, base
      <3> QED
        BY <1>2, <2>1, <3>1
    <2>2. CASE i # n
      <3>1. rank[i] # 0 /\ next[i] = i + 1 /\ i + 1 \in D
        BY <2>2 DEF D, rank, next
      <3>2. f[i] = step[<<i, f[i + 1]>>] /\ f[i + 1] \in Cubic
        BY <1>2, <3>1
      <3> QED
        BY <2>2, <3>2 DEF D, step
    <2> QED
      BY <2>1, <2>2
  <1>4. f = [i \in 1 .. n |-> IF i = n THEN last ELSE Mul3(f[i + 1], src[i + 1])]
    BY <1>3 DEF D
  <1> QED
    BY <1>4 DEF D

(* Goldilocks3::batchInverse returns the inverse of each of its elements,   *)
(* whatever their number, if none of them is 0: for each i the two loops    *)
(* keep tmp[i] * z[i] = 1 (goldilocks_cubic_extension.hpp 320-342).         *)
THEOREM BatchInverseRight ==
  ASSUME PrimeModulus, RootFree, NEW src \in Seq(Cubic \ {Zero3}), NEW j \in 1 .. Len(src)
  PROVE  /\ BatchInverse(src)[j] \in Cubic
         /\ Product3(src[j], BatchInverse(src)[j]) = One3
  <1> DEFINE n == Len(src)
             tmp == CHOOSE tmp : tmp = [i \in 1 .. n |-> IF i = 1 THEN src[1] ELSE Mul3(tmp[i - 1], src[i])]
             z == CHOOSE z : z = [i \in 1 .. n |-> IF i = n THEN Inv3(tmp[n]) ELSE Mul3(z[i + 1], src[i + 1])]
  <1>1. BatchInverse(src) = [i \in 1 .. n |-> IF i = 1 THEN z[1] ELSE Mul3(z[i], tmp[i - 1])]
    BY DEF BatchInverse
  <1>2. /\ n \in Nat /\ n = Len(src) /\ n >= 1 /\ src \in Seq(Cubic)
        /\ \A i \in 1 .. n : src[i] \in Cubic /\ src[i] # Zero3
    OBVIOUS
  <1>3. /\ tmp = [i \in 1 .. n |-> IF i = 1 THEN src[1] ELSE Mul3(tmp[i - 1], src[i])]
    <2>1. \E f : f = [i \in 1 .. n |-> IF i = 1 THEN src[1] ELSE Mul3(f[i - 1], src[i])]
      BY <1>2, ProductsExist
    <2> QED
      BY <2>1, Zenon
  <1> HIDE DEF tmp
  <1>4. /\ tmp[1] = src[1]
        /\ \A i \in 1 .. n : i # 1 => tmp[i] = Mul3(tmp[i - 1], src[i])
    BY <1>2, <1>3
  <1>5. \A i \in 1 .. n : tmp[i] \in Cubic /\ tmp[i] # Zero3
    <2> DEFINE S == {k \in Nat : \A i \in 1 .. n : i <= k + 1 => tmp[i] \in Cubic /\ tmp[i] # Zero3}
    <2>1. 0 \in S
      BY <1>2, <1>4
    <2>2. ASSUME NEW k \in Nat, k \in S, NEW i \in 1 .. n, i = k + 2
          PROVE  tmp[i] \in Cubic /\ tmp[i] # Zero3
      <3>1. i # 1 /\ i - 1 \in 1 .. n /\ i - 1 <= k + 1
        BY <2>2
      <3>2. tmp[i - 1] \in Cubic /\ tmp[i - 1] # Zero3
        BY <2>2, <3>1
      <3>3. tmp[i] = Product3(tmp[i - 1], src[i]) /\ tmp[i] \in Cubic
        BY <1>2, <1>4, <3>1, <3>2, Mul3Right
      <3> QED
        BY <1>2, <3>2, <3>3, ProductNotZero
    <2>3. \A k \in Nat : k \in S => k + 1 \in S
      BY <2>2
    <2> HIDE DEF S
    <2>4. Nat \subseteq S
      BY <2>1, <2>3, Induct
    <2> SUFFICES ASSUME NEW i \in 1 .. n PROVE tmp[i] \in Cubic /\ tmp[i] # Zero3
      OBVIOUS
    <2>5. i - 1 \in Nat /\ i <= (i - 1) + 1
      BY <1>2
    <2>6. i - 1 \in S
      BY <2>4, <2>5
    <2> QED
      BY <2>5, <2>6 DEF S
  <1>6. Inv3(tmp[n]) \in Cubic /\ Product3(tmp[n], Inv3(tmp[n])) = One3
    BY <1>2, <1>5, Inverse3Right
  <1>7. z = [i \in 1 .. n |-> IF i = n THEN Inv3(tmp[n]) ELSE Mul3(z[i + 1], src[i + 1])]
    <2>1. \E f : f = [i \in 1 .. n |-> IF i = n THEN Inv3(tmp[n]) ELSE Mul3(f[i + 1], src[i + 1])]
      <3> DEFINE last == Inv3(tmp[n])
      <3>1. last \in Cubic
        BY <1>6
      <3> HIDE DEF last
      <3>2. \E f \in [1 .. n -> Cubic] :
              f = [i \in 1 .. n |-> IF i = n THEN last ELSE Mul3(f[i + 1], src[i + 1])]
        BY <1>2, <3>1, InversesExist
      <3> QED
        BY <3>2, Zenon DEF last
    <2> QED
      BY <2>1, Zenon
  <1> HIDE DEF z
  <1>8. /\ z[n] = Inv3(tmp[n])
        /\ \A i \in 1 .. n : i # n => z[i] = Mul3(z[i + 1], src[i + 1])
    BY <1>2, <1>7
  <1>9. \A i \in 1 .. n : z[i] \in Cubic /\ Product3(tmp[i], z[i]) = One3
    <2> DEFINE S == {k \in Nat : \A i \in 1 .. n : n - i <= k =>
                       z[i] \in Cubic /\ Product3(tmp[i], z[i]) = One3}
    <2>1. 0 \in S
      BY <1>2, <1>6, <1>8
    <2>2. ASSUME NEW k \in Nat, k \in S, NEW i \in 1 .. n, n - i = k + 1
          PROVE  z[i] \in Cubic /\ Product3(tmp[i], z[i]) = One3
      <3>1. /\ i # n /\ i + 1 \in 1 .. n /\ n - (i + 1) <= k
            /\ i + 1 # 1 /\ (i + 1) - 1 = i
        BY <1>2, <2>2
      <3> DEFINE s == src[i + 1]
                 u == z[i + 1]
                 t == tmp[i]
      <3>2. /\ s \in Cubic /\ u \in Cubic /\ t \in Cubic
            /\ Product3(tmp[i + 1], u) = One3
        BY <1>2, <1>5, <2>2, <3>1
      <3>3. tmp[i + 1] = Product3(t, s)
        BY <1>4, <3>1, <3>2, Mul3Right
      <3>4. z[i] = Product3(u, s) /\ z[i] \in Cubic
        BY <1>8, <3>1, <3>2, Mul3Right
      <3> HIDE DEF s, u, t
      <3>5. Product3(t, Product3(u, s)) = Product3(Product3(t, s), u)
        BY <3>2, ProductCommutes, ProductAssociates
      <3> QED
        BY <3>2, <3>3, <3>4, <3>5 DEF t
    <2>3. ASSUME NEW k \in Nat, k \in S PROVE k + 1 \in S
      <3> SUFFICES ASSUME NEW i \in 1 .. n, n - i <= k + 1
                   PROVE  z[i] \in Cubic /\ Product3(tmp[i], z[i]) = One3
        OBVIOUS
      <3>1. n - i <= k \/ n - i = k + 1
        BY <1>2
      <3> QED
        BY <2>2, <2>3, <3>1
    <2> HIDE DEF S
    <2>4. Nat \subseteq S
      BY <2>1, <2>3, Induct
    <2> QED
      BY <1>2, <2>4 DEF S
  <1>10. CASE j = 1
    BY <1>1, <1>2, <1>4, <1>9, <1>10
  <1>11. CASE j # 1
    <2> DEFINE s == src[j]
               u == z[j]
               t == tmp[j - 1]
    <2>1. j - 1 \in 1 .. n /\ j \in 1 .. n
      BY <1>2, <1>11
    <2>2. s \in Cubic /\ u \in Cubic /\ t \in Cubic
      BY <1>2, <1>5, <1>9, <2>1
    <2>3. tmp[j] = Product3(t, s) /\ Product3(tmp[j], u) = One3
      BY <1>4, <1>9, <1>11, <2>1, <2>2, Mul3Right
    <2>4. BatchInverse(src)[j] = Product3(u, t) /\ BatchInverse(src)[j] \in Cubic
      BY <1>1, <1>11, <2>1, <2>2, Mul3Right
    <2> HIDE DEF s, u, t
    <2>5. Product3(s, Product3(u, t)) = Product3(Product3(t, s), u)
      BY <2>2, ProductCommutes, ProductAssociates
    <2> QED
      BY <2>3, <2>4, <2>5 DEF s
  <1> QED
    BY <1>10, <1>11

=============================================================================
