-------------------------- MODULE GoldilocksWords --------------------------
(***************************************************************************)
(* The arithmetic of a field element on machine words.  The prime of the   *)
(* source is 2^64 - 2^32 + 1; here a half word has Half values and a word  *)
(* their square, so that for a small Half every pair can be tried.         *)
(* A word is not always below the prime: the operations take and return    *)
(* any representative of an element.                                       *)
(***************************************************************************)
EXTENDS Integers

CONSTANT Half      \* 2^32 in the source

ASSUME WordsAssumption == Half \in Nat /\ Half >= 2

Word  == Half * Half
CQ    == Half - 1
Prime == Word - CQ
Representatives == 0 .. Word - 1

(* The word r stands for the element of the number v.                      *)
Represents(r, v) == r \in Representatives /\ (r - v) % Prime = 0

(* A register keeps the low bits; the carry flag says what was lost.       *)
Plus(x, y)  == (x + y) % Word
Minus(x, y) == (x + Word - y) % Word
Carry(x, y) == x + y >= Word

(* Mutant of AddAsm: the carry of the correction is lost.                  *)
AddAsmOnce(x, y) == Plus(Plus(x, y), IF Carry(x, y) THEN CQ ELSE 0)

(* add with __USE_ASSEMBLY__: two conditional corrections.                 *)
AddAsm(x, y) ==
  LET once == Plus(x, y)
      cor  == IF Carry(x, y) THEN CQ ELSE 0
      twice == Plus(once, cor)
  IN IF Carry(once, cor) THEN Plus(twice, CQ) ELSE twice

Reduce(x) == IF x >= Prime THEN x - Prime ELSE x

AddPlain(x, y) ==
  LET r == Plus(Reduce(x), y)
  IN IF Reduce(x) > r THEN Minus(r, Prime) ELSE r

SubAsm(x, y) ==
  LET once == Minus(x, y)
      cor  == IF y > x THEN CQ ELSE 0
      twice == Minus(once, cor)
  IN IF cor > once THEN Minus(twice, CQ) ELSE twice

SubPlain(x, y) ==
  IF Reduce(y) <= x THEN x - Reduce(y) ELSE Prime - (Reduce(y) - x)

Inc(x) == CASE x < Prime - 2 -> x + 1
            [] x = Prime - 1 -> 0
            [] OTHER         -> AddAsm(x, 1)

Dec(x) == IF x > 0 THEN x - 1 ELSE Prime - 1

(* The product of two words is rl + 2^64 rh, and 2^64 = 2^32 - 1 and       *)
(* 2^96 = -1 in the field.  add_no_double_carry corrects only once.        *)
AddNoDoubleCarry(x, y) == Plus(Plus(x, y), IF Carry(x, y) THEN CQ ELSE 0)

Mul(x, y, asm) ==
  LET rl  == (x * y) % Word
      rhh == (x * y) \div (Word * Half)
      rhl == ((x * y) \div Word) % Half
      aux1 == Minus(Minus(rl, rhh), IF rhh > rl THEN CQ ELSE 0)
  IN IF asm THEN AddNoDoubleCarry(aux1, CQ * rhl) ELSE AddPlain(CQ * rhl, aux1)

=============================================================================
