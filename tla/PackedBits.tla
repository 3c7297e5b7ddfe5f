----------------------------- MODULE PackedBits -----------------------------
(***************************************************************************)
(* unpack_cpu: a row of columns of given widths, read from words of Bits   *)
(* bits.  A column may straddle two words.                                 *)
(***************************************************************************)
EXTENDS Naturals, Sequences

CONSTANT Bits   \* 64 in the source

ASSUME BitsAssumption == Bits \in Nat \ {0}

RECURSIVE UnpackFrom(_, _, _, _)
UnpackFrom(packed, widths, at, offset) ==
  IF widths = <<>> THEN <<>>
  ELSE LET nbits == Head(widths)
           left  == Bits - offset
           low   == packed[at] \div 2 ^ offset
           ends  == offset + nbits = Bits /\ at < Len(packed)
       IN IF nbits <= left
          THEN <<low % 2 ^ nbits>>
                 \o UnpackFrom(packed, Tail(widths), IF ends THEN at + 1 ELSE at,
                               IF ends THEN 0 ELSE offset + nbits)
          ELSE <<(packed[at + 1] % 2 ^ (nbits - left)) * 2 ^ left + low>>
                 \o UnpackFrom(packed, Tail(widths), at + 1, nbits - left)

Unpack(packed, widths) == UnpackFrom(packed, widths, 1, 0)
=============================================================================
