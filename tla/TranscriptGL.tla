---------------------------- MODULE TranscriptGL ----------------------------
(***************************************************************************)
(* The Fiat-Shamir transcript: words wait in pending, an update permutes   *)
(* them with the state, and the words of the output are handed out one     *)
(* after another until something is absorbed again.  As in MerkleTreeGL a  *)
(* digest, a challenge and a public input are one word each.               *)
(***************************************************************************)
EXTENDS Naturals, Sequences, MerkleTreeGL

NewTranscript(arity) ==
  [arity |-> arity, pending |-> <<>>, state |-> Zero, out |-> <<>>, outCursor |-> 0]

PendingSize(t) == t.arity - 1
OutSize(t) == t.arity

UpdateState(t) ==
  LET perm == Permute("sponge", Append(t.pending \o Zeros(PendingSize(t) - Len(t.pending)),
                                       t.state))
      out == [i \in 1 .. OutSize(t) |-> <<"out", i, perm>>]
  IN [t EXCEPT !.pending = <<>>, !.state = out[1], !.out = out, !.outCursor = OutSize(t)]

Add1(t, word) ==
  LET u == [t EXCEPT !.pending = Append(@, word), !.outCursor = 0]
  IN IF Len(u.pending) = PendingSize(u) THEN UpdateState(u) ELSE u

Put(t, words) == FoldLeft(Add1, t, words)

GetState(t) == IF t.pending # <<>> THEN UpdateState(t).state ELSE t.state

(* getFields1: the word handed out, and the transcript it leaves.          *)
GetFields1(t) ==
  LET u == IF t.outCursor = 0 THEN UpdateState(t) ELSE t
  IN [word |-> u.out[1 + ((OutSize(u) - u.outCursor) % OutSize(u))],
      next |-> [u EXCEPT !.outCursor = @ - 1]]

RECURSIVE GetFields(_, _)
GetFields(t, n) ==
  IF n = 0 THEN <<>>
           ELSE LET f == GetFields1(t) IN <<f.word>> \o GetFields(f.next, n - 1)

CalculateHash(words, arity) == GetState(Put(NewTranscript(arity), words))

(* getPermutations: n indices of nBits bits from fields of fieldBits       *)
(* usable bits each (63 in the source).                                    *)
NFields(n, nBits, fieldBits) == (n * nBits - 1) \div fieldBits + 1

RECURSIVE IndexFrom(_, _, _, _, _)
(* Mutant of IndexFrom: one bit too many is taken from a field.            *)
IndexFromWhole(fields, fieldBits, curField, curBit, nBits) ==
  IF nBits = 0 THEN 0
  ELSE LET wraps == curBit = fieldBits
       IN ((fields[curField] \div 2 ^ curBit) % 2)
            + 2 * IndexFrom(fields, fieldBits, IF wraps THEN curField + 1 ELSE curField,
                            IF wraps THEN 0 ELSE curBit + 1, nBits - 1)

IndexFrom(fields, fieldBits, curField, curBit, nBits) ==
  IF nBits = 0 THEN 0
  ELSE LET wraps == curBit + 1 = fieldBits
       IN ((fields[curField] \div 2 ^ curBit) % 2)
            + 2 * IndexFrom(fields, fieldBits, IF wraps THEN curField + 1 ELSE curField,
                            IF wraps THEN 0 ELSE curBit + 1, nBits - 1)

GetPermutations(fields, n, nBits, fieldBits) ==
  [i \in 1 .. n |->
     LET bit == (i - 1) * nBits
     IN IndexFrom(fields, fieldBits, (bit \div fieldBits) + 1, bit % fieldBits, nBits)]
=============================================================================
