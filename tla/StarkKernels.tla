---------------------------- MODULE StarkKernels ----------------------------
(***************************************************************************)
(* The algorithms under the prover, each computed once for every sample    *)
(* and compared with its definition: word arithmetic, the extension field, *)
(* transforms, foldings by several threads, and packed bits.               *)
(***************************************************************************)
EXTENDS Fri, GoldilocksWords, PackedBits

CONSTANTS
  Samples,      \* bound: the inputs to try, records with a kind
  SmallP        \* a prime for which x^3 - x - 1 is irreducible

VARIABLES
  kernel,         \* "given" a sample, or "computed"
  sample, answer
kernelVars == <<kernel, sample, answer>>

F == INSTANCE GoldilocksField WITH P <- SmallP, Shift <- 2

WordResults(x) ==
  [y \in Representatives |->
     [add |-> <<AddAsm(x, y), AddPlain(x, y)>>,
      sub |-> <<SubAsm(x, y), SubPlain(x, y)>>,
      mul |-> <<Mul(x, y, TRUE), Mul(x, y, FALSE)>>]]

Answer3(x, y) ==
  [mul |-> F!Mul3(x, y), inv |-> F!Inv3(x),
   all |-> F!BatchInverse(<<x, y, F!Mul3(x, y), F!Add3(x, y)>>)]

TransformResults(s) ==
  LET n == 2 ^ s.k
      places == <<Apart, OnSite(s.first)>>
      transform(inverse) ==
        [w \in 1 .. 2 |-> NTTIters(s.input, n, Order(n), s.nphase, inverse, FALSE, 1, places[w])]
  IN [ntt |-> transform(FALSE), intt |-> transform(TRUE),
      lde |-> LDEPhases(s.input, n, 2 * n, s.nphase, s.first, s.stale)]

Result(s) ==
  CASE s.kind = "words"     -> [all |-> WordResults(s.x), inc |-> Inc(s.x), dec |-> Dec(s.x)]
    [] s.kind = "cubic"     -> Answer3(s.x, s.y)
    [] s.kind = "transform" -> TransformResults(s)
    [] s.kind = "fold"      -> Fold(s.pol, s.challenge, s.nBitsExt, s.prev, s.cur, s.threads)
    [] s.kind = "unpack"    -> Unpack(s.packed, s.widths)
    [] s.kind = "indices"   -> GetPermutations(s.fields, s.n, s.nBits, s.fieldBits)

KernelInit == kernel = "given" /\ sample \in Samples /\ answer = "none"

Compute ==
  /\ kernel = "given" /\ kernel' = "computed"
  /\ answer' = Result(sample)
  /\ UNCHANGED sample

Computed(kind) == kernel = "computed" /\ sample.kind = kind

-----------------------------------------------------------------------------
(* Whatever representatives the words are, non-canonical ones included,    *)
(* sums, differences, products, successors and predecessors are those of   *)
(* the field, with and without the assembly; an inverse, also one of a     *)
(* batch, times the element is 1.                                          *)
FieldArithmeticRight ==
  /\ Computed("words") =>
       LET x == sample.x
       IN /\ Represents(answer.inc, x + 1) /\ Represents(answer.dec, x - 1)
          /\ \A y \in Representatives, way \in 1 .. 2 :
               LET r == answer.all[y]
               IN /\ Represents(r.add[way], x + y)
                  /\ Represents(r.sub[way], x - y)
                  /\ Represents(r.mul[way], x * y)
  /\ Computed("cubic") =>
       LET xy == F!Product3(sample.x, sample.y)
           src == <<sample.x, sample.y, xy, F!Add3(sample.x, sample.y)>>
       IN /\ answer.mul = xy
          /\ F!Product3(answer.inv, sample.x) = F!One3
          /\ \A i \in 1 .. 4 : F!Product3(answer.all[i], src[i]) = F!One3

(* For every number of phases, apart and on site, in whatever order the    *)
(* rows are permuted, the transform is the evaluation at the roots of      *)
(* unity and the inverse transform its inverse; where the number of phases *)
(* is odd, as 3 is from 8 extended rows on, the extension is the           *)
(* evaluation on the shifted domain of the interpolated polynomial,        *)
(* whatever the output held (an even number is the run lde_on_site).       *)
At(coefs, n, x) == FSum([i \in 1 .. n |-> FMul(coefs[i - 1], FExp(x, i - 1))])

Values(coefs, k) == [i \in 0 .. 2 ^ k - 1 |-> At(coefs, 2 ^ k, FExp(W(k), i))]

Extended(coefs, k) ==
  [i \in 0 .. 2 ^ (k + 1) - 1 |-> At(coefs, 2 ^ k, FMul(Shift, FExp(W(k + 1), i)))]

TransformsRight ==
  Computed("transform") =>
    LET k == sample.k
    IN /\ \A w \in 1 .. 2 : /\ answer.ntt[w] = Values(sample.input, k)
                           /\ Values(answer.intt[w], k) = sample.input
       /\ Phases(sample.nphase, k + 1) % 2 = 1 => answer.lde = Extended(answer.intt[1], k)

(* What the test of LDE says of it (test_ntt_cpu.cpp:444): its output are  *)
(* the evaluations of the polynomial at the coset, however many phases the *)
(* number of extended rows leaves of the default.  The test has 5 to 8     *)
(* levels, so 3 phases.                                                    *)
ExtensionRight ==
  Computed("transform") => answer.lde = Extended(answer.intt[1], sample.k)

(* However the rows are shared out among threads, a folded value is the    *)
(* value at the challenge of the polynomial through the folded points, and *)
(* the verifier computes the same from an opened leaf.                     *)
Lagrange(xs, ys, x) ==
  LET idx == DOMAIN xs
      term(i) == FoldFunction(FMul, ys[i],
                   [j \in idx \ {i} |-> FMul(FSub(x, xs[j]), FInv(FSub(xs[i], xs[j])))])
  IN FSum([i \in idx |-> term(i)])

FoldingRight ==
  Computed("fold") =>
    LET s  == sample
        nX == 2 ^ (s.prev - s.cur)
        shift == FExp(Shift, 2 ^ (s.nBitsExt - s.prev))
        rows(g) == [i \in 1 .. nX |-> g + (i - 1) * 2 ^ s.cur]
        xs(g) == [i \in 1 .. nX |-> FMul(shift, FExp(W(s.prev), rows(g)[i]))]
        ys(g) == [i \in 1 .. nX |-> s.pol[rows(g)[i]]]
        leaf == Transposed(s.pol, s.prev, s.cur)
    IN \A g \in 0 .. 2 ^ s.cur - 1 :
         /\ answer[g] = Lagrange(xs(g), ys(g), s.challenge)
         /\ answer[g] = VerifyFold(leaf[g + 1], s.nBitsExt, s.prev, s.cur, s.challenge, g)

(* Columns packed one after another, low bits first, are read back across  *)
(* word boundaries, and query indices are the consecutive bits of the      *)
(* usable parts of the fields.                                             *)
Stream(parts, bits) == FoldRight(LAMBDA part, acc : (part % 2 ^ bits) + acc * 2 ^ bits, parts, 0)

BitsOf(stream, from, n) == (stream \div 2 ^ from) % 2 ^ n

PackedBitsRight ==
  /\ Computed("unpack") =>
       LET start[c \in 1 .. Len(sample.widths)] ==
             IF c = 1 THEN 0 ELSE start[c - 1] + sample.widths[c - 1]
       IN \A c \in DOMAIN sample.widths :
            answer[c] = BitsOf(Stream(sample.packed, Bits), start[c], sample.widths[c])
  /\ Computed("indices") =>
       \A i \in 1 .. sample.n :
         answer[i] = BitsOf(Stream(sample.fields, sample.fieldBits),
                            (i - 1) * sample.nBits, sample.nBits)
=============================================================================
