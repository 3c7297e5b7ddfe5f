--------------------------- MODULE NttGoldilocks ---------------------------
(***************************************************************************)
(* The number theoretic transform of ntt_goldilocks.cpp, on one column     *)
(* (the columns of a block do not meet).  An array is a function on        *)
(* 0 .. size - 1.  The passes alternate between the destination and an     *)
(* auxiliary buffer, and each pass does several levels of butterflies on   *)
(* batches of consecutive rows, then spreads the batch.                    *)
(***************************************************************************)
EXTENDS GoldilocksField, SequencesExt

Log2(n) == CHOOSE k \in 0 .. n : 2 ^ k = n

RECURSIVE BR(_, _)
BR(x, domainPow) ==
  IF domainPow = 0 THEN 0
  ELSE (x % 2) * 2 ^ (domainPow - 1) + BR(x \div 2, domainPow - 1)

(* A transform object made for maxDomain rows: the roots are the powers    *)
(* of W(s), and root(d, i) is roots[i << (s - d)].                         *)
Order(maxDomain) == IF maxDomain = 1 THEN 1 ELSE Log2(maxDomain)
Root(s, domainLog, idx) == FExp(W(s), idx * 2 ^ (s - domainLog))
PowTwoInv(i) == FExp(FInv(2), i)

(* computeR: r_[i] = shift^i / 2^domainPow.                                *)
R(domainPow, i) == FMul(FExp(Shift, i), PowTwoInv(domainPow))

Phases(nphase, domainPow) ==
  CASE nphase < 1 \/ domainPow = 0 -> 1
    [] nphase > domainPow          -> domainPow
    [] OTHER                       -> nphase

(* The levels done by each pass: the first res passes do one more.         *)
RECURSIVE PassesFrom(_, _, _, _, _)
PassesFrom(first, count, batch, res, domainPow) ==
  IF first > domainPow THEN <<>>
  ELSE LET pow == IF res > 0 /\ count = res + 1 /\ batch > 1 THEN batch - 1 ELSE batch
           inc == IF first + pow <= domainPow THEN pow ELSE domainPow - first + 1
       IN <<[first |-> first, inc |-> inc, last |-> first + pow > domainPow]>>
            \o PassesFrom(first + pow, count + 1, pow, res, domainPow)

Passes(s, nphase, domainPow) ==
  PassesFrom(1, 1, s \div nphase + (IF s % nphase > 0 THEN 1 ELSE 0), s % nphase, domainPow)

(* Where a transform puts its result: apart from its data, or in their     *)
(* array.  There the rows are permuted by parallel threads; first is the   *)
(* row whose turn comes first, 0 when one thread takes them in order.      *)
Apart == [onSite |-> FALSE, first |-> 0]
OnSite(first) == [onSite |-> TRUE, first |-> first]

ReverseApart(src, n, extension) ==
  [i \in 0 .. n - 1 |->
     LET r == BR(i, Log2(n)) IN IF r < n \div extension THEN src[r] ELSE 0]

(* The rows swap in pairs, each pair once; but those of an extension swap  *)
(* whenever their turn comes, with rows that may have been zeroed.         *)
ReverseOnSite(src, n, extension, first) ==
  LET Turn(a, i) ==
        LET r == BR(i, Log2(n))
            kept == r < n \div extension
        IN CASE ~kept                            -> [a EXCEPT ![i] = 0]
             [] kept /\ (extension > 1 \/ r < i) -> [a EXCEPT ![i] = a[r], ![r] = a[i]]
             [] OTHER                            -> a
  IN FoldLeft(Turn, src, [k \in 1 .. n |-> (first + k - 1) % n])

ReversePermutation(src, n, extension, place) ==
  IF place.onSite THEN ReverseOnSite(src, n, extension, place.first)
                  ELSE ReverseApart(src, n, extension)

(* Level si of the pass: the two halves of a block of 2^(si + 1) rows.     *)
Butterflies(a, n, s, pass, si) ==
  LET domainPow == Log2(n)
      batchSize == 2 ^ pass.inc
      half == 2 ^ si
      rest == domainPow - pass.first
      idx(b, i) ==
        LET j == b * (batchSize \div 2) + i
        IN ((j % 2 ^ rest) * 2 ^ (pass.first - 1) + j \div 2 ^ rest)
             % 2 ^ (pass.first + si - 1)
  IN [p \in 0 .. n - 1 |->
        LET b  == p \div batchSize
            k  == (p % batchSize) \div (2 * half)
            ji == p % half
            lo == b * batchSize + k * 2 * half + ji
            t  == FMul(Root(s, pass.first + si, idx(b, k * half + ji)), a[lo + half])
        IN IF p = lo THEN FAdd(t, a[lo]) ELSE FSub(a[lo], t)]

RECURSIVE Levels(_, _, _, _, _)
Levels(a, n, s, pass, si) ==
  IF si = pass.inc THEN a
                   ELSE Levels(Butterflies(a, n, s, pass, si), n, s, pass, si + 1)

(* Mutant of Spread: every pass of an inverse transform turns around.      *)
SpreadTurning(a, n, pass, inverse, extend) ==
  LET batchSize == 2 ^ pass.inc
      nBatches  == n \div batchSize
      from(t) == a[(t % nBatches) * batchSize + t \div nBatches]
  IN [q \in 0 .. n - 1 |->
        IF inverse
        THEN FMul(from((n - q) % n), IF extend THEN R(Log2(n), q) ELSE PowTwoInv(Log2(n)))
        ELSE from(q)]

(* intt_idx turns the last pass of an inverse transform around.            *)
Spread(a, n, pass, inverse, extend) ==
  LET batchSize == 2 ^ pass.inc
      nBatches  == n \div batchSize
      from(t) == a[(t % nBatches) * batchSize + t \div nBatches]
  IN [q \in 0 .. n - 1 |->
        IF pass.last /\ inverse
        THEN FMul(from((n - q) % n), IF extend THEN R(Log2(n), q) ELSE PowTwoInv(Log2(n)))
        ELSE from(q)]

RECURSIVE RunPasses(_, _, _, _, _, _)
RunPasses(a, n, s, passes, inverse, extend) ==
  IF passes = <<>> THEN a
  ELSE RunPasses(Spread(Levels(a, n, s, Head(passes), 0), n, Head(passes), inverse, extend),
                 n, s, Tail(passes), inverse, extend)

(* NTT_iters.  The data start in the buffer that lets them end in the      *)
(* destination after nphase passes, the auxiliary one when these are odd;  *)
(* assert(0) if they do not.                                               *)
NTTIters(src, n, s, nphase, inverse, extend, extension, place) ==
  LET phases == Phases(nphase, Log2(n))
      passes == Passes(s, phases, Log2(n))
      start  == IF phases % 2 = 1 THEN Apart ELSE place
  IN IF n > 1 /\ Len(passes) % 2 # phases % 2 THEN "assert(0)"
     ELSE RunPasses(ReversePermutation(src, n, extension, start), n, s, passes, inverse, extend)

NumPhases == 3

NTT(src, n, place)  == NTTIters(src, n, Order(n), NumPhases, FALSE, FALSE, 1, place)
INTT(src, n, place) == NTTIters(src, n, Order(n), NumPhases, TRUE, FALSE, 1, place)

(* LDE: the coefficients on the shifted domain, written to the first rows  *)
(* of the output, are transformed there as those of a polynomial of        *)
(* nExtended coefficients; stale is what the other rows held.              *)
LDEPhases(input, n, nExtended, nphase, first, stale) ==
  LET coefs  == NTTIters(input, n, Order(n), nphase, TRUE, TRUE, 1, Apart)
      output == [i \in 0 .. nExtended - 1 |-> IF i < n THEN coefs[i] ELSE stale]
  IN NTTIters(output, nExtended, Order(nExtended), nphase, FALSE, FALSE, nExtended \div n,
              OnSite(first))

LDE(input, n, nExtended) == LDEPhases(input, n, nExtended, NumPhases, 0, 0)
=============================================================================
