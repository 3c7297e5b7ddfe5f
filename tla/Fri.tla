-------------------------------- MODULE Fri --------------------------------
(***************************************************************************)
(* FRI (fri.hpp): the folding of a polynomial given by its values on a     *)
(* shifted domain, as the prover's threads compute it and as the verifier  *)
(* recomputes one point of it, and the commitment to the folded values.    *)
(***************************************************************************)
EXTENDS NttGoldilocks, TranscriptGL

(* evalPol: Horner's rule, from the last coefficient.                      *)
EvalPol(p, n, x) ==
  LET h[i \in 0 .. n - 1] ==
        IF i = n - 1 THEN p[i] ELSE FAdd(FMul(h[i + 1], x), p[i])
  IN IF n = 0 THEN 0 ELSE h[0]

PolMulAxi(p, n, acc) == [i \in 0 .. n - 1 |-> FMul(p[i], FExp(acc, i))]

(* The inverse of the shift of a domain of 2^prevBits points: the shift is *)
(* squared with every halving.                                             *)
ShiftInv(nBitsExt, prevBits) == FExp(FInv(Shift), 2 ^ (nBitsExt - prevBits))

(* Where the thread thid starts: its rows, and the inverse of its first    *)
(* point by one step for each row of the threads before it.                *)
Slice(nn, nth, thid) ==
  LET chunk == nn \div nth
      res   == nn - nth * chunk
      first == chunk * thid + (IF thid < res THEN thid ELSE res)
  IN first .. first + chunk - (IF thid < res THEN 0 ELSE 1)

(* Mutant of StartPoint: all the longer slices are counted.                *)
StartPointAllLonger(nn, nth, thid, wi, shiftInv) ==
  FMul(FMul(shiftInv, FExp(FExp(wi, nn \div nth), thid)), FExp(wi, nn % nth))

StartPoint(nn, nth, thid, wi, shiftInv) ==
  LET chunk == nn \div nth
      res   == nn - nth * chunk
      ncor  == IF thid < res THEN thid ELSE res
  IN FMul(FMul(shiftInv, FExp(FExp(wi, chunk), thid)), FExp(wi, ncor))

(* fold, for a step after the first: pol has 2^prevBits values and         *)
(* 2^currentBits are left.  Row g is folded from the values                *)
(* g, g + 2^currentBits, ...                                               *)
FoldRow(pol, g, nX, pol2N, sinv, challenge) ==
  LET ppar == [i \in 0 .. nX - 1 |-> pol[i * pol2N + g]]
  IN EvalPol(PolMulAxi(INTT(ppar, nX, Apart), nX, sinv), nX, challenge)

Fold(pol, challenge, nBitsExt, prevBits, currentBits, maxThreads) ==
  LET pol2N == 2 ^ currentBits
      nX    == 2 ^ prevBits \div pol2N
      wi    == FInv(W(prevBits))
      nth   == IF maxThreads > pol2N THEN pol2N ELSE maxThreads
      start(thid) == StartPoint(pol2N, nth, thid, wi, ShiftInv(nBitsExt, prevBits))
      thread(g) == CHOOSE t \in 0 .. nth - 1 : g \in Slice(pol2N, nth, t)
      first(t) == Min(Slice(pol2N, nth, t))
  IN [g \in 0 .. pol2N - 1 |->
        LET t == thread(g)
        IN FoldRow(pol, g, nX, pol2N, FMul(start(t), FExp(wi, g - first(t))), challenge)]

VerifyFold(vals, nBitsExt, prevBits, currentBits, challenge, idx) ==
  LET nX   == 2 ^ prevBits \div 2 ^ currentBits
      sinv == FInv(FMul(FExp(Shift, 2 ^ (nBitsExt - prevBits)), FExp(W(prevBits), idx)))
      pparC == INTT([i \in 0 .. nX - 1 |-> vals[i + 1]], nX, OnSite(0))
  IN EvalPol(pparC, nX, FMul(challenge, sinv))

(* getTransposed: the values folded into one are the row of a leaf.        *)
Transposed(pol, currentBits, nextBits) ==
  LET w == 2 ^ nextBits
      h == 2 ^ currentBits \div w
  IN [i \in 1 .. w |-> [j \in 1 .. h |-> pol[(j - 1) * w + i - 1]]]

(* The last check of starkVerify: the final polynomial has the degree the  *)
(* blow-up allows.                                                         *)
FinalPolValid(finalPol, lastBits, blowupBits) ==
  LET coefs == INTT(finalPol, 2 ^ lastBits, OnSite(0))
      init  == IF blowupBits > lastBits THEN 0 ELSE 2 ^ (lastBits - blowupBits)
  IN \A i \in init .. 2 ^ lastBits - 1 : coefs[i] = 0
=============================================================================
