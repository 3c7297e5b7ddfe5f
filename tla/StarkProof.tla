----------------------------- MODULE StarkProof -----------------------------
(***************************************************************************)
(* genProof and starkVerify on one small AIR: the prover commits, draws    *)
(* challenges and folds step by step, the proof may be altered on its way, *)
(* and the verifier recomputes the challenges and checks it.               *)
(*                                                                         *)
(* The transcript is a random oracle: the value behind a word of its       *)
(* output is drawn when the prover asks first, and the verifier gets the   *)
(* same value for the same word.  The extension of the field is the field. *)
(*                                                                         *)
(* The AIR has a fixed column L1 (1 in the first row), the witness a and   *)
(* b, the accumulated product z of (a + gamma) / (b + gamma), whose last   *)
(* value times pub + gamma is the airgroup value, and a(0) = pub.          *)
(***************************************************************************)
EXTENDS Fri

CONSTANTS
  Configs,     \* the stark structures to try
  Statements,  \* the traces and public inputs to try
  Draws,       \* bound: the values each challenge may take
  QueryFields, \* bound: the fields the indices may be taken from
  NBits, NBitsExt, QDeg,
  FieldBits,   \* bits of a field used for indices, 63 in the source
  MaxThreads   \* omp_get_max_threads

(* recursive: a proof on its own, not part of a global challenge.          *)
ASSUME ConfigsAssumption ==
  \A c \in Configs : /\ c.arity \in 2 .. 4 /\ c.llv \in Nat
                     /\ c.steps[1] = NBitsExt
                     /\ {c.hashCommits, c.recursive} \subseteq BOOLEAN

VARIABLES
  cfg, stmt,   \* starkInfo, and the trace with its public input
  pc,          \* the stage of genProof
  transcript,
  chal,        \* params.challenges, by name
  trees, friTrees,  \* treesGL by section, and treesFRI
  evals, airgroupValue,
  friPol,
  step,        \* of the folding loop
  oracle,      \* the draws so far: pairs of a word and a value
  proof, altered, verdict

vars == <<cfg, stmt, pc, transcript, chal, trees, friTrees, evals, airgroupValue,
          friPol, step, oracle, proof, altered, verdict>>

N    == 2 ^ NBits
NExt == 2 ^ NBitsExt
NQueries == NExt   \* every index is asked for

-----------------------------------------------------------------------------
(* starkInfo of the AIR.                                                   *)
Openings == <<-1, 0, 1>>
Sections == [const |-> <<"L1">>, cm1 |-> <<"a", "b">>, cm2 |-> <<"z">>, cm3 |-> <<"q0", "q1">>]
TreesGL  == <<"cm1", "cm2", "cm3", "const">>
EvMap == <<[pol |-> "L1", prime |-> 0], [pol |-> "L1", prime |-> 1],
           [pol |-> "a", prime |-> 0],  [pol |-> "b", prime |-> 0],
           [pol |-> "z", prime |-> -1], [pol |-> "z", prime |-> 0],
           [pol |-> "q0", prime |-> 0], [pol |-> "q1", prime |-> 0]>>
Boundaries == {"everyRow", "firstRow"}

(* What the constraints read: a committed column at a row offset.          *)
Evaluated == {<<EvMap[i].pol, EvMap[i].prime>> :
                i \in {j \in DOMAIN EvMap : EvMap[j].pol \in {"L1", "a", "b", "z"}}}

EvId(pol, prime) == CHOOSE i \in DOMAIN EvMap : EvMap[i].pol = pol /\ EvMap[i].prime = prime

(* Mutant of CExp: the last constraint is left out of the combination.     *)
CExpUnbound(get, zi, c, pub, result) ==
  LET l1 == get[<<"L1", 0>>]
      prev == FAdd(FMul(get[<<"z", -1>>], FSub(1, l1)), l1)
      accumulates == FSub(FMul(get[<<"z", 0>>], FAdd(get[<<"b", 0>>], c.gamma)),
                          FMul(prev, FAdd(get[<<"a", 0>>], c.gamma)))
      ends == FMul(get[<<"L1", 1>>],
                   FSub(result, FMul(get[<<"z", 0>>], FAdd(pub, c.gamma))))
  IN FMul(FMul(FAdd(FMul(accumulates, c.vc), ends), c.vc), zi["everyRow"])

(* cExp: the constraints combined by the powers of vc, over the zerofiers. *)
(* get is a polynomial at a row offset, zi the inverse for a boundary.      *)
CExp(get, zi, c, pub, result) ==
  LET l1 == get[<<"L1", 0>>]
      prev == FAdd(FMul(get[<<"z", -1>>], FSub(1, l1)), l1)
      accumulates == FSub(FMul(get[<<"z", 0>>], FAdd(get[<<"b", 0>>], c.gamma)),
                          FMul(prev, FAdd(get[<<"a", 0>>], c.gamma)))
      ends == FMul(get[<<"L1", 1>>],
                   FSub(result, FMul(get[<<"z", 0>>], FAdd(pub, c.gamma))))
      starts == FMul(FSub(get[<<"a", 0>>], pub), zi["firstRow"])
      combined == FAdd(FMul(FAdd(FMul(accumulates, c.vc), ends), c.vc), starts)
  IN FMul(combined, zi["everyRow"])

(* friExp: for every opening the openings' differences combined by vf2,    *)
(* divided by x - xi w^opening, and these combined by vf1.                 *)
FriExp(col, evs, xDivXSub, c) ==
  LET at(o) == SelectSeq([i \in DOMAIN EvMap |-> i], LAMBDA i : EvMap[i].prime = o)
      group(o) == FoldLeft(LAMBDA acc, i : FAdd(FMul(acc, c.vf2), FSub(col[i], evs[i])),
                           0, at(o))
  IN FoldLeft(LAMBDA acc, o : FAdd(FMul(acc, c.vf1), FMul(group(o), xDivXSub[o])),
              0, Openings)

-----------------------------------------------------------------------------
(* Prover helpers.  A polynomial is its function on the extended domain.   *)
X(i) == FMul(Shift, FExp(W(NBitsExt), i))

(* buildZHInv: the zerofier takes as many values as the blow-up.           *)
ZHInv(i) ==
  LET extendBits == NBitsExt - NBits
      sn == FExp(Shift, N)
  IN FInv(FSub(FMul(sn, FExp(W(extendBits), i % 2 ^ extendBits)), 1))

OneRowZerofierInv(i, rowIndex) ==
  FInv(FMul(FSub(X(i), FExp(W(NBits), rowIndex)), ZHInv(i)))

ZiProver(i, boundary) == IF boundary = "everyRow" THEN ZHInv(i) ELSE OneRowZerofierInv(i, 0)

(* Row i + o of the trace is o * 2^extendBits rows away, cyclically.       *)
Cyclic(i, o) == (i + NExt + o * 2 ^ (NBitsExt - NBits)) % NExt

(* The verifier's helpers, at z.                                           *)
ZiVerifier(z, boundary) ==
  LET zN == FSub(FExp(z, N), 1)
  IN IF boundary = "everyRow" THEN FInv(zN) ELSE FMul(FInv(FSub(z, 1)), zN)

OpeningPoint(xi, o) ==
  LET w == FExp(W(NBits), IF o < 0 THEN -o ELSE o)
  IN FMul(xi, IF o < 0 THEN FInv(w) ELSE w)

(* What the code inverts is not zero: Goldilocks::inv throws on zero.      *)
ASSUME DrawsAssumption ==
  /\ \A xi \in Draws["xi"] :
       /\ FExp(xi, N) # 1
       /\ \A o \in ToSet(Openings), i \in 0 .. NExt - 1 : OpeningPoint(xi, o) # X(i)
  /\ \A s \in Statements, gamma \in Draws["gamma"], i \in 0 .. N - 1 :
       FAdd(s.b[i], gamma) # 0

-----------------------------------------------------------------------------
(* commitStage: the extended polynomials of the stage, row by row, become  *)
(* the leaves of its tree.                                                 *)
Column(tree, section, pol) ==
  LET c == CHOOSE j \in DOMAIN Sections[section] : Sections[section][j] = pol
  IN [i \in 0 .. NExt - 1 |-> tree.source[i + 1][c]]

SectionOf(pol) == CHOOSE s \in DOMAIN Sections : pol \in ToSet(Sections[s])

Pol(pol) == LET s == SectionOf(pol) IN Column(trees[s], s, pol)

Rows(cols) == [i \in 1 .. NExt |-> [j \in DOMAIN cols |-> cols[j][i - 1]]]

ExtendAndMerkelize(arity, cols) ==
  Merkelize(Rows([j \in DOMAIN cols |-> LDE(cols[j], N, NExt)]), arity)

(* computeQ: the quotient, given on the extended domain, is cut into QDeg  *)
(* polynomials of N coefficients, and each is evaluated there again.       *)
QPart(q, p) ==
  LET coefs == INTT(q, NExt, OnSite(0))
      s == FExp(FExp(FInv(Shift), N), p)
  IN NTT([i \in 0 .. NExt - 1 |-> IF i < N THEN FMul(coefs[p * N + i], s) ELSE 0],
         NExt, OnSite(0))

ComputeQ(arity, q) == Merkelize(Rows([p \in 1 .. QDeg |-> QPart(q, p - 1)]), arity)

(* Mutant of LEv: the point is not moved from the shifted domain.          *)
LEvUnshifted(xi, o) ==
  INTT([k \in 0 .. N - 1 |-> FExp(OpeningPoint(xi, o), k)], N, OnSite(0))

(* computeLEv and evmap: the value at xi w^o from every 2^extendBits-th    *)
(* value on the extended domain.                                           *)
LEv(xi, o) ==
  LET xiShifted == FMul(OpeningPoint(xi, o), FInv(Shift))
  IN INTT([k \in 0 .. N - 1 |-> FExp(xiShifted, k)], N, OnSite(0))

EvMapValue(ev, xi) ==
  LET l == LEv(xi, ev.prime)
      ext == Pol(ev.pol)
  IN FSum([k \in 1 .. N |-> FMul(l[k - 1], ext[(k - 1) * 2 ^ (NBitsExt - NBits)])])

(* accMulHintFields and updateAirgroupValue.                               *)
ZValues(a, b, gamma) ==
  LET v[i \in 0 .. N - 1] ==
        LET quot == FMul(FAdd(a[i], gamma), FInv(FAdd(b[i], gamma)))
        IN IF i = 0 THEN quot ELSE FMul(quot, v[i - 1])
  IN v

AirgroupValue(z, pub, gamma) == FMul(z[N - 1], FAdd(pub, gamma))

QuotientPol(c, pub, result) ==
  LET pols == [p \in {"L1", "a", "b", "z"} |-> Pol(p)]
  IN [i \in 0 .. NExt - 1 |->
        CExp([e \in Evaluated |-> pols[e[1]][Cyclic(i, e[2])]],
             [bd \in Boundaries |-> ZiProver(i, bd)], c, pub, result)]

FriPolynomial(c, evs) ==
  LET pols == [i \in DOMAIN EvMap |-> Pol(EvMap[i].pol)]
  IN [i \in 0 .. NExt - 1 |->
        FriExp([e \in DOMAIN EvMap |-> pols[e][i]], evs,
               [o \in ToSet(Openings) |-> FInv(FSub(X(i), OpeningPoint(c.xi, o)))], c)]

-----------------------------------------------------------------------------
(* The transcript of the prover.  A challenge is a word and its value.     *)
Commitment(words) == IF cfg.hashCommits THEN <<CalculateHash(words, cfg.arity)>> ELSE words

Words(values) == [i \in 1 .. Len(values) |-> Elem(values[i])]

(* calculate_global_challenge: the publics and the sum of what the         *)
(* instances contribute, hashes of their keys and roots; with one instance *)
(* the sum is its contribution.  The transcript has the width of 16.       *)
GlobalChallenge(verkey, root1) ==
  LET contribution == CalculateHash(<<verkey, root1>>, 4)
  IN GetFields1(Put(NewTranscript(4), <<Elem(stmt.pub), contribution>>)).word

Seed(verkey, pub, root1, global) ==
  IF cfg.recursive THEN <<verkey>> \o Commitment(<<Elem(pub)>>) \o <<root1>>
                   ELSE <<global>>

Const == ExtendAndMerkelize(cfg.arity, <<stmt.l1>>)

Init ==
  /\ cfg \in Configs
  /\ stmt \in Statements
  /\ pc = "stage1"
  /\ transcript = NewTranscript(cfg.arity)
  /\ chal = <<>>
  /\ trees = [const |-> Const]
  /\ friTrees = <<>>
  /\ evals = <<>> /\ airgroupValue = 0
  /\ friPol = <<>> /\ step = 1
  /\ oracle = <<>>
  /\ proof = <<>> /\ altered = FALSE /\ verdict = "none"

Keep == UNCHANGED <<cfg, stmt, altered, verdict>>

(* getChallenge: the oracle answers name with v.                           *)
Ask(t, name, v) ==
  LET f == GetFields1(t)
  IN /\ v \in Draws[name]
     /\ oracle' = Append(oracle, <<f.word, v>>)
     /\ chal' = chal @@ (name :> v)

Stage1 ==
  /\ pc = "stage1" /\ pc' = "stage2"
  /\ LET tree == ExtendAndMerkelize(cfg.arity, <<stmt.a, stmt.b>>)
     IN /\ trees' = trees @@ ("cm1" :> tree)
        /\ transcript' = Put(transcript,
             Seed(GetRoot(trees.const), stmt.pub, GetRoot(tree),
                  GlobalChallenge(GetRoot(trees.const), GetRoot(tree))))
  /\ UNCHANGED <<chal, friTrees, evals, airgroupValue, friPol, step, oracle, proof>>
  /\ Keep

Stage2 ==
  /\ pc = "stage2" /\ pc' = "stageQ"
  /\ \E gamma \in Draws["gamma"] :
       LET z == ZValues(stmt.a, stmt.b, gamma)
           tree == ExtendAndMerkelize(cfg.arity, <<z>>)
       IN /\ Ask(transcript, "gamma", gamma)
          /\ airgroupValue' = AirgroupValue(z, stmt.pub, gamma)
          /\ trees' = trees @@ ("cm2" :> tree)
          /\ transcript' = Put(GetFields1(transcript).next, <<GetRoot(tree)>>)
  /\ UNCHANGED <<friTrees, evals, friPol, step, proof>>
  /\ Keep

StageQ ==
  /\ pc = "stageQ" /\ pc' = "evals"
  /\ \E vc \in Draws["vc"] :
       LET tree == ComputeQ(cfg.arity, QuotientPol(chal @@ ("vc" :> vc), stmt.pub,
                                                   airgroupValue))
       IN /\ Ask(transcript, "vc", vc)
          /\ trees' = trees @@ ("cm3" :> tree)
          /\ transcript' = Put(GetFields1(transcript).next, <<GetRoot(tree)>>)
  /\ UNCHANGED <<friTrees, evals, airgroupValue, friPol, step, proof>>
  /\ Keep

StageEvals ==
  /\ pc = "evals" /\ pc' = "fri"
  /\ \E xi \in Draws["xi"] :
       LET evs == [i \in DOMAIN EvMap |-> EvMapValue(EvMap[i], xi)]
       IN /\ Ask(transcript, "xi", xi)
          /\ evals' = evs
          /\ transcript' = Put(GetFields1(transcript).next, Commitment(Words(evs)))
  /\ UNCHANGED <<trees, friTrees, airgroupValue, friPol, step, proof>>
  /\ Keep

FriPolStage ==
  /\ pc = "fri" /\ pc' = "fold"
  /\ \E vf1 \in Draws["vf1"], vf2 \in Draws["vf2"] :
       LET f1 == GetFields1(transcript)
           f2 == GetFields1(f1.next)
           c  == chal @@ ("vf1" :> vf1) @@ ("vf2" :> vf2)
       IN /\ chal' = c
          /\ oracle' = oracle \o <<<<f1.word, vf1>>, <<f2.word, vf2>>>>
          /\ transcript' = f2.next
          /\ friPol' = FriPolynomial(c, evals)
  /\ UNCHANGED <<trees, friTrees, evals, airgroupValue, step, proof>>
  /\ Keep

(* One turn of the folding loop: fold, commit, and draw the challenge of   *)
(* the next turn; the last turn sends the polynomial itself.               *)
FoldStep ==
  /\ pc = "fold"
  /\ \E v \in Draws["fri"] :
       LET last == step = Len(cfg.steps)
           cur  == cfg.steps[step]
           pol  == IF step = 1 THEN friPol
                   ELSE Fold(friPol, chal.fri, NBitsExt, cfg.steps[step - 1], cur, MaxThreads)
           tree == Merkelize(Transposed(pol, cur, cfg.steps[step + 1]), cfg.arity)
           t    == Put(transcript,
                       IF last THEN Commitment(Words([i \in 1 .. 2 ^ cur |-> pol[i - 1]]))
                               ELSE <<GetRoot(tree)>>)
           f    == GetFields1(t)
       IN /\ friPol' = pol
          /\ friTrees' = IF last THEN friTrees ELSE Append(friTrees, tree)
          /\ transcript' = f.next
          /\ oracle' = Append(oracle, <<f.word, v>>)
          /\ chal' = [n \in DOMAIN chal \cup {"fri", "word"} |->
                        CASE n = "fri"  -> v
                          [] n = "word" -> f.word
                          [] OTHER      -> chal[n]]
          /\ pc' = IF last THEN "queries" ELSE "fold"
          /\ step' = IF last THEN step ELSE step + 1
  /\ UNCHANGED <<trees, evals, airgroupValue, proof>>
  /\ Keep

(* transcriptPermutation: the fields the indices are taken from.           *)
QueryWords(arity, challenge, nonce) ==
  GetFields(Put(NewTranscript(arity), <<challenge, Elem(nonce)>>),
            NFields(NQueries, NBitsExt, FieldBits))

Queries(fields) == GetPermutations(fields, NQueries, NBitsExt, FieldBits)

(* The grinding takes the smallest nonce that satisfies the proof of work, *)
(* the queries open every tree, and the proof is complete.                 *)
StageQueries ==
  /\ pc = "queries" /\ pc' = "proved"
  /\ \E fields \in QueryFields :
       LET nonce == Min(cfg.nonces)
           words == QueryWords(cfg.arity, chal.word, nonce)
           idx   == Queries(fields)
           open(tree, i) == GetGroupProof(tree, cfg.llv, i)
           nFri  == Len(cfg.steps) - 1
       IN /\ oracle' = oracle \o [k \in DOMAIN words |-> <<words[k], fields[k]>>]
          /\ proof' =
               [roots |-> [t \in 1 .. 3 |-> GetRoot(trees[TreesGL[t]])],
                levels |-> [t \in 1 .. 4 |-> GetLevel(trees[TreesGL[t]], cfg.llv)],
                evals |-> evals, airgroupValue |-> airgroupValue, nonce |-> nonce,
                polQueries |-> [q \in 1 .. NQueries |->
                                  [t \in 1 .. 4 |-> open(trees[TreesGL[t]], idx[q])]],
                friRoots |-> [s \in 1 .. nFri |-> GetRoot(friTrees[s])],
                friLevels |-> [s \in 1 .. nFri |-> GetLevel(friTrees[s], cfg.llv)],
                friQueries |-> [q \in 1 .. NQueries |->
                                  [s \in 1 .. nFri |->
                                     open(friTrees[s], idx[q] % 2 ^ cfg.steps[s + 1])]],
                finalPol |-> [i \in 1 .. 2 ^ cfg.steps[nFri + 1] |-> friPol[i - 1]],
                pub |-> stmt.pub]
  /\ UNCHANGED <<transcript, chal, trees, friTrees, evals, airgroupValue, friPol, step>>
  /\ Keep
=============================================================================
