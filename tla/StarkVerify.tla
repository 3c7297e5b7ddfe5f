---------------------------- MODULE StarkVerify ----------------------------
(***************************************************************************)
(* starkVerify, on a proof as the prover left it or with one item altered. *)
(***************************************************************************)
EXTENDS StarkProof

CONSTANT AlteredQueries   \* bound: the queries whose answers are altered

Forged == Elem(P - 1)     \* a digest no tree has

(* One value or digest of the proof becomes another.  What fills a last    *)
(* level up to arity^llv digests is not part of the tree, and nothing      *)
(* reads it.                                                               *)
LevelNodes(height) == 1 .. LevelAt(0, height, cfg.arity, cfg.llv).n

Opened(p) ==
  UNION {UNION {
    {[p EXCEPT !.polQueries[q][t].vals[i] = FAdd(@, 1)] :
       i \in DOMAIN p.polQueries[q][t].vals}
    \cup {[p EXCEPT !.polQueries[q][t].siblings[l[1]][l[2]] = Forged] :
            l \in (DOMAIN p.polQueries[q][t].siblings) \X (1 .. cfg.arity - 1)}
    : t \in 1 .. 4} : q \in AlteredQueries}
  \cup UNION {UNION {
    {[p EXCEPT !.friQueries[q][s].vals[i] = FAdd(@, 1)] :
       i \in DOMAIN p.friQueries[q][s].vals}
    \cup {[p EXCEPT !.friQueries[q][s].siblings[l[1]][l[2]] = Forged] :
            l \in (DOMAIN p.friQueries[q][s].siblings) \X (1 .. cfg.arity - 1)}
    : s \in DOMAIN p.friRoots} : q \in AlteredQueries}

Committed(p) ==
  {[p EXCEPT !.roots[t] = Forged] : t \in 1 .. 3}
  \cup {[p EXCEPT !.friRoots[s] = Forged] : s \in DOMAIN p.friRoots}
  \cup (IF cfg.llv = 0 THEN {}
        ELSE {[p EXCEPT !.levels[l[1]][l[2]] = Forged] : l \in (1 .. 4) \X LevelNodes(NExt)}
             \cup UNION {{[p EXCEPT !.friLevels[s][i] = Forged] :
                           i \in LevelNodes(2 ^ cfg.steps[s + 1])} : s \in DOMAIN p.friRoots})

Sent(p) ==
  {[p EXCEPT !.evals[i] = FAdd(@, 1)] : i \in DOMAIN p.evals}
  \cup {[p EXCEPT !.finalPol[i] = FAdd(@, 1)] : i \in DOMAIN p.finalPol}
  \cup {[p EXCEPT !.airgroupValue = FAdd(@, 1)], [p EXCEPT !.pub = FAdd(@, 1)],
        [p EXCEPT !.nonce = @ + 1]}

Alterations(p) == Opened(p) \cup Committed(p) \cup Sent(p)

-----------------------------------------------------------------------------
(* The transcript of the verifier: what it absorbs, and where it asks.     *)
Get(n) == [get |-> n, put |-> <<>>]
PutIn(words) == [get |-> 0, put |-> words]

Script(p) ==
  LET nSteps == Len(cfg.steps)
      turn(s) ==
        (IF s > 1 THEN <<Get(1)>> ELSE <<>>)
        \o <<PutIn(IF s < nSteps THEN <<p.friRoots[s]>> ELSE Commitment(Words(p.finalPol)))>>
      global == GlobalChallenge(GetRoot(trees.const), GetRoot(trees.cm1))
  IN <<PutIn(Seed(GetRoot(trees.const), p.pub, p.roots[1], global)),
       Get(1), PutIn(<<p.roots[2]>>), Get(1), PutIn(<<p.roots[3]>>),
       Get(1), PutIn(Commitment(Words(p.evals))), Get(2)>>
     \o FlattenSeq([s \in 1 .. nSteps |-> turn(s)]) \o <<Get(1)>>

(* The words the script asks for, in order.                                *)
RECURSIVE Asked(_, _)
Asked(t, script) ==
  IF script = <<>> THEN <<>>
  ELSE IF Head(script).get = 0 THEN Asked(Put(t, Head(script).put), Tail(script))
  ELSE LET f == GetFields1(t)
           rest == IF Head(script).get = 1 THEN Tail(script)
                   ELSE <<Get(Head(script).get - 1)>> \o Tail(script)
       IN <<f.word>> \o Asked(f.next, rest)

Known(word) == \E i \in DOMAIN oracle : oracle[i][1] = word
Answer(word) == oracle[CHOOSE i \in DOMAIN oracle : oracle[i][1] = word][2]

Names == <<"gamma", "vc", "xi", "vf1", "vf2">>

-----------------------------------------------------------------------------
EvaluationsValid(p, c) ==
  LET xN == FExp(c.xi, N)
      quotient == FSum([i \in 1 .. QDeg |->
                     FMul(FExp(xN, i - 1), p.evals[EvId(Sections.cm3[i], 0)])])
  IN quotient = CExp([e \in Evaluated |-> p.evals[EvId(e[1], e[2])]],
                     [bd \in Boundaries |-> ZiVerifier(c.xi, bd)], c, p.pub, p.airgroupValue)

(* The value of polynomial e of evMap in the answer to a query.            *)
OpenedValue(query, pol) ==
  LET s == SectionOf(pol)
      t == CHOOSE i \in DOMAIN TreesGL : TreesGL[i] = s
  IN query[t].vals[CHOOSE j \in DOMAIN Sections[s] : Sections[s][j] = pol]

FriConsistent(p, c, q, idx) ==
  LET x == X(idx)
      value == FriExp([e \in DOMAIN EvMap |-> OpenedValue(p.polQueries[q], EvMap[e].pol)],
                      p.evals,
                      [o \in ToSet(Openings) |-> FInv(FSub(x, OpeningPoint(c.xi, o)))], c)
  IN value = IF Len(cfg.steps) > 1
             THEN p.friQueries[q][1].vals[idx \div 2 ^ cfg.steps[2] + 1]
             ELSE p.finalPol[idx + 1]

(* Mutant of TreeValid: the given level stands for the path below it.      *)
TreeValidEither(root, level, height, opening, idx) ==
  IF cfg.llv > 0
  THEN VerifyMerkleRoot(root, level, height, cfg.llv, cfg.arity)
  ELSE VerifyGroupProof(root, level, opening.siblings, idx, opening.vals, cfg.arity)

TreeValid(root, level, height, opening, idx) ==
  /\ cfg.llv > 0 => VerifyMerkleRoot(root, level, height, cfg.llv, cfg.arity)
  /\ VerifyGroupProof(root, level, opening.siblings, idx, opening.vals, cfg.arity)

(* The folded value of a turn is one of the values opened for the next.    *)
FoldingValid(p, folds, q, s, index) ==
  LET idx == index % 2 ^ cfg.steps[s + 1]
      value == VerifyFold(p.friQueries[q][s].vals, NBitsExt, cfg.steps[s], cfg.steps[s + 1],
                          folds[s], idx)
  IN value = IF s + 1 < Len(cfg.steps)
             THEN p.friQueries[q][s + 1].vals[idx \div 2 ^ cfg.steps[s + 2] + 1]
             ELSE p.finalPol[idx + 1]

Valid(p, c, folds, idx) ==
  /\ EvaluationsValid(p, c)
  /\ \A q \in 1 .. NQueries :
       /\ FriConsistent(p, c, q, idx[q])
       /\ \A t \in 1 .. 4 :
            TreeValid(IF t = 4 THEN GetRoot(trees.const) ELSE p.roots[t],
                      p.levels[t], NExt, p.polQueries[q][t], idx[q])
       /\ \A s \in DOMAIN p.friRoots :
            /\ TreeValid(p.friRoots[s], p.friLevels[s], 2 ^ cfg.steps[s + 1],
                         p.friQueries[q][s], idx[q] % 2 ^ cfg.steps[s + 1])
            /\ FoldingValid(p, folds, q, s, idx[q])
  /\ FinalPolValid([i \in 0 .. Len(p.finalPol) - 1 |-> p.finalPol[i + 1]],
                   cfg.steps[Len(cfg.steps)], NBitsExt - NBits)

(* A word the prover never asked for stands for a fresh random challenge.  *)
Verdict(p) ==
  LET words == Asked(NewTranscript(cfg.arity), Script(p))
      c == [n \in ToSet(Names) |->
              Answer(words[CHOOSE i \in DOMAIN Names : Names[i] = n])]
      folds == [s \in 1 .. Len(cfg.steps) - 1 |-> Answer(words[Len(Names) + s])]
      queryWords == QueryWords(cfg.arity, words[Len(words)], p.nonce)
      idx == Queries([k \in DOMAIN queryWords |-> Answer(queryWords[k])])
  IN CASE \E i \in DOMAIN words : ~Known(words[i]) -> "other challenges"
       [] p.nonce \notin cfg.nonces -> "rejected"
       [] \E k \in DOMAIN queryWords : ~Known(queryWords[k]) -> "other challenges"
       [] OTHER -> IF Valid(p, c, folds, idx) THEN "accepted" ELSE "rejected"

Alter ==
  /\ pc = "proved" /\ ~altered /\ stmt.pub = stmt.a[0]
  /\ proof' \in Alterations(proof)
  /\ altered' = TRUE
  /\ UNCHANGED <<cfg, stmt, pc, transcript, chal, trees, friTrees, evals, airgroupValue,
                 friPol, step, oracle, verdict>>

Verify ==
  /\ pc = "proved" /\ pc' = "verified"
  /\ verdict' = Verdict(proof)
  /\ UNCHANGED <<cfg, stmt, transcript, chal, trees, friTrees, evals, airgroupValue,
                 friPol, step, oracle, proof, altered>>

Next ==
  \/ Stage1 \/ Stage2 \/ StageQ \/ StageEvals \/ FriPolStage \/ FoldStep \/ StageQueries
  \/ Alter \/ Verify

Spec == Init /\ [][Next]_vars
-----------------------------------------------------------------------------
(* A proof of a true statement is accepted as the prover left it.          *)
HonestProofAccepted ==
  verdict # "none" /\ ~altered /\ stmt.pub = stmt.a[0] => verdict = "accepted"

(* A proof with any one item altered is not accepted with the challenges   *)
(* of the proof it was made from.                                          *)
AlteredProofRefused == altered => verdict # "accepted"

(* The prover run on a trace that breaks a constraint gets no proof.       *)
FalseStatementRefused == verdict = "accepted" => stmt.pub = stmt.a[0]
=============================================================================
