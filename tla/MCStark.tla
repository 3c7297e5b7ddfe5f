------------------------------ MODULE MCStark ------------------------------
(* The prover and verifier on small proofs, and the kernels on samples.    *)
EXTENDS StarkVerify, StarkKernels

Array(s) == [i \in 0 .. Len(s) - 1 |-> s[i + 1]]

Config(arity, llv, steps, hashCommits, recursive, nonces) ==
  [arity |-> arity, llv |-> llv, steps |-> steps, hashCommits |-> hashCommits,
   recursive |-> recursive, nonces |-> nonces]

MCConfigs ==
  {Config(2, 0, <<3, 2, 1>>, FALSE, TRUE, {0}), Config(3, 1, <<3, 1>>, TRUE, FALSE, {1, 2}),
   Config(4, 0, <<3, 2>>, FALSE, FALSE, {0}),   Config(2, 1, <<3, 2, 1>>, TRUE, TRUE, {0}),
   Config(4, 1, <<3>>, TRUE, FALSE, {0})}

MCStatements ==
  {[l1 |-> Array(<<1, 0, 0, 0>>), a |-> Array(<<5, 7, 7, 1>>),
    b |-> Array(<<7, 1, 5, 30>>), pub |-> p] : p \in {5, 6}}

MCDraws == [gamma |-> {2, 11}, vc |-> {3}, xi |-> {10, 12}, vf1 |-> {4}, vf2 |-> {6},
            fri |-> {9, 21}]

(* The indices 0 .. 7, three bits each, in fields of five bits.            *)
MCQueryFields ==
  {[k \in 1 .. 5 |-> (Stream([i \in 1 .. 8 |-> i - 1], 3) \div 2 ^ (5 * (k - 1))) % 2 ^ 5]}

-----------------------------------------------------------------------------
MCSamples ==
  {[kind |-> "words", x |-> x] : x \in Representatives}
  \cup {[kind |-> "cubic", x |-> x, y |-> y] :
          x \in {<<a, b, c>> : a \in {0, 1, 6}, b \in {0, 5, 12}, c \in {2, 12}},
          y \in {<<1, 0, 0>>, <<3, 12, 7>>, <<12, 4, 0>>}}
  \cup UNION {{[kind |-> "transform", k |-> k, nphase |-> ph, input |-> v,
                 first |-> f, stale |-> 11] :
                 ph \in 0 .. 5, f \in {0, 2 ^ k \div 2},
                 v \in {[i \in 0 .. 2 ^ k - 1 |-> (7 * i * i + 3 * i + 5) % P],
                        [i \in 0 .. 2 ^ k - 1 |-> IF i = 1 THEN 96 ELSE 0]}} : k \in 0 .. 4}
  \cup {[kind |-> "fold", nBitsExt |-> e, prev |-> p[1], cur |-> p[2], threads |-> t,
         challenge |-> c, pol |-> [i \in 0 .. 2 ^ p[1] - 1 |-> (11 * i * i + i + 8) % P]] :
           e \in 4 .. 5, p \in {<<4, 3>>, <<4, 1>>, <<3, 2>>, <<3, 0>>, <<2, 1>>},
           t \in 1 .. 5, c \in {0, 17}}
  \cup {[kind |-> "unpack", widths |-> w, packed |-> p] :
          w \in {<<6, 6, 6>>, <<1, 5, 12>>, <<4, 4, 4, 4>>, <<3, 6, 6, 3>>, <<5, 2, 6, 5>>,
                 <<1, 1, 6, 4, 6>>},
          p \in {<<63, 0, 63>>, <<21, 42, 19>>, <<1, 32, 7>>}}
  \cup {[kind |-> "indices", fields |-> <<37, 22, 63, 9>>, n |-> s[1], nBits |-> s[2],
         fieldBits |-> 5] : s \in {<<4, 5>>, <<6, 3>>, <<9, 2>>, <<1, 1>>, <<2, 7>>}}

(* The extensions with the default number of phases, by one thread or with *)
(* the upper half of the rows first, into an output that was cleared.      *)
MCLdeSamples ==
  UNION {{[kind |-> "transform", k |-> k, nphase |-> NumPhases, first |-> f, stale |-> 0,
           input |-> [i \in 0 .. 2 ^ k - 1 |-> (7 * i * i + 3 * i + c) % P]] :
            f \in {0, 2 ^ k}, c \in 1 .. 12} : k \in 0 .. 4}

-----------------------------------------------------------------------------
(* Either a proof is made, or a kernel computed.                           *)
NoProof ==
  /\ cfg = "none" /\ stmt = "none" /\ pc = "none" /\ transcript = "none" /\ chal = <<>>
  /\ trees = <<>> /\ friTrees = <<>> /\ evals = <<>> /\ airgroupValue = 0 /\ friPol = <<>>
  /\ step = 1 /\ oracle = <<>> /\ proof = <<>> /\ altered = FALSE /\ verdict = "none"

MCInit == \/ Init /\ kernel = "none" /\ sample = "none" /\ answer = "none"
          \/ NoProof /\ KernelInit

MCNext == \/ Next /\ UNCHANGED kernelVars
          \/ Compute /\ UNCHANGED vars

MCSpec == MCInit /\ [][MCNext]_<<vars, kernelVars>>
=============================================================================
