---------------------------- MODULE MCAggregation ----------------------------
(***************************************************************************)
(* Three airgroups: five proofs (odd), four (padded with a null proof) and *)
(* none (only the null proof); and beside their merging a call of          *)
(* total_recursive_proofs, which the merging does not look at.             *)
(***************************************************************************)
EXTENDS ProofCount, Aggregation

MCInputs == 0 .. 400

MCAirgroups == {1, 2, 3}
MCLeaves == 1 .. 9
MCAirgroupOf == [l \in MCLeaves |-> IF l <= 5 THEN 1 ELSE 2]

MCInit == CountInit /\ Init

MCNext == \/ CountNext /\ UNCHANGED pieces
          \/ Next /\ UNCHANGED countVars

MCSpec == MCInit /\ [][MCNext]_<<countVars, pieces>>
                 /\ WF_countVars(CountNext) /\ WF_pieces(Next)
=============================================================================
