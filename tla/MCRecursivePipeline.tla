------------------------- MODULE MCRecursivePipeline -------------------------
(***************************************************************************)
(* Small systems for RecursivePipeline.  With four instances in airgroup 1 *)
(* a recursive2 proof is merged again, and airgroup 2 is empty; with two   *)
(* in each airgroup, two recursive2 proofs are made at the same time.      *)
(***************************************************************************)
EXTENDS RecursivePipeline, TLC

CONSTANTS s1, s2

MCAirgroups == {1, 2}
MCAirgroupOf == [i \in Instances |-> 1]
TwoAirgroups == [i \in Instances |-> IF i <= 2 THEN 1 ELSE 2]

Instances4 == {1, 2, 3, 4}
Compressed1 == {1}
Stored2 == {2}
Stored4 == {4}
Resident2 == {2}
Instances2 == {1, 2}
Nothing == {}

OneStream == {s1}
TwoStreams == {s1, s2}
RecursiveS2 == {s2}
StreamSymmetry == Permutations(TwoStreams)

OneBuffer == [p \in Pools |-> 1]
TwoBuffers == [p \in Pools |-> 2]
AmpleBuffers == [p \in Pools |-> 8]

Aggregating == {TRUE}
BothModes == BOOLEAN

NoFaults == {}
Cancelling == {"Cancel"}
AllFaults == {"Cancel", "Prove", "Witness", "Precalculate"}
Precalculating == {"Precalculate"}

=============================================================================
