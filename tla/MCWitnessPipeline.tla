-------------------------- MODULE MCWitnessPipeline --------------------------
(***************************************************************************)
(* Three instances and a table, two buffers, two workers: one trace is     *)
(* always computed twice, once for its contribution and once for its       *)
(* proof, and its second buffer comes from the workers.                    *)
(***************************************************************************)
EXTENDS WitnessPipeline

CONSTANTS i1, i2, i3, t1, w1, w2

MCInstances == {i1, i2, i3}
MCTables == {t1}
MCWorkers == {w1, w2}
MCModes == {"queued", "minimal", "cpu"}
MCSkipChoices == {{}, {i3}}
MCFaults == {"Cancel", "Execute", "Precalculate", "Compute", "Table", "Contribute", "Prove"}

=============================================================================
