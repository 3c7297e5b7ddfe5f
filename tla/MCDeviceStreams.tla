-------------------------- MODULE MCDeviceStreams --------------------------
(* Two GPUs, the second one with a stream for aggregation, two workers and *)
(* three instances of two AIRs.                                            *)
EXTENDS DeviceStreams

MCGpuOf == <<1, 2, 2>>
MCAirOf == <<1, 1, 2>>
MCSetups ==
  {[stored |-> FALSE, cancels |-> FALSE, runs |-> 1, insts |-> {1, 2, 3}, asks |-> {}],
   [stored |-> FALSE, cancels |-> TRUE, runs |-> 2, insts |-> {1}, asks |-> {}],
   [stored |-> FALSE, cancels |-> TRUE, runs |-> 1, insts |-> {1, 2}, asks |-> {}],
   [stored |-> TRUE, cancels |-> FALSE, runs |-> 1, insts |-> {1, 2}, asks |-> {"prove"}]}
MCBorrowSetups ==
  {[stored |-> TRUE, cancels |-> FALSE, runs |-> 1, insts |-> {1, 2}, asks |-> {"commit"}]}
=============================================================================
