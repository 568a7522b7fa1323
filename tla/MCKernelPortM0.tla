---------------------------- MODULE MCKernelPortM0 ----------------------------
(* Instances of KernelPortM0 for TLC.                                      *)
EXTENDS KernelPortM0, TLC

CONSTANTS low, high

\* Two driver interrupts that nest.
MCUrgency == low :> 2 @@ high :> 1
=============================================================================
