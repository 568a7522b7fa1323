----------------------------- MODULE MCKernelPort -----------------------------
(* Instances of KernelPort for TLC.                                        *)
EXTENDS KernelPort, FiniteSets, TLC

CONSTANTS t1, t2, low, high

\* Two driver interrupts that nest, one of the most urgent priority that may use
\* the kernel.
MCPriorities == low :> NRF_IRQ_PRIOR.LOW @@ high :> NRF_IRQ_PRIOR.HIGH

\* The priority by the name of NRF_IRQ_PRIOR_LOWEST, which is 0 in three bits.
MCTooUrgent == high :> NRF_IRQ_PRIOR.LOWEST
=============================================================================
