------------------------------ MODULE MCTwiLegacy ------------------------------
(* Instances of TwiLegacy for TLC.                                         *)
EXTENDS TwiLegacy

\* One byte is a case of its own in both directions; three pass through the
\* middle of the loops.
MCLengths == 1..3
=============================================================================
