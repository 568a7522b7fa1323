------------------------------- MODULE MCRtcTick -------------------------------
(* Instances of RtcTick for TLC.                                           *)
EXTENDS RtcTick

\* The shortest sleep, one that ends before the counter wraps, and one that is
\* a whole round of the counter and has to be cut.
MCIdleTimes == {2, 4, MAXTICKS + 1}
=============================================================================
