---------------------------- MODULE MCTwimMaster ----------------------------
(* Instances of TwimMaster for TLC.                                        *)
EXTENDS TwimMaster, TLC

\* Everything a user may ask for.
MCAllOps == DOMAIN OpKind

\* A transfer that ends without a STOP, and one that turns and ends with one.
MCTransferOps == {"continueWriteNoStop", "writeRead"}

\* One write and nothing else.
MCWrite == {"write"}

\* One write without stop and nothing else.
MCWriteNoStop == {"writeNoStop"}

\* Nothing is claimed from the first time an end overtakes an error: TLC goes that
\* far and no further.
MCInTime == InTime

MCSymmetry == Permutations(Tasks)
=============================================================================
