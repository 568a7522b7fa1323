---------------------------- MODULE MCTwimBlocking ----------------------------
(* Instances of TwimBlocking for TLC.                                      *)
EXTENDS TwimBlocking

\* Everything a user may ask for.
MCAllOps == DOMAIN OpKind

\* Any transfer may be refused at its last byte.
MCAllKinds == Kinds
=============================================================================
