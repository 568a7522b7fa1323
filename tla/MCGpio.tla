------------------------------- MODULE MCGpio -------------------------------
(* Instances of Gpio for TLC.                                              *)
EXTENDS Gpio, TLC

CONSTANTS u1, u2, u3

\* Two users on a port, and two pins of the same number (P0.09 and P1.09).
P0_08 == [port |-> 0, pin |-> 8]
P0_09 == [port |-> 0, pin |-> 9]
P1_09 == [port |-> 1, pin |-> 9]

MCPins == {P0_08, P0_09, P1_09}

\* A pin for each user.
MCPinOf == u1 :> P0_08 @@ u2 :> P0_09 @@ u3 :> P1_09
=============================================================================
