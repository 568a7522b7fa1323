------------------------------- MODULE MCDongle -------------------------------
(* Instances of Dongle for TLC.                                            *)
EXTENDS Dongle

\* Two LEDs are enough for a loop.
MCLeds == <<"led1", "led2_r">>
=============================================================================
