----------------------------- MODULE MCDimmer -----------------------------
(* An instance of Dimmer.tla for TLC.                                      *)
EXTENDS Dimmer

\* Off, the first and the last level with a phase, one half, and two of full power.
MCLevels == {0, 1, 50, 99, 100, 255}
=============================================================================
