------------------------------- MODULE MCPwm -------------------------------
(* Instances of Pwm.tla for TLC.                                           *)
EXTENDS Pwm

\* Both sides of each comparison of timerPwm1, and a level past 100.
MCLevels == {0, 1, 2, 9, 10, 50, 90, 91, 98, 99, 255}
=============================================================================
