------------------------------ MODULE MCStore ------------------------------
(* Instances of Store.tla for TLC: a blind of 500 turns, five a percent.    *)
EXTENDS Store

\* Closed, just open, and one percent: a move that the bound on interrupts
\* completes, one it cuts short and reversals in between.
MCCommands == {0, 1, 4}
=============================================================================
