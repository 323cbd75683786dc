----------------------------- MODULE MCConsole ------------------------------
(* Console with arrays of a few characters; an address has one.             *)
EXTENDS Console

MCChars == {2, 11}
=============================================================================
