------------------------------ MODULE MCTerminal ------------------------------
(***************************************************************************)
(* Terminal for TLC: one tab, two stream threads at a time.               *)
(***************************************************************************)
EXTENDS Terminal

CONSTANTS b1, t1, t2
=============================================================================
