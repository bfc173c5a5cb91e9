------------------------------- MODULE MCAlu -------------------------------
(* The operators of C, as TLC computes them.                                *)
EXTENDS Alu, Bitwise

AndOf(a, b) == a & b
OrOf(a, b) == a | b
XorOf(a, b) == a ^^ b
=============================================================================
