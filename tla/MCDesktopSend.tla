----------------------------- MODULE MCDesktopSend -----------------------------
(* The model values of the instances of DesktopSend. *)
EXTENDS DesktopSend, TLC

CONSTANTS c1, c2, tA, tB, m1, m2

Symmetric == Permutations({tA, tB}) \cup Permutations({m1, m2})

\* both messages are written in the first chat
Writer(m) == c1
=============================================================================
