----------------------------- MODULE MCDesktopIpc -----------------------------
(* The model values of the instances of DesktopIpc. *)
EXTENDS DesktopIpc

CONSTANTS t1, t2, c1, c2

=============================================================================
