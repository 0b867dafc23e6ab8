---------------------------- MODULE MCCliSessions ----------------------------
(* The model values of the instance of CliSessions. *)
EXTENDS CliSessions

CONSTANTS p, g, s1, s2
=============================================================================
