---------------------------- MODULE MCStreamCards ----------------------------
(* The bounds of the instances of StreamCards are numbers and names: nothing to define. *)
EXTENDS StreamCards
=============================================================================
