---------------------------- MODULE MCSessionFiles ----------------------------
(* The instances of SessionFiles need no model values; its constants are numbers  *)
(* and sets of names given in the configurations.                                  *)
EXTENDS SessionFiles
=============================================================================
