---------------------------- MODULE MCDesktopState ----------------------------
(* The instance of DesktopState that TLC checks. *)
EXTENDS DesktopState
=============================================================================
