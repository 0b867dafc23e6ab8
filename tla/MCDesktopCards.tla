---------------------------- MODULE MCDesktopCards ----------------------------
(* Small instances of DesktopCards for TLC. *)
EXTENDS DesktopCards

CONSTANTS c1, c2, c3,   \* chats
          tA, tB        \* threads
=============================================================================
