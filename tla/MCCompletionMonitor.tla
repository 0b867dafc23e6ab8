-------------------------- MODULE MCCompletionMonitor --------------------------
(* Small instances of CompletionMonitor for TLC. *)
EXTENDS CompletionMonitor

CONSTANTS root, child, u1, u2

\* Every rollout carries the session id of the root.
RootSession == [t \in Threads |-> root]
\* The root runs turns "a" and "b", the sub-agent runs turn "c".
TurnAuthor == [turn \in Turns |-> IF turn = "c" THEN child ELSE root]
=============================================================================
