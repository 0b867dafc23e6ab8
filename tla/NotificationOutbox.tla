--------------------------- MODULE NotificationOutbox --------------------------
(***************************************************************************)
(* What the completion monitor promises its users, with files, polls,      *)
(* retries and restarts taken away: a (completion, user) pair is first     *)
(* accepted, durably, and from then on can only be shown.  Only a pair     *)
(* that should never have been accepted may be withdrawn instead.          *)
(***************************************************************************)
CONSTANTS Pairs,       \* the (completion, user) pairs
          Withdrawable \* those of sub-agents, and of another thread's rollout

VARIABLE status        \* of each pair: "none", "owed" or "shown"

Init == status \in [Pairs -> {"none", "owed"}]

\* One save may accept several completions and withdraw others.
Revise ==
  \E new \in SUBSET {p \in Pairs : status[p] = "none"},
     gone \in SUBSET {p \in Withdrawable : status[p] = "owed"} :
    status' = [p \in Pairs |-> IF p \in new THEN "owed"
                              ELSE IF p \in gone THEN "none" ELSE status[p]]

ShowPair(p) ==
  /\ status[p] = "owed"
  /\ status' = [status EXCEPT ![p] = "shown"]

Next == Revise \/ \E p \in Pairs : ShowPair(p)

Spec == Init /\ [][Next]_status
=============================================================================
