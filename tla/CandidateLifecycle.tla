---- MODULE CandidateLifecycle ----
(***************************************************************************)
(* What the approval workflow promises of a candidate, without requests,   *)
(* transactions or locks: _ALLOWED_TRANSITIONS of                          *)
(* app/data/repositories/order_candidate.py between the states a committed *)
(* row can have, and the rule that an order is placed in the very step     *)
(* that executes the candidate and in no other.                            *)
(***************************************************************************)
CONSTANT Candidates

VARIABLES state, ordered

vars == <<state, ordered>>

Init == /\ state = [c \in Candidates |-> "ABSENT"]
        /\ ordered = {}

Move(c, from, to) == /\ state[c] = from
                     /\ state' = [state EXCEPT ![c] = to]

\* DRAFT -> RISK_CHECKING -> PENDING_APPROVAL, or the risk engine refuses.
Create(c) == /\ \/ Move(c, "ABSENT", "PENDING_APPROVAL")
                \/ Move(c, "ABSENT", "RISK_REJECTED")
             /\ UNCHANGED ordered

\* PENDING_APPROVAL -> APPROVED -> EXECUTED_PAPER, with its one order.
Execute(c) == /\ Move(c, "PENDING_APPROVAL", "EXECUTED_PAPER")
              /\ ordered' = ordered \cup {c}

Decline(c) == /\ \/ Move(c, "PENDING_APPROVAL", "REJECTED")
                 \/ Move(c, "PENDING_APPROVAL", "EXPIRED")
              /\ UNCHANGED ordered

Next == \E c \in Candidates : Create(c) \/ Execute(c) \/ Decline(c)

Spec == Init /\ [][Next]_vars
====
