---- MODULE RealOrderLifecycle ----
(***************************************************************************)
(* What the real_orders table promises (the status machine in              *)
(* app/db/models.py): a candidate has at most one order that is not a      *)
(* failed one; an order is recorded once, gains fills up to its quantity,  *)
(* is closed once, and never changes after that.                           *)
(***************************************************************************)
EXTENDS Integers, Sequences

CONSTANTS Candidates, Quantity

VARIABLE ledger   \* the orders in id order: candidate, status, filled quantity

Failed == {"FAILED", "REJECTED", "CANCELED"}
Live == {"SUBMITTED", "PARTIALLY_FILLED"}

Init == ledger = <<>>

Record(c) ==
  /\ \A i \in DOMAIN ledger : ledger[i].cand = c => ledger[i].status \in Failed
  /\ \E st \in {"DRY_RUN", "SUBMITTED", "FAILED"} :
       ledger' = Append(ledger, [cand |-> c, status |-> st, filled |-> 0])

Fill(i) ==
  /\ ledger[i].status \in Live
  /\ \E q \in ledger[i].filled + 1 .. Quantity :
       ledger' = [ledger EXCEPT ![i].filled = q,
                                ![i].status = IF q = Quantity THEN "FILLED"
                                              ELSE "PARTIALLY_FILLED"]

Close(i) ==
  /\ ledger[i].status \in Live
  /\ \E st \in {"CANCELED", "REJECTED"} : ledger' = [ledger EXCEPT ![i].status = st]

Next == \/ \E c \in Candidates : Record(c)
        \/ \E i \in DOMAIN ledger : Fill(i) \/ Close(i)

Spec == Init /\ [][Next]_ledger
====
