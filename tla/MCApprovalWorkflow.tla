---- MODULE MCApprovalWorkflow ----
(* Values for the constants of ApprovalWorkflow.                           *)
EXTENDS ApprovalWorkflow, TLC

MCNoProfile == [acct |-> "none"]

\* Two requests for the same thing collide on the duplicate rule and, when it
\* is a large one, on the symbol cap; the third has a symbol of its own.
BuyA == [acct |-> "acc", sym |-> "A", side |-> "BUY", qty |-> 1, amt |-> 2]
BuyMuchA == [BuyA EXCEPT !.amt = 3]
SellA == [acct |-> "acc", sym |-> "A", side |-> "SELL", qty |-> 2, amt |-> 1]
BuyB == [acct |-> "acc", sym |-> "B", side |-> "BUY", qty |-> 1, amt |-> 2]

Open == [enabled |-> TRUE, value |-> 10, held |-> [A |-> 0, B |-> 0], realized |-> 0]
Shut == [Open EXCEPT !.enabled = FALSE]
\* A position in A that leaves no room for another under the ratio cap.
FullOfA == [Open EXCEPT !.held = [A |-> 5, B |-> 0]]
\* The latest snapshot is below the daily loss floor.
Lost == [Open EXCEPT !.realized = -3]

On == [safety |-> TRUE, kill |-> FALSE, paper |-> TRUE]
Killed == [On EXCEPT !.kill = TRUE]
SafetyOff == [On EXCEPT !.safety = FALSE]
PaperOff == [On EXCEPT !.paper = FALSE]

OneProfile == {BuyA}
ThreeProfiles == {BuyMuchA, SellA, BuyB}
AllProfiles == OneProfile \cup ThreeProfiles
OneBook == {Open}
ShutBooks == {Open, Shut}
AllBooks == {Open, Shut, FullOfA, Lost}
AlwaysOn == {On}
KillAndOn == {On, Killed}
StopAndGo == {On, Killed, SafetyOff}
AllSwitches == {On, Killed, SafetyOff, PaperOff}

RowLocks == [singleWriter |-> FALSE, scheduler |-> TRUE, oneClient |-> FALSE]
Sqlite == [singleWriter |-> TRUE, scheduler |-> FALSE, oneClient |-> FALSE]
OneByOne == [singleWriter |-> FALSE, scheduler |-> FALSE, oneClient |-> TRUE]
WithRowLocks == {RowLocks}
AllDeployments == {RowLocks, Sqlite, OneByOne}

\* The workers are interchangeable; used where no liveness is checked.
WorkerSymmetry == Permutations(Workers)
====
