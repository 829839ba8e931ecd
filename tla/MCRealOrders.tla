---- MODULE MCRealOrders ----
(* Values for the constants of RealOrders.                                 *)
EXTENDS RealOrders, TLC

CONSTANTS c1, c2

\* With a daily cap of 2, c2 leaves no room for c1 and c1 none for c2.
MCAmount == [c \in {c1, c2} |-> IF c = c1 THEN 1 ELSE 2]

Live == [kill |-> FALSE, safety |-> TRUE, real |-> TRUE, kis |-> TRUE, dry |-> FALSE,
         transport |-> "factory"]
DryInjected == [Live EXCEPT !.dry = TRUE, !.transport = "injected"]
DryFactory == [Live EXCEPT !.dry = TRUE]

OnlyLive == {Live}
LiveAndDry == {Live, DryInjected}
LiveAndFactoryDry == {Live, DryFactory}
AnySwitches == LiveAndDry \cup LiveAndFactoryDry

Racing == [oneCaller |-> FALSE, injected |-> FALSE]
OneByOne == [oneCaller |-> TRUE, injected |-> TRUE]
OnlyOneByOne == {OneByOne}
AnyDeployment == {Racing, OneByOne}

RaceSymmetry == Permutations(Executors)
====
