---- MODULE MCDropAlert ----
(***************************************************************************)
(* Holding checks of one share, alone: when is a drop of its score seen?   *)
(* See DropsAreFlagged of DailyDecisions.                                  *)
(***************************************************************************)
EXTENDS DailyDecisions

Situation(t, al, v, m, f, n, fu, rp, sg) ==
  [technical |-> t, alignment |-> al, volume |-> v, ma20 |-> m, filings |-> f, news |-> n,
   fundamental |-> fu, report |-> rp, signal |-> sg]
MCSituations ==
  {Situation(10000, "PERFECT_BULL", 25, 100, 0, 6000, 6000, Missing, Missing),
   Situation(4000, "MIXED", 10, 100, 0, 5000, 5000, 8000, 6000),
   Situation(1500, "BEAR", Missing, Missing, 2, 5000, 5000, Missing, 4000)}

Bar(o, h, l, c) == [open |-> o, high |-> h, low |-> l, close |-> c]
MCBarShapes == {Bar(100, 101, 99, 100), Bar(98, 98, 90, 92)}
MCUniverse == <<>>
MCHoldings == ("A" :> 100)
====
