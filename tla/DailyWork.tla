---- MODULE DailyWork ----
(***************************************************************************)
(* The daily work, side by side: the jobs and their runs, the market data, *)
(* the decisions and backtests, the evidence behind the scores and the CSV *)
(* imports.  They share no variable; what one leaves to the next is in the *)
(* constants (a late bar, a failed collection, a missing indicator).       *)
(***************************************************************************)
EXTENDS DailyJobs, MarketData, Backtests, ScoreEvidence, Imports

DailySpec == JobsSpec /\ MDSpec /\ BTSpec /\ EVSpec /\ ImportsSpec

\* Some evidence has arrived.
Evidence == <<rows, snapshot, event, consensus, signals>> #
            <<{}, NoSnapshot, NoEvent, NoConsensus, NoSignals>>

\* The shape of every table; and scores that stay on their scale however the
\* producers are nested.
DailyTypeOK ==
  /\ JobsTypeOK /\ MDTypeOK /\ DDTypeOK /\ BTTypeOK /\ EVTypeOK /\ ImportsTypeOK
  /\ Evidence => NestingDoesNotMatter /\ ScoresStayOnScale
====
