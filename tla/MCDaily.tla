---- MODULE MCDaily ----
(***************************************************************************)
(* The daily work, model-checked: one part of DailyWork moves, the others  *)
(* stay in their initial state.                                            *)
(***************************************************************************)
EXTENDS DailyWork

VARIABLE part   \* the part that moves

allVars == <<jobsVars, mdVars, btVars, evVars, importVars, part>>

\* DailyJobs.  The second day only sees what the first left running.
MCTimetable == <<"report", "collect", "indicators", "pre_market", "news">>
AcrossMidnight ==
  today' = 2 => /\ slot' = 1 /\ Len(jobRuns') = Len(jobRuns)
                /\ \E t \in Threads : call[t].pc # "idle"

\* MarketData: a plain list, another order, a duplicate rank, a bad row; and
\* bars with a repeated day, one bar, a bad row, a row the database refuses.
Ranked(r, s, w) == [rank |-> r, symbol |-> s, whole |-> w]
MCRankLists == {<<Ranked(1, "a", TRUE)>>, <<Ranked(1, "b", TRUE), Ranked(2, "a", TRUE)>>,
                <<Ranked(1, "a", TRUE), Ranked(1, "b", TRUE)>>,
                <<Ranked(1, "b", TRUE), Ranked(2, "a", FALSE)>>}
DailyBar(d, c, w, f) == [day |-> d, close |-> c, whole |-> w, fits |-> f]
MCBarLists == {<<DailyBar(1, 10, TRUE, TRUE), DailyBar(1, 11, TRUE, TRUE)>>,
               <<DailyBar(1, 12, TRUE, TRUE)>>, <<DailyBar(1, 9, FALSE, TRUE)>>,
               <<DailyBar(1, 8, TRUE, FALSE)>>}
\* What comes in, with tokens that last; and tokens as time passes, with an
\* injected one or without.
Collecting == INSTANCE MarketData WITH MaxClock <- 0, Lifetimes <- {3}
Ageing == INSTANCE MarketData WITH
  MaxCollections <- 1, RankLists <- {<<Ranked(1, "b", TRUE), Ranked(2, "a", TRUE)>>},
  BarLists <- {<<DailyBar(1, 12, TRUE, TRUE)>>}
Given == INSTANCE MarketData WITH Injected <- TRUE

\* DailyDecisions and Backtests: a strong, a middling and a bad symbol.
Situation(t, al, v, m, f, n, fu, rp, sg) ==
  [technical |-> t, alignment |-> al, volume |-> v, ma20 |-> m, filings |-> f, news |-> n,
   fundamental |-> fu, report |-> rp, signal |-> sg]
Strong == Situation(10000, "PERFECT_BULL", 25, 100, 0, 9000, 8000, Missing, Missing)
Middling == Situation(4000, "MIXED", 10, 100, 0, 5000, 5000, 8000, 6000)
Bad == Situation(1500, "BEAR", Missing, Missing, 2, 5000, 5000, Missing, 4000)
Bar(o, h, l, c) == [open |-> o, high |-> h, low |-> l, close |-> c]
Flat == Bar(100, 101, 99, 100)
Rise == Bar(100, 104, 98, 101)
Fall == Bar(98, 98, 90, 92)
MCSituations == {Strong, Middling, Bad}
MCBarShapes == {Flat, Rise, Fall}
MCUniverse == <<"A", "B", "C">>
MCHoldings == ("A" :> 100)
MCStrategies == <<"multi_signal", "high_score">>

Checking == INSTANCE Backtests WITH
  MaxDay <- 2, MaxPicks <- 0, MaxReviews <- 0, MaxBacktests <- 0, Regimes <- {},
  BarShapes <- {Flat, Fall}
Picking == INSTANCE Backtests WITH
  MaxDay <- 1, MaxChecks <- 0, MaxReviews <- 0, MaxBacktests <- 0, Regimes <- {},
  BarShapes <- {Flat}
Reviewing == INSTANCE Backtests WITH
  MaxChecks <- 0, MaxPicks <- 1, MaxBacktests <- 0, Regimes <- {}, Situations <- {Strong}
Testing == INSTANCE Backtests WITH
  MaxDay <- 2, MaxChecks <- 0, MaxReviews <- 1, Situations <- {Strong}, BarShapes <- {Rise, Fall}
Signalling == INSTANCE Backtests WITH
  MaxDay <- 2, MaxChecks <- 0, MaxReviews <- 1, Situations <- {Strong, Bad}, BarShapes <- {Fall}
Only(moving) ==
  \A s \in Symbols \ moving : bars'[s] = bars[s] /\ facts'[s] = facts[s]

\* ScoreEvidence.
MCNewsRows == {[mood |-> "POSITIVE", risk |-> FALSE], [mood |-> "NEGATIVE", risk |-> TRUE]}
Snap(pe, pb, r, v, i, d, y) ==
  [per |-> pe, pbr |-> pb, roe |-> r, revenue |-> v, income |-> i, debt |-> d, dividend |-> y,
   source |-> "CSV"]
MCSnapshots == {Snap(70, 9, 25, 40, 60, 40, 6), Snap(160, 30, 5, 10, 10, 120, 1),
                Snap(300, 45, -20, -30, -40, 250, 0), Snap(-50, 5, -20, -30, -40, 250, 0)}
MCEvents == {[kind |-> "BEAT", pct |-> 10, age |-> 25, source |-> "PROVIDER"],
             [kind |-> "MISS", pct |-> -30, age |-> -2, source |-> "MANUAL"]}
MCConsensuses ==
  {[count |-> 2, target |-> 200, close |-> 100, age |-> 13,
    ratings |-> [STRONG_BUY |-> 2, BUY |-> 0, HOLD |-> 0, SELL |-> 0, STRONG_SELL |-> 0]]}
MCSignals ==
  {[themes |-> {[direction |-> "NEGATIVE", strength |-> 10]},
    events |-> {[direction |-> "NEGATIVE", strength |-> 10, warning |-> TRUE]}]}

\* Imports: files with duplicates and NULLs, and a fault at every column.
ReportLine(k, y, s, r, p, th, rel, sg, f) ==
  [key |-> k, day |-> y, type |-> "COMPANY", symbol |-> s, rating |-> r, target |-> p,
   theme |-> th, related |-> rel, signal |-> sg, fault |-> f]
Figures(a, c) == [actual |-> a, consensus |-> c, surprise |-> Absent, pct |-> NoFigure]
MetricLine(q, v, f) == [key |-> <<"s", q>>, values |-> v, fault |-> f]
CsvFile(k, lines) == [kind |-> k, header |-> TRUE, rows |-> lines]
MCFiles ==
  {CsvFile("reports", <<ReportLine("r1", 1, "s", "BUY", 100, Absent, <<>>, "CUSTOM", "none"),
                        ReportLine("r2", 2, "s", Absent, 201, "AI", <<"s">>, Absent, "mapping"),
                        ReportLine("r3", 1, Absent, "HOLD", NoFigure, Absent, <<>>, Absent, "report")>>),
   CsvFile("reports", <<ReportLine("r2", 2, "s", "SELL", 201, "AI", <<"s", "x", "s">>, "CUSTOM", "none"),
                        ReportLine("r3", 1, Absent, "HOLD", NoFigure, Absent, <<>>, "CUSTOM", "signal")>>),
   CsvFile("reports", <<ReportLine("r4", 1, "s", "BUY", 102, "AI", <<>>, Absent, "theme"),
                        ReportLine("r2", 2, "s", "SELL", 201, "AI", <<>>, Absent, "database")>>),
   CsvFile("earnings", <<MetricLine(1, Figures(1050, 1000), "none"),
                         MetricLine(0, Figures(949, 1000), "none"),
                         MetricLine(1, Figures(NoFigure, 1000), "none")>>),
   CsvFile("fundamentals", <<MetricLine(0, Figures(1, 1), "none"), MetricLine(1, Figures(1, 2), "head")>>),
   [CsvFile("earnings", <<MetricLine(1, Figures(1, 1), "none")>>) EXCEPT !.header = FALSE]}

MCInit ==
  /\ part \in {"jobs", "market", "tokens", "checks", "picks", "reviews", "tests", "signals", "evidence", "imports"}
  /\ JobsInit /\ (part # "jobs" => /\ slot = 1 /\ telegram = "off"
                                   /\ db = Database(FALSE, <<>>, Held))
  /\ part = "jobs" /\ telegram = "off" => slot \in {1, 4}
  /\ MDInit \/ (part = "tokens" /\ Given!MDInit)
  /\ BTInit
  /\ ImportsInit
  /\ EVInit /\ (part # "evidence" => config = [policy |-> FALSE, label |-> "CSV"])

JobsMove == part = "jobs" /\ UNCHANGED <<mdVars, btVars, evVars, importVars, part>>
DecisionsMove == UNCHANGED <<jobsVars, mdVars, evVars, importVars, part>>

MCNext ==
  \/ JobsMove /\ JobsNext /\ AcrossMidnight
  \/ /\ (part = "market" /\ Collecting!MDNext) \/ (part = "tokens" /\ Ageing!MDNext)
     /\ UNCHANGED <<jobsVars, btVars, evVars, importVars, part>>
  \/ part = "checks" /\ Checking!BTNext /\ Only({"A"}) /\ DecisionsMove
  \/ part = "picks" /\ Picking!BTNext /\ DecisionsMove
  \/ part = "reviews" /\ Reviewing!BTNext /\ Only({"A"}) /\ DecisionsMove
  \/ part = "tests" /\ tests = <<>> /\ Testing!BTNext /\ Only({"A"}) /\ DecisionsMove
  \/ part = "signals" /\ tests = <<>> /\ Signalling!BTNext /\ Only({"A"}) /\ DecisionsMove
  \/ part = "evidence" /\ EVNext /\ UNCHANGED <<jobsVars, mdVars, btVars, importVars, part>>
  \/ part = "imports" /\ ImportsNext /\ UNCHANGED <<jobsVars, mdVars, btVars, evVars, part>>

\* The threads of a process run: what a job has started goes on.
MCSpec ==
  /\ MCInit /\ [][MCNext]_allVars
  /\ \A t \in Threads : WF_allVars(JobsMove /\ Step(t))
====
