---- MODULE Backtests ----
(***************************************************************************)
(* Strategies replayed over stored recommendations: single runs, walk-     *)
(* forward validation and the comparison of several strategies.            *)
(*                                                                         *)
(* A backtest reads the tables the daily engines go on writing.  A single  *)
(* run and a walk-forward are one step each; a comparison reads the        *)
(* recommendations again for every strategy, so other transactions commit  *)
(* between its steps (no snapshot isolation is asked of the database).     *)
(***************************************************************************)
EXTENDS DailyDecisions

CONSTANTS
  Main,         \* the horizon of regimes, costs and comparisons (5 days)
  Regimes,      \* the market regimes a day may be given
  Strategies,   \* a sequence over the keys of the registry
  Trains, Validates, Gaps,   \* walk-forward window lengths
  MaxBacktests

Registry == {"top_grade", "high_score", "multi_signal"}

\* Windows are at least a day long (by default 60 and 20): with a
\* validation window of no days generate_folds would not end.
ASSUME BacktestsAssumption ==
  /\ Main \in Horizons /\ IsFiniteSet(Horizons)
  /\ Strategies \in Seq(Registry) /\ Strategies # <<>>
  /\ Trains \subseteq Nat \ {0} /\ Validates \subseteq Nat \ {0} /\ Gaps \subseteq Nat
  /\ MaxBacktests \in Nat

Cost == 33   \* CostModel.total_cost, in hundredths of a percent

VARIABLES
  regimes,    \* market_regimes: date -> regime
  tests,      \* committed backtest_runs with their backtest_results
  desk        \* the comparison in progress

btVars == <<day, bars, facts, checks, runs, outcomes, calls, regimes, tests, desk>>
dailyVars == <<day, bars, facts, checks, runs, outcomes, calls>>

Idle == [todo |-> <<>>, from |-> 0, to |-> 0, sectors |-> <<>>, results |-> <<>>]

BTInit == DDInit /\ regimes = <<>> /\ tests = <<>> /\ desk = Idle

----
(* The strategies, on the score snapshot of a recommendation. *)

TopGrade(pick) ==
  IF pick.grade \in {"S", "A"} THEN "BUY" ELSE IF pick.grade = "D" THEN "AVOID" ELSE "PASS"

HighScore(pick) ==
  IF pick.total >= 7500 THEN "BUY" ELSE IF pick.total <= 3500 THEN "AVOID" ELSE "PASS"

\* No recommendation carries an earnings score, so that gate is always open.
MultiSignal(pick) ==
  IF pick.level = "HIGH" \/ "RISK_DISCLOSURE" \in pick.flags \/ pick.total <= 3500 THEN "AVOID"
  ELSE IF pick.total >= 6500 /\ pick.fundamental >= 6000 /\ pick.news >= 5000 THEN "BUY"
  ELSE "PASS"

Signal(strategy, pick) ==
  CASE strategy = "top_grade" -> TopGrade(pick)
    [] strategy = "high_score" -> HighScore(pick)
    [] strategy = "multi_signal" -> MultiSignal(pick)

----
(* One run of the engine. *)

\* assign_regime: the last regime on or before the day of the signal.
RegimeAt(date) ==
  LET known == {d \in DOMAIN regimes : d <= date}
  IN  IF known = {} THEN "UNCLASSIFIED" ELSE regimes[LatestOf(known)]

\* _fetch_recommendations: newest run first, then by rank, cut at the limit.
Newer(k, l) ==
  \/ runs[k[1]].date > runs[l[1]].date
  \/ runs[k[1]].date = runs[l[1]].date /\ k[1] > l[1]
  \/ k[1] = l[1] /\ k[2] < l[2]

AskedFor(from, to) ==
  {k \in (DOMAIN runs) \X (1..TopN) :
     k[2] \in DOMAIN runs[k[1]].picks /\ runs[k[1]].date \in from..to}

Fetched(from, to, limit) ==
  LET keys == AskedFor(from, to)
      all == Cardinality(keys)
      place(k) == 1 + Cardinality({l \in keys : Newer(l, k)})
  IN  [i \in 1..(IF limit > 0 /\ all > limit THEN limit ELSE all) |->
         CHOOSE k \in keys : place(k) = i]

\* _fetch_horizon_returns: what the outcome rows say today.
ReturnOf(key, n) ==
  LET o == <<key[1], key[2], n>> IN IF o \in DOMAIN outcomes THEN outcomes[o].close ELSE Missing

DrawdownOf(key) ==
  LET seen == {outcomes[<<key[1], key[2], n>>].drawdown :
                 n \in {m \in Horizons : Has(ReturnOf(key, m))}}
  IN  IF seen = {} THEN Missing ELSE Lowest(seen)

\* _EvaluatedRow: the signal, the returns, the cost taken off a BUY, the regime.
Evaluated(strategy, key) ==
  LET action == Signal(strategy, runs[key[1]].picks[key[2]])
      main == ReturnOf(key, Main)
  IN  [key |-> key, action |-> action, returns |-> [n \in Horizons |-> ReturnOf(key, n)],
       drawdown |-> DrawdownOf(key), regime |-> RegimeAt(runs[key[1]].date),
       net |-> IF action = "BUY" /\ Has(main) THEN main - Cost ELSE Missing]

\* What some numbers come to: how many, how many above zero, their sum.
Digest(values) ==
  LET known == {i \in DOMAIN values : Has(values[i])}
  IN  [n |-> Cardinality(known), wins |-> Cardinality({i \in known : values[i] > 0}),
       sum |-> SumFunctionOnSet(values, known)]

Acting(rows, action) == {i \in DOMAIN rows : rows[i].action = action}
Returns(rows, some, n) == [i \in some |-> rows[i].returns[n]]

\* _aggregate.
Statistics(rows) ==
  LET bought == Acting(rows, "BUY")
      falls == {rows[i].drawdown : i \in bought} \ {Missing}
  IN  [signals |-> Len(rows), buy |-> Cardinality(bought),
       pass |-> Cardinality(Acting(rows, "PASS")), avoid |-> Cardinality(Acting(rows, "AVOID")),
       horizon |-> [n \in Horizons |-> Digest(Returns(rows, bought, n))],
       net |-> Digest([i \in bought |-> rows[i].net]),
       drawdown |-> IF falls = {} THEN Missing ELSE Lowest(falls)]

\* _build_regime_breakdown, the buckets as a function.
RegimeBreakdown(rows) ==
  [g \in {rows[i].regime : i \in Acting(rows, "BUY")} |->
     LET own == {i \in Acting(rows, "BUY") : rows[i].regime = g}
     IN  [buy |-> Cardinality(own), main |-> Digest(Returns(rows, own, Main))]]

Rows(strategy, from, to, limit) ==
  LET keys == Fetched(from, to, limit) IN [i \in DOMAIN keys |-> Evaluated(strategy, keys[i])]

\* BacktestEngine.run with dry_run off: the run and its rows, one transaction.
RunBacktest(strategy, from, to, limit) ==
  /\ Len(tests) < MaxBacktests /\ desk = Idle
  /\ LET rows == Rows(strategy, from, to, limit)
     IN  tests' = Append(tests, [kind |-> "single", from |-> from, to |-> to, rows |-> rows,
                                 stats |-> Statistics(rows), regimes |-> RegimeBreakdown(rows)])
  /\ UNCHANGED <<dailyVars, regimes, desk>>

----
(* Walk-forward validation. *)

\* Mutant: the windows slide by a day.
FoldsDaily(from, to, train, validate, gap) ==
  LET trainEnd(i) == from + i + train - 1
      fold(i) == [train |-> (from + i)..trainEnd(i),
                  validate |-> (trainEnd(i) + gap + 1)..(trainEnd(i) + gap + validate)]
      last(i) == trainEnd(i) + gap + validate
  IN  {fold(i) : i \in {j \in 0..(to - from) : last(j) <= to}}

\* generate_folds: windows slide by the length of the validation window until
\* the next one would end after the last day.
Folds(from, to, train, validate, gap) ==
  LET trainEnd(i) == from + i * validate + train - 1
      fold(i) == [train |-> (from + i * validate)..trainEnd(i),
                  validate |-> (trainEnd(i) + gap + 1)..(trainEnd(i) + gap + validate)]
      last(i) == trainEnd(i) + gap + validate
  IN  {fold(i) : i \in {j \in 0..(to - from) : last(j) <= to}}

First(window) == Lowest(window)
Final(window) == Highest(window)

\* WalkForwardBacktestEngine.run: a dry run over each window, and one row with
\* the sums over the validation windows.
WalkForward(strategy, from, to, train, validate, gap) ==
  LET folds == Folds(from, to, train, validate, gap)
      stats(w) == Statistics(Rows(strategy, First(w), Final(w), 0))
      total(f) == SumFunctionOnSet([x \in folds |-> stats(x.validate)[f]], folds)
      rated == {x \in folds : stats(x.validate).horizon[Main].n > 0}
  IN  /\ Len(tests) < MaxBacktests /\ desk = Idle
      /\ tests' = Append(tests,
           [kind |-> "walk_forward", from |-> from, to |-> to, folds |-> folds,
            signals |-> total("signals"), buy |-> total("buy"),
            pass |-> total("pass"), avoid |-> total("avoid"),
            rated |-> Cardinality(rated)])
      /\ UNCHANGED <<dailyVars, regimes, desk>>

----
(* Comparison of strategies. *)

\* MultiStrategyRunner.run, one strategy at a time: the universe of the sector
\* breakdown is fetched at the start, every strategy fetches its own.
StartComparison(from, to) ==
  /\ Len(tests) < MaxBacktests /\ desk = Idle
  /\ desk' = [todo |-> Strategies, from |-> from, to |-> to,
              sectors |-> Fetched(from, to, 0), results |-> <<>>]
  /\ UNCHANGED <<dailyVars, regimes, tests>>

CompareNext ==
  /\ desk.todo # <<>>
  /\ LET rows == Rows(Head(desk.todo), desk.from, desk.to, 0)
         picked(k) == runs[k[1]].picks[k[2]]
         result == [name |-> Head(desk.todo), keys |-> [i \in DOMAIN rows |-> rows[i].key],
                    stats |-> Statistics(rows),
                    sectorBuys |-> Cardinality({i \in DOMAIN desk.sectors :
                                     Signal(Head(desk.todo), picked(desk.sectors[i])) = "BUY"})]
     IN  desk' = [desk EXCEPT !.todo = Tail(@), !.results = Append(@, result)]
  /\ UNCHANGED <<dailyVars, regimes, tests>>

\* _find_best: the first of the strategies with the best rate of the main horizon.
RateOf(result) == result.stats.horizon[Main]
BeatsRate(a, b) == RateOf(a).wins * RateOf(b).n > RateOf(b).wins * RateOf(a).n
Best(results) ==
  LET rated == {i \in DOMAIN results : RateOf(results[i]).n > 0}
      top == {i \in rated : \A j \in rated : ~BeatsRate(results[j], results[i])}
  IN  IF rated = {} THEN "none" ELSE results[Lowest(top)].name

\* The row named MULTI.  Its signal count is that of the first strategy.
FinishComparison ==
  /\ desk # Idle /\ desk.todo = <<>>
  /\ tests' = Append(tests, [kind |-> "multi", from |-> desk.from, to |-> desk.to,
                             signals |-> desk.results[1].stats.signals, best |-> Best(desk.results),
                             results |-> desk.results])
  /\ desk' = Idle
  /\ UNCHANGED <<dailyVars, regimes>>

\* A regime is stored, perhaps for a day long past.
RegimeArrives(date, regime) ==
  /\ date \in 1..day \ DOMAIN regimes
  /\ regimes' = Over(regimes, [d \in {date} |-> regime])
  /\ UNCHANGED <<dailyVars, tests, desk>>

BTNext ==
  \/ DDNext /\ UNCHANGED <<regimes, tests, desk>>
  \/ \E d \in 1..MaxDay, g \in Regimes : RegimeArrives(d, g)
  \/ \E i \in DOMAIN Strategies, from \in 1..MaxDay, limit \in {0, 1} :
       RunBacktest(Strategies[i], from, MaxDay, limit)
  \/ \E t \in Trains, v \in Validates, g \in Gaps, to \in {MaxDay, MaxDay + 2} :
       WalkForward(Strategies[1], 1, to, t, v, g)
  \/ StartComparison(1, MaxDay)
  \/ CompareNext
  \/ FinishComparison

BTSpec == BTInit /\ [][BTNext]_btVars

----
(* Properties. *)

\* Kinds, and the comparison on the desk.
BTTypeOK ==
  /\ Len(tests) <= MaxBacktests
  /\ \A i \in DOMAIN tests : tests[i].kind \in {"single", "walk_forward", "multi"}
  /\ DOMAIN regimes \subseteq 1..day
  /\ Len(desk.todo) + Len(desk.results) \in {0, Len(Strategies)}

\* A stored run can be recomputed from its own rows, whatever was committed
\* since: the actions partition the signals, every BUY either has a return or
\* is counted missing, the regimes partition the buys and their wins, and no
\* row is outside the asked dates (BacktestEngine.run, aggregate_by_run).
RowsExplainTheRun ==
  \A i \in DOMAIN tests : tests[i].kind = "single" =>
    LET t == tests[i] IN
    /\ t.stats.buy + t.stats.pass + t.stats.avoid = Len(t.rows)
    /\ SumFunction([g \in DOMAIN t.regimes |-> t.regimes[g].buy]) = t.stats.buy
    /\ SumFunction([g \in DOMAIN t.regimes |-> t.regimes[g].main.wins])
         = Cardinality({j \in DOMAIN t.rows : t.rows[j].action = "BUY" /\ Has(t.rows[j].returns[Main])
                                               /\ t.rows[j].returns[Main] > 0})
    /\ t.stats.net.sum = t.stats.horizon[Main].sum - Cost * t.stats.horizon[Main].n
    /\ \A j \in DOMAIN t.rows : runs[t.rows[j].key[1]].date \in t.from..t.to

\* Validation counts a recommendation once: validation windows never overlap,
\* each lies wholly after the window it was trained on and inside the dates
\* asked for, and the stored counts are those of the recommendations in them
\* ("OOS periods never overlap", app/backtest/walk_forward.py:16-17).
ValidationCountsOnce ==
  \A i \in DOMAIN tests : tests[i].kind = "walk_forward" =>
    LET t == tests[i] IN
    /\ \A x, y \in t.folds : x # y => x.validate \cap y.validate = {}
    /\ \A x \in t.folds : \A a \in x.train, b \in x.validate : a < b /\ a >= t.from /\ b <= t.to
    /\ t.signals = t.buy + t.pass + t.avoid
    /\ t.signals <= SumFunction([r \in {q \in DOMAIN runs : \E x \in t.folds : runs[q].date \in x.validate} |->
                                   Len(runs[r].picks)])

\* The strategy a comparison names best is beaten by none of those it compared.
BestIsUnbeaten ==
  \A i \in DOMAIN tests : tests[i].kind = "multi" =>
    LET t == tests[i]
        rated == {j \in DOMAIN t.results : RateOf(t.results[j]).n > 0}
    IN  IF t.best = "none" THEN rated = {}
        ELSE \E j \in rated : /\ t.results[j].name = t.best
                              /\ \A k \in rated : ~BeatsRate(t.results[k], t.results[j])

\* What a stored backtest of any kind claims follows from its own rows.
BacktestsAddUp == RowsExplainTheRun /\ ValidationCountsOnce /\ BestIsUnbeaten
====
