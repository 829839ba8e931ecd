---- MODULE DailyDecisions ----
(***************************************************************************)
(* The engines that decide: holding checks before and after the market,    *)
(* watch-candidate runs, and the outcomes written for past candidates.     *)
(*                                                                         *)
(* Each engine reads tables that other jobs fill day by day, in whatever   *)
(* state a late or failed collection left them: daily prices may arrive    *)
(* days late, an indicator may be missing or old, a check may be repeated  *)
(* by hand or run out of its time of day.  One call of an engine runs in   *)
(* the transaction of its job and is one step.                             *)
(***************************************************************************)
EXTENDS ScoreRules, Sequences, SequencesExt

CONSTANTS
  Universe,    \* the universe members, in symbol order
  Unlisted,    \* members that have no stocks row
  Holdings,    \* a function from the symbols held to their average cost
  Situations,  \* what an indicator row (with the score inputs read beside it) may say
  BarShapes,   \* the [open, high, low, close] a day may bring
  Horizons,    \* days_after: 1, 3, 5 and 20 in the code
  Reach,       \* REFERENCE_LOOKBACK_DAYS
  Memory,      \* lookback_days of update_results
  TopN, MaxDay, MaxChecks, MaxPicks, MaxReviews

\* Prices are positive, which is what the quality checker expects of a bar
\* (data/validators/quality.py); it reports others and stores them, and a
\* reference close of zero makes every review raise.
Price == Nat \ {0}
ASSUME DailyDecisionsAssumption ==
  /\ Universe \in Seq(STRING) /\ DOMAIN Holdings \subseteq STRING /\ IsFiniteSet(DOMAIN Holdings)
  /\ Situations \subseteq [technical : Int, alignment : STRING, volume : Int, ma20 : Int,
                          filings : Nat, news : Int, fundamental : Int, report : Int, signal : Int]
  /\ BarShapes \subseteq [open : Price, high : Price, low : Price, close : Price]
  /\ Horizons \subseteq Nat \ {0}
  /\ Reach \in Nat /\ Memory \in Nat /\ TopN \in Nat
  /\ MaxDay \in Nat \ {0} /\ MaxChecks \in Nat /\ MaxPicks \in Nat /\ MaxReviews \in Nat

Symbols == Range(Universe) \cup DOMAIN Holdings
Types == <<"PRE_MARKET", "POST_MARKET">>
Blank == [technical |-> Missing]   \* no indicator row

VARIABLES
  day,        \* the current date
  bars,       \* daily_prices: by symbol, then by date
  facts,      \* the latest stock_indicators row of each symbol
  checks,     \* holding_checks, by <<date, type, symbol>>
  runs,       \* recommendation_runs with their recommendations
  outcomes,   \* recommendation_results, by <<run, rank, days_after>>
  calls       \* how often each engine was called (a bound)

ddVars == <<day, bars, facts, checks, runs, outcomes, calls>>

\* Upserts: the rows written over those of a table.
Over(table, rows) ==
  [k \in DOMAIN rows \cup DOMAIN table |-> IF k \in DOMAIN rows THEN rows[k] ELSE table[k]]

DDInit ==
  /\ day = 1
  /\ bars = [s \in Symbols |-> <<>>]
  /\ facts = [s \in Symbols |-> Blank]
  /\ checks = <<>> /\ runs = <<>> /\ outcomes = <<>>
  /\ calls = [check |-> 0, pick |-> 0, review |-> 0]

----
(* What the collection and indicator jobs leave behind. *)

NewDay ==
  /\ day < MaxDay /\ day' = day + 1
  /\ UNCHANGED <<bars, facts, checks, runs, outcomes, calls>>

\* A collection asks for a span of days in prices adjusted as of now, and upserts
\* what it gets: a missed day may be filled later, a stored one be written over.
BarArrives(s, d, bar) ==
  /\ d \in 1..day
  /\ bars' = [bars EXCEPT ![s] = Over(@, [e \in {d} |-> bar])]
  /\ UNCHANGED <<day, facts, checks, runs, outcomes, calls>>

IndicatorArrives(s, situation) ==
  /\ DOMAIN bars[s] # {}
  /\ facts' = [facts EXCEPT ![s] = situation]
  /\ UNCHANGED <<day, bars, checks, runs, outcomes, calls>>

LatestOf(dates) == CHOOSE d \in dates : \A e \in dates : e <= d

----
(* Holding checks. *)

\* find_previous_for_symbol: the last row strictly before this date and type.
Rank(key) == 2 * key[1] + (IF key[2] = "PRE_MARKET" THEN 0 ELSE 1)
\* Mutant: the row of the same date and type is found too.
PreviousKeysOrSame(key) == {k \in DOMAIN checks : k[3] = key[3] /\ Rank(k) <= Rank(key)}

PreviousKeys(key) == {k \in DOMAIN checks : k[3] = key[3] /\ Rank(k) < Rank(key)}
PreviousTotal(key) ==
  IF PreviousKeys(key) = {} THEN Missing
  ELSE checks[CHOOSE k \in PreviousKeys(key) : \A o \in PreviousKeys(key) : Rank(o) <= Rank(k)].total

\* _evaluate_and_persist: the weighted total, the risk judged against the
\* previous stored total, and the total again with the penalty taken off.
CheckRow(key) ==
  LET s == key[3]
      ind == facts[s]
      price == bars[s][LatestOf(DOMAIN bars[s])].close
      scores == WithTechnical(DummyScores(ind), ind)
      plain == Compose(HoldingWeights, scores, 0)
      risk == HoldingRisk(ind, plain, PreviousTotal(key), price,
                          ReturnRate(price, Holdings[s]), ind.filings)
      total == Compose(HoldingWeights, scores, risk.penalty)
  IN  [ind |-> ind, price |-> price, before |-> PreviousTotal(key), plain |-> plain,
       flags |-> risk.flags, total |-> total, decision |-> DecisionOf[Grade(total)]]

\* HoldingCheckEngine.run: a holding without a price or an indicator is skipped.
CheckHoldings(type) ==
  LET ready == {s \in DOMAIN Holdings : DOMAIN bars[s] # {} /\ facts[s] # Blank}
      keys == {<<day, type, s>> : s \in ready}
  IN  /\ calls.check < MaxChecks
      /\ checks' = Over(checks, [k \in keys |-> CheckRow(k)])
      /\ calls' = [calls EXCEPT !.check = @ + 1]
      /\ UNCHANGED <<day, bars, facts, runs, outcomes>>

----
(* Watch candidates. *)

\* The candidate a member becomes: risk, then score, then the reports' nudge.
Candidate(s) ==
  LET ind == facts[s]
      risk == RecommendationRisk(ind, ind.filings)
      scores == [WithTechnical(DummyScores(ind), ind)
                   EXCEPT !.news = ind.news, !.fundamental = ind.fundamental]
      base == Compose(NewWeights, scores, risk.penalty)
      total == Adjusted(base, ind.report, ind.signal)
  IN  [symbol |-> s, total |-> total, grade |-> Grade(total), flags |-> risk.flags,
       level |-> risk.level, news |-> ind.news, fundamental |-> ind.fundamental]

Candidates ==
  {Candidate(s) : s \in {t \in Range(Universe) \ Unlisted : facts[t] # Blank}}

SymbolOrder(s) == CHOOSE i \in DOMAIN Universe : Universe[i] = s

\* Two stable sorts, by symbol and then by total, highest first: a candidate's
\* place is one more than the number of those before it.
Before(a, b) ==
  \/ a.total > b.total
  \/ a.total = b.total /\ SymbolOrder(a.symbol) < SymbolOrder(b.symbol)

Place(all, c) == 1 + Cardinality({b \in all : Before(b, c)})

Picks == LET all == Candidates
         IN  [r \in 1 .. Min({TopN, Cardinality(all)}) |-> CHOOSE c \in all : Place(all, c) = r]

\* RecommendationEngine.generate: a run row, its ranked recommendations, and
\* SUCCESS or EMPTY.
Recommend ==
  /\ calls.pick < MaxPicks
  /\ runs' = Append(runs, [date |-> day, picks |-> Picks,
                           status |-> IF Picks = <<>> THEN "EMPTY" ELSE "SUCCESS"])
  /\ calls' = [calls EXCEPT !.pick = @ + 1]
  /\ UNCHANGED <<day, bars, facts, checks, outcomes>>

----
(* Outcomes. *)

\* _resolve_reference: the bar of the run's date, else the last one before it.
References(s, date) == {d \in DOMAIN bars[s] : d <= date /\ d >= date - Reach}

Percent(value, base) == ((value - base) * 10000) \div base   \* hundredths of a percent

\* Mutant: a rise is looked for before a fall.
ClassifySuccessFirst(high, low, close) ==
  IF high >= 300 \/ close >= 100 THEN "SUCCESS" ELSE IF low <= -500 THEN "FAILED" ELSE "PENDING"

Classify(high, low, close) ==
  IF low <= -500 THEN "FAILED"
  ELSE IF high >= 300 \/ close >= 100 THEN "SUCCESS" ELSE "PENDING"

Lowest(values) == CHOOSE v \in values : \A w \in values : v <= w
Highest(values) == CHOOSE v \in values : \A w \in values : v >= w

\* basis is a history: the bars a verdict was measured from, as they were then.
NotYet == [status |-> "PENDING", on |-> day, ref |-> 0, close |-> Missing, basis |-> <<>>]

\* The bars after the reference, up to n calendar days after it.
Window(s, ref, n) == {d \in DOMAIN bars[s] : d > ref /\ d <= ref + n}

\* _compute_for_days_after: the window judged on what it holds so far.
Measured(s, ref, n) ==
  LET base == bars[s][ref].close
      seen == Window(s, ref, n)
      last == LatestOf(seen)
      high == Percent(Highest({bars[s][d].high : d \in seen}), base)
      low == Percent(Lowest({bars[s][d].low : d \in seen}), base)
      close == Percent(bars[s][last].close, base)
  IN  IF seen = {} THEN NotYet
      ELSE [status |-> Classify(high, low, close), on |-> last, ref |-> ref,
            close |-> close, high |-> high, low |-> low,
            drawdown |-> Percent(Lowest({bars[s][d].low : d \in seen}),
                                 Highest({base} \cup {bars[s][d].high : d \in seen})),
            basis |-> [d \in {ref} \cup seen |-> bars[s][d]]]

Outcome(i, r, n) ==
  LET s == runs[i].picks[r].symbol
      refs == References(s, runs[i].date)
  IN  IF refs = {} THEN NotYet ELSE Measured(s, LatestOf(refs), n)

\* Mutant: a verdict is not looked at again.
ReviewPending ==
  LET due == {k \in (DOMAIN runs) \X (1..TopN) \X Horizons :
                k[2] \in DOMAIN runs[k[1]].picks /\ runs[k[1]].date >= day - Memory
                /\ (k \in DOMAIN outcomes => outcomes[k].status = "PENDING")}
  IN  /\ calls.review < MaxReviews
      /\ outcomes' = Over(outcomes, [k \in due |-> Outcome(k[1], k[2], k[3])])
      /\ calls' = [calls EXCEPT !.review = @ + 1]
      /\ UNCHANGED <<day, bars, facts, checks, runs>>

\* RecommendationResultService.update_results: every recommendation of the
\* last Memory days, every horizon, overwritten by what the prices say now.
ReviewOutcomes ==
  LET due == {k \in (DOMAIN runs) \X (1..TopN) \X Horizons :
                k[2] \in DOMAIN runs[k[1]].picks /\ runs[k[1]].date >= day - Memory}
  IN  /\ calls.review < MaxReviews
      /\ outcomes' = Over(outcomes, [k \in due |-> Outcome(k[1], k[2], k[3])])
      /\ calls' = [calls EXCEPT !.review = @ + 1]
      /\ UNCHANGED <<day, bars, facts, checks, runs>>

DDNext ==
  \/ NewDay
  \/ \E s \in Symbols, d \in 1..MaxDay, bar \in BarShapes : BarArrives(s, d, bar)
  \/ \E s \in Symbols, x \in Situations : IndicatorArrives(s, x)
  \/ \E i \in DOMAIN Types : CheckHoldings(Types[i])
  \/ Recommend
  \/ ReviewOutcomes

DDSpec == DDInit /\ [][DDNext]_ddVars

----
(* Properties. *)

\* The shape of the tables: dates never lie ahead, ranks are dense, and a
\* stored decision is the one its total calls for (_decision_from_grade).
DDTypeOK ==
  /\ day \in 1..MaxDay
  /\ \A s \in Symbols : DOMAIN bars[s] \subseteq 1..day
  /\ \A k \in DOMAIN checks :
       /\ k[1] <= day /\ k[3] \in DOMAIN Holdings
       /\ checks[k].total \in 0..Top /\ checks[k].decision = DecisionOf[Grade(checks[k].total)]
  /\ \A i \in DOMAIN runs : runs[i].date <= day /\ Len(runs[i].picks) <= TopN
  /\ \A k \in DOMAIN outcomes : k[1] \in DOMAIN runs /\ outcomes[k].on <= day

\* Repeating a check does not change its verdict: if the price, the indicator
\* and the row that precedes the check are what they were when it last ran,
\* it writes the same row (find_previous_for_symbol never finds the check's
\* own row, "strictly before").
VerdictsRepeat ==
  \A k \in DOMAIN checks :
    LET earlier == {o \in DOMAIN checks :
                      o[3] = k[3] /\ (o[1] < k[1] \/ (o[1] = k[1] /\ o[2] # k[2] /\ o[2] = "PRE_MARKET"))}
        lastTotals == {checks[o].total : o \in {p \in earlier : \A q \in earlier : Rank(q) <= Rank(p)}}
    IN  /\ checks'[k].ind = checks[k].ind
        /\ checks'[k].price = checks[k].price
        /\ lastTotals = (IF checks[k].before = Missing THEN {} ELSE {checks[k].before})
        => checks'[k] = checks[k]

\* A run keeps the best: within a run nobody is ranked above a better total,
\* ties go by symbol, and no member left out beats one that was kept
\* ("secondary asc by symbol, primary desc by score").
RunsKeepTheBest ==
  LET run == runs'[Len(runs')]
      kept == {run.picks[r].symbol : r \in DOMAIN run.picks}
      better(a, b) == \/ a.total > b.total
                      \/ a.total = b.total /\ SymbolOrder(a.symbol) < SymbolOrder(b.symbol)
  IN  Len(runs') > Len(runs) =>
      /\ \A q, r \in DOMAIN run.picks : q < r => better(run.picks[q], run.picks[r])
      /\ \A c \in Candidates : c.symbol \notin kept =>
           Len(run.picks) = TopN /\ \A r \in DOMAIN run.picks : better(run.picks[r], c)

\* A decision is the one its inputs call for, also when it is made again.
DecisionsAreReproducible == [][VerdictsRepeat]_checks /\ [][RunsKeepTheBest]_runs

\* A verdict looks at its own window only: after the reference, not beyond
\* the horizon, and never at the day of the run or earlier once that day has
\* its price.
StaysInItsWindow(k) ==
  /\ outcomes[k].ref <= runs[k[1]].date /\ outcomes[k].ref >= runs[k[1]].date - Reach
  /\ outcomes[k].on > outcomes[k].ref /\ outcomes[k].on <= outcomes[k].ref + k[3]

\* Horizons of one recommendation agree, whichever bars came late: measured
\* together they share a reference, a longer window saw at least what a
\* shorter one did, and a fall that failed the shorter failed the longer.
HorizonsAgree ==
  /\ \A k \in DOMAIN outcomes : Has(outcomes[k].close) => StaysInItsWindow(k)
  /\ \A k, l \in DOMAIN outcomes :
       k[1] = l[1] /\ k[2] = l[2] /\ k[3] < l[3] /\ Has(outcomes[k].close) =>
         /\ Has(outcomes[l].close) /\ outcomes[l].ref = outcomes[k].ref
         /\ outcomes[l].on >= outcomes[k].on
         /\ outcomes[l].low <= outcomes[k].low /\ outcomes[l].high >= outcomes[k].high
         /\ outcomes[l].drawdown <= outcomes[k].drawdown
         /\ outcomes[k].status = "FAILED" => outcomes[l].status = "FAILED"

\* The bars an outcome was measured from are still what they were.
StillRests(k) ==
  LET s == runs[k[1]].picks[k[2]].symbol
      o == outcomes[k]
  IN  \A d \in DOMAIN o.basis : d \in DOMAIN bars[s] /\ bars[s][d] = o.basis[d]

\* A failure is final: bars that are added later turn it over only by moving the
\* reference it was measured from; else it takes a collection that wrote over one
\* of the bars it was measured from.
FailuresAreFinal ==
  [][\A k \in DOMAIN outcomes :
       outcomes[k].status = "FAILED" /\ StillRests(k) =>
         outcomes'[k].status = "FAILED" \/ outcomes'[k].ref # outcomes[k].ref]_outcomes

\* Claimed (app/decision/risk_engine.py:163-168): comparing a total before
\* its penalty with a stored one after its penalty "does not change the
\* alert outcome".  Like for like, a drop of 15 points raises the flag and a
\* smaller one does not.
DropsAreFlagged ==
  \A k, l \in DOMAIN checks :
    /\ k[3] = l[3] /\ Rank(k) < Rank(l)
    /\ \A m \in DOMAIN checks : m[3] = k[3] => Rank(m) <= Rank(k) \/ Rank(m) >= Rank(l)
    /\ checks[l].before = checks[k].total
    => ("SCORE_DROP" \in checks[l].flags <=> checks[k].plain - checks[l].plain >= 1500)
====
