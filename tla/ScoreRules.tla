---- MODULE ScoreRules ----
(***************************************************************************)
(* The arithmetic of a decision: how the producers turn news, filings and  *)
(* indicators into component scores, how the risk engine turns facts into  *)
(* flags and a penalty, and how the scoring engine weighs the components.  *)
(*                                                                         *)
(* Everything here is a function of its arguments (the code holds no state *)
(* in these classes).  Scores and penalties are integers in hundredths of  *)
(* a point, market inputs are in the unit their comment names; a Python    *)
(* None is Missing.  The four-decimal quantisation of the code is finer    *)
(* than this unit, so no rounding shows for the inputs the models use.     *)
(***************************************************************************)
EXTENDS Integers, FiniteSets, FiniteSetsExt, Functions

Missing == -100000
Has(x) == x # Missing

Neutral == 5000
Top == 10000

\* max(lower, min(upper, value)): _clamp_component, _clip_score and _clip.
Within(x, lower, upper) ==
  IF x < lower THEN lower ELSE IF x > upper THEN upper ELSE x

OnScale(x) == Within(x, 0, Top)

----
(* Component scores. *)

\* volume is today's volume over the 20-day average, in tenths.
SupplyScore(volume) ==
  IF ~Has(volume) THEN Neutral
  ELSE IF volume >= 20 THEN 5500
  ELSE IF volume <= 7 THEN 4500
  ELSE Neutral

AiScore(alignment) ==
  CASE alignment \in {"BULL", "PERFECT_BULL"} -> 5500
    [] alignment \in {"BEAR", "PERFECT_BEAR"} -> 4500
    [] OTHER -> Neutral

\* DummyScoreProducer, the producer both engines get when none is injected.
DummyScores(ind) ==
  [news |-> Neutral, supply |-> SupplyScore(ind.volume), earnings |-> Neutral,
   fundamental |-> Neutral, ai |-> AiScore(ind.alignment)]

\* Tenths by age in days; a row from the future counts as fresh.
Recency(age) ==
  IF age <= 1 THEN 10 ELSE IF age <= 3 THEN 7 ELSE IF age <= 7 THEN 3 ELSE 0

Mood == [POSITIVE |-> 1, NEUTRAL |-> 0, UNKNOWN |-> 0, NEGATIVE |-> -1]

\* rows: the symbol's news of the last week, records with an age and a mood.
NewsScore(rows) ==
  LET felt == SumFunction([r \in rows |-> Mood[r.mood] * Recency(r.age)])
  IN  IF rows = {} THEN Neutral
      ELSE OnScale(Neutral + (felt * 50) \div Cardinality(rows))

\* Points the price multiples, the balance sheet and the growth rates give;
\* per and pbr in tenths, rates in percent.
MultiplePoints(f) ==
  (IF ~Has(f.per) THEN 0
   ELSE IF f.per <= 80 THEN 800 ELSE IF f.per <= 150 THEN 400
   ELSE IF f.per <= 250 THEN 0 ELSE IF f.per <= 400 THEN -600 ELSE -1200)
  + (IF ~Has(f.pbr) THEN 0
     ELSE IF f.pbr <= 10 THEN 400 ELSE IF f.pbr >= 40 THEN -800
     ELSE IF f.pbr >= 25 THEN -400 ELSE 0)

\* Mutant: the bounds of the clamps are swapped.
GrowthPointsSwapped(f) ==
  (IF Has(f.roe) THEN 60 * Within(f.roe, 25, -10) ELSE 0)
  + (IF Has(f.revenue) THEN 25 * Within(f.revenue, 30, -20) ELSE 0)
  + (IF Has(f.income) THEN 25 * Within(f.income, 50, -30) ELSE 0)

GrowthPoints(f) ==
  (IF Has(f.roe) THEN 60 * Within(f.roe, -10, 25) ELSE 0)
  + (IF Has(f.revenue) THEN 25 * Within(f.revenue, -20, 30) ELSE 0)
  + (IF Has(f.income) THEN 25 * Within(f.income, -30, 50) ELSE 0)

BalancePoints(f) ==
  (IF ~Has(f.debt) THEN 0
   ELSE IF f.debt >= 200 THEN -1500 ELSE IF f.debt >= 100 THEN -800
   ELSE IF f.debt <= 50 THEN 300 ELSE 0)
  + (IF Has(f.dividend) /\ f.dividend > 0 THEN 80 * Within(f.dividend, 0, 5) ELSE 0)

\* Mutant: the sum is not clamped.
FundamentalScoreOpen(f) ==
  Neutral + MultiplePoints(f) + GrowthPoints(f) + BalancePoints(f)

FundamentalScore(f) ==
  OnScale(Neutral + MultiplePoints(f) + GrowthPoints(f) + BalancePoints(f))

\* event: kind BEAT, MISS or other, pct the surprise in percent, age in days.
EarningsScore(event) ==
  LET base == CASE event.kind = "BEAT" -> 1000 [] event.kind = "MISS" -> -1000 [] OTHER -> 0
      extra == IF Has(event.pct) THEN Within(50 * event.pct, -1000, 1000) ELSE 0
      fresh == IF event.age < 0 THEN 5 ELSE IF event.age <= 30 THEN 10
               ELSE IF event.age <= 90 THEN 6 ELSE 3
  IN  OnScale(Neutral + ((base + extra) * fresh) \div 10)

\* DisclosureRiskProducer: three points for each risk filing, ten at most.
DisclosurePenalty(count) == Within(300 * count, 0, 1000)

----
(* The reliability policy. *)

Reliability == [PROVIDER |-> 100, CSV |-> 90, MANUAL |-> 80]

ApplyPolicy(enabled, score, source) ==
  IF ~enabled \/ source \notin DOMAIN Reliability THEN score
  ELSE (score * Reliability[source]) \div 100

----
(* Analyst reports: the adjustment of a recommendation. *)

RatingWeight == [STRONG_BUY |-> 2, BUY |-> 1, HOLD |-> 0, SELL |-> -1, STRONG_SELL |-> -2]

\* consensus: how many reports gave each rating, all of them (an unrated one
\* too) in count, the mean target price, the age of the latest.
ReportScore(consensus, close) ==
  LET upside == IF ~Has(consensus.target) \/ ~Has(close) \/ close <= 0 THEN 0
                ELSE Within(((consensus.target - close) * 100) \div close, -40, 60)
      voice == SumFunction([r \in DOMAIN consensus.ratings |-> RatingWeight[r] * consensus.ratings[r]])
      fresh == IF ~Has(consensus.age) THEN 0
               ELSE IF consensus.age <= 14 THEN 500 ELSE IF consensus.age <= 30 THEN 300 ELSE 0
  IN  IF consensus.count <= 0 THEN Missing
      ELSE OnScale(Neutral + 50 * upside + (1000 * voice) \div consensus.count + fresh)

Direction == [POSITIVE |-> 1, NEGATIVE |-> -1, MIXED |-> 0, NEUTRAL |-> 0]

\* themes and events: sets of records with a direction and a strength in
\* tenths; an event may be a risk warning.
SignalScore(themes, events) ==
  LET mean(rows) == IF rows = {} THEN 0
                    ELSE (100 * SumFunction([r \in rows |-> Direction[r.direction] * r.strength]))
                         \div Cardinality(rows)
      warned == Within(250 * Cardinality({e \in events : e.warning}), 0, 1000)
  IN  IF themes = {} /\ events = {} THEN Missing
      ELSE OnScale(Neutral + mean(themes) + mean(events) - warned)

\* calculate_score_adjustment: five points up or down from each.
Adjusted(base, report, signal) ==
  LET nudge(score) == IF Has(score) THEN Within((score - Neutral) \div 10, -500, 500) ELSE 0
  IN  OnScale(base + nudge(report) + nudge(signal))

----
(* Risk. *)

FlagPenalty == [LOW_TECHNICAL_SCORE |-> 1000, BEARISH_MA_ALIGNMENT |-> 800,
                VOLUME_RATIO_MISSING |-> 300, VOLUME_RATIO_EXTREME |-> 500]

HoldingPenalty == [SCORE_DROP |-> 1200, MA20_BREAKDOWN |-> 800, STOP_LOSS_NEAR |-> 1500,
                   LOW_TECHNICAL_SCORE |-> 500]

RiskLevel(penalty) == IF penalty >= 1500 THEN "HIGH" ELSE IF penalty >= 500 THEN "MEDIUM" ELSE "LOW"

\* What flags, their price list and the risk filings come to: 50 points at most.
Assessment(flags, price, filings) ==
  LET penalty == Within(SumFunctionOnSet(price, flags) + DisclosurePenalty(filings), 0, 5000)
  IN  [flags |-> flags \cup (IF filings > 0 THEN {"RISK_DISCLOSURE"} ELSE {}),
       penalty |-> penalty, level |-> RiskLevel(penalty)]

\* evaluate_recommendation.  technical is in hundredths like every score.
RecommendationRisk(ind, filings) ==
  Assessment(
    {f \in DOMAIN FlagPenalty :
       \/ f = "LOW_TECHNICAL_SCORE" /\ Has(ind.technical) /\ ind.technical < 2000
       \/ f = "BEARISH_MA_ALIGNMENT" /\ ind.alignment \in {"BEAR", "PERFECT_BEAR"}
       \/ f = "VOLUME_RATIO_MISSING" /\ ~Has(ind.volume)
       \/ f = "VOLUME_RATIO_EXTREME" /\ Has(ind.volume) /\ ind.volume >= 50},
    FlagPenalty, filings)

\* evaluate_holding.  now is the weighted total before any penalty, before
\* the stored total of the previous check, gain the return in percent.
HoldingRisk(ind, now, before, price, gain, filings) ==
  Assessment(
    {f \in DOMAIN HoldingPenalty :
       \/ f = "SCORE_DROP" /\ Has(before) /\ before - now >= 1500
       \/ f = "MA20_BREAKDOWN" /\ Has(ind.ma20) /\ price < ind.ma20
       \/ f = "STOP_LOSS_NEAR" /\ Has(gain) /\ gain <= -5
       \/ f = "LOW_TECHNICAL_SCORE" /\ Has(ind.technical) /\ ind.technical < 2000},
    HoldingPenalty, filings)

----
(* Totals, grades, decisions. *)

NewWeights == [technical |-> 35, news |-> 25, supply |-> 15, fundamental |-> 15, ai |-> 10]

\* profit_management has a weight of ten, and no caller supplies it: it
\* counts as zero.
HoldingWeights == [technical |-> 35, news |-> 20, earnings |-> 20, ai |-> 15]

\* _compose: a missing component counts as zero.
Compose(weights, scores, penalty) ==
  LET worth(c) == IF Has(scores[c]) THEN OnScale(scores[c]) ELSE 0
      share == [c \in DOMAIN weights |-> (weights[c] * worth(c)) \div 100]
  IN  OnScale(SumFunction(share) - (IF penalty > 0 THEN penalty ELSE 0))

WithTechnical(scores, ind) ==
  [c \in DOMAIN scores \cup {"technical"} |-> IF c = "technical" THEN ind.technical ELSE scores[c]]

Grade(total) ==
  IF total >= 8500 THEN "S" ELSE IF total >= 7000 THEN "A"
  ELSE IF total >= 5500 THEN "B" ELSE IF total >= 4000 THEN "C" ELSE "D"

DecisionOf == [S |-> "HOLD", A |-> "HOLD", B |-> "WATCH", C |-> "REDUCE", D |-> "SELL_REVIEW"]

\* _compute_return_rate, in whole percent (rounded down).
ReturnRate(price, cost) == IF cost = 0 THEN Missing ELSE ((price - cost) * 100) \div cost
====
