---- MODULE ScoreEvidence ----
(***************************************************************************)
(* The evidence behind one symbol's component scores, as it accumulates:   *)
(* news rows that age, risk filings, fundamental snapshots and earnings    *)
(* events that are replaced, analyst consensus and themes.                 *)
(*                                                                         *)
(* The real producers wrap one another (each takes a fallback), in         *)
(* whatever order the caller nests them, with the rule-based producer at   *)
(* the bottom.                                                             *)
(***************************************************************************)
EXTENDS ScoreRules, Sequences, SequencesExt

CONSTANTS
  NewsRows,     \* [mood, risk] a news row may have
  Snapshots,    \* fundamental snapshots that may be stored
  Events,       \* earnings events that may be stored
  Consensuses,  \* analyst consensus rows, each with the close it meets
  Signals,      \* [themes, events] of the symbol
  Sources,      \* provenance labels of the feeds
  NewsSpan,     \* the longest age of a row in the models, past both lookbacks
  Spans, MaxNews, MaxDays   \* how many days may pass at once; bounds

Ratios == {"per", "pbr", "roe", "revenue", "income", "debt", "dividend"}
SurpriseTypes == {"BEAT", "MEET", "MISS", "UNKNOWN"}
EventRows == [kind : SurpriseTypes \cup {"none"}, pct : Int, age : Int,
              source : Sources \cup DOMAIN Reliability \cup {"none"}]
ConsensusRows == [count : Int, ratings : [DOMAIN RatingWeight -> Nat],
                  target : Int, age : Int, close : Int]

ASSUME ScoreEvidenceAssumption ==
  /\ \A f \in Snapshots : \A x \in Ratios : f[x] \in Int
  /\ NewsRows \subseteq [mood : DOMAIN Mood, risk : BOOLEAN]
  /\ Events \subseteq EventRows /\ Consensuses \subseteq ConsensusRows
  /\ \A s \in Signals :
       /\ IsFiniteSet(s.themes) /\ IsFiniteSet(s.events)
       /\ \A x \in s.themes \cup s.events : x.direction \in DOMAIN Direction /\ x.strength \in Int
  /\ NewsSpan \in Nat /\ MaxNews \in Nat /\ MaxDays \in Nat /\ Spans \subseteq Nat

NoSnapshot == [per |-> Missing, pbr |-> Missing, roe |-> Missing, revenue |-> Missing,
               income |-> Missing, debt |-> Missing, dividend |-> Missing, source |-> "none"]
NoEvent == [kind |-> "none", pct |-> Missing, age |-> 0, source |-> "none"]
NoConsensus == [count |-> 0, ratings |-> [r \in DOMAIN RatingWeight |-> 0],
                target |-> Missing, age |-> Missing, close |-> Missing]
NoSignals == [themes |-> {}, events |-> {}]

VARIABLES
  rows,       \* news_items of the symbol: [id, mood, risk, age]
  snapshot, event, consensus, signals,   \* the latest row of each table
  elapsed,    \* days since the start (a bound)
  config      \* fixed: the policy switch and the news feed's label

evVars == <<rows, snapshot, event, consensus, signals, elapsed, config>>

Real == {"news", "fundamental", "earnings"}
Nests == SetToSeqs(Real)   \* outermost first

EVInit ==
  /\ rows = {} /\ snapshot = NoSnapshot /\ event = NoEvent
  /\ consensus = NoConsensus /\ signals = NoSignals /\ elapsed = 0
  /\ config \in [policy : BOOLEAN, label : Sources]

----
NewsArrives(row) ==
  /\ Cardinality(rows) < MaxNews
  /\ rows' = rows \cup {[id |-> Cardinality(rows) + 1, mood |-> row.mood, risk |-> row.risk, age |-> 0]}
  /\ UNCHANGED <<snapshot, event, consensus, signals, elapsed, config>>

\* Rows, events and consensus grow older; a feed's gap may be days long.
DaysPass(n) ==
  /\ elapsed + n <= MaxDays /\ elapsed' = elapsed + n
  /\ rows' = {[r EXCEPT !.age = Within(@ + n, 0, NewsSpan)] : r \in rows}
  /\ event' = [event EXCEPT !.age = @ + n]
  /\ consensus' = [consensus EXCEPT !.age = IF Has(@) THEN @ + n ELSE @]
  /\ UNCHANGED <<snapshot, signals, config>>

SnapshotStored(f) ==
  /\ snapshot' = f
  /\ UNCHANGED <<rows, event, consensus, signals, elapsed, config>>
EventStored(e) ==
  /\ event' = e
  /\ UNCHANGED <<rows, snapshot, consensus, signals, elapsed, config>>
ReportsStored(c, s) ==
  /\ consensus' = c /\ signals' = s
  /\ UNCHANGED <<rows, snapshot, event, elapsed, config>>

EVNext ==
  \/ \E row \in NewsRows : NewsArrives(row)
  \/ \E n \in Spans : DaysPass(n)
  \/ \E f \in Snapshots : SnapshotStored(f)
  \/ \E e \in Events : EventStored(e)
  \/ \E c \in Consensuses, s \in Signals : ReportsStored(c, s)

EVSpec == EVInit /\ [][EVNext]_evVars

----
(* What the producers make of it. *)

WeekOfNews == {r \in rows : r.age <= 7}                    \* _NEWS_LOOKBACK_DAYS
RiskFilings == Cardinality({r \in rows : r.age <= 14 /\ r.risk})  \* DisclosureRiskProducer

\* Each real producer replaces its own score and passes the rest on: news in
\* both kinds of decision, fundamental for recommendations, earnings for
\* holdings only.
NewsProducer(base) ==
  [base EXCEPT !.news = ApplyPolicy(config.policy, NewsScore(WeekOfNews), config.label)]
FundamentalProducer(kind, base) ==
  IF kind = "holding" THEN base
  ELSE [base EXCEPT !.fundamental =
          ApplyPolicy(config.policy, FundamentalScore(snapshot), snapshot.source)]
EarningsProducer(kind, base) ==
  IF kind = "recommendation" THEN base
  ELSE [base EXCEPT !.earnings = ApplyPolicy(config.policy, EarningsScore(event), event.source)]

Produce(kind, producer, base) ==
  CASE producer = "news" -> NewsProducer(base)
    [] producer = "fundamental" -> FundamentalProducer(kind, base)
    [] producer = "earnings" -> EarningsProducer(kind, base)

\* The scores an engine receives when the producers are nested as nest says,
\* outermost first.
Scores(kind, nest, ind) ==
  LET built[n \in 0..Len(nest)] ==   \* by the n innermost
        IF n = 0 THEN DummyScores(ind)
        ELSE Produce(kind, nest[Len(nest) + 1 - n], built[n - 1])
  IN  built[Len(nest)]
Usual == <<"news", "fundamental", "earnings">>

----
(* Properties. *)

Bland == [volume |-> Missing, alignment |-> "MIXED", technical |-> Neutral]

EVTypeOK ==
  /\ Cardinality(rows) <= MaxNews /\ \A r \in rows : r.age \in 0..NewsSpan
  /\ elapsed \in 0..MaxDays
  /\ snapshot \in Snapshots \cup {NoSnapshot}

\* Nesting is a matter of taste: whichever producer is outermost, an engine
\* receives the same scores ("Composition pattern: delegates ... and overrides
\* only news_score", RealNewsScoreProducer and the other two).
NestingDoesNotMatter ==
  \A kind \in {"recommendation", "holding"}, nest \in Nests :
    Scores(kind, nest, Bland) = Scores(kind, Usual, Bland)

\* A better balance sheet never scores worse.  Better in every respect the
\* formula reads: dearer multiples count against, so they may only fall, and
\* stay above zero (a negative multiple is a loss and scores as the cheapest);
\* a figure below zero that was unknown before costs points.
Better(f, g) ==
  /\ \A field \in {"roe", "revenue", "income", "dividend"} :
       Has(f[field]) /\ Has(g[field]) /\ f[field] >= g[field]
  /\ \A field \in {"per", "pbr", "debt"} : f[field] <= g[field] /\ f[field] > 0
BetterSnapshotsNeverHurt ==
  [][Better(snapshot', snapshot) /\ snapshot'.source = snapshot.source
     => FundamentalScore(snapshot') >= FundamentalScore(snapshot)]_snapshot

\* No heap of evidence takes a score, or the total the reports have nudged,
\* off the scale of 0 to 100 points.
ScoresStayOnScale ==
  \A kind \in {"recommendation", "holding"} :
    LET scores == Scores(kind, Usual, Bland)
        risk == RecommendationRisk(Bland, RiskFilings)
        base == Compose(NewWeights, WithTechnical(scores, Bland), risk.penalty)
        total == Adjusted(base, ReportScore(consensus, consensus.close),
                          SignalScore(signals.themes, signals.events))
    IN  /\ \A c \in DOMAIN scores : scores[c] \in 0..Top
        /\ risk.penalty <= 5000 /\ total \in 0..Top
====
