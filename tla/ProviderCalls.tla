---- MODULE ProviderCalls ----
(***************************************************************************)
(* Calls to the outside data providers: the retry loop and the circuit     *)
(* breaker of app/data/provider_resilience.py, the in-memory health        *)
(* monitor of provider_health_monitor.py, the DART and RSS clients that    *)
(* call through them, and the ingestion functions that store what they     *)
(* fetch.  One caller at a time: the breaker is documented as not          *)
(* thread-safe, and every fetch is a sequential loop.                      *)
(***************************************************************************)
EXTENDS Integers, Sequences, FiniteSets, SequencesExt, FiniteSetsExt

CONSTANTS
  Targets,         \* corp codes, or feed URLs, in the order they are asked
  Outages,         \* the unusable answers of the outside world, see Kind
  Listings,        \* what a list endpoint or a feed may hold
  Statements,      \* what the single-account endpoint may hold
  Ops,             \* the ingestions that are run
  Cutoffs, Limits, \* values of the since and limit arguments
  Threshold, ResetTimeout, MaxAttempts,   \* settings of breaker and retry
  CallCap, FailCap,                       \* lengths of the two ring buffers
  MaxNow, MaxCalls                       \* bounds of the exploration

Entries == [url : STRING, day : Int, whole : BOOLEAN, words : SUBSET STRING]
Amounts == [field : STRING, amount : Int]

ASSUME ProviderCallsAssumption ==
  /\ Threshold \in Nat \ {0} /\ ResetTimeout \in Nat /\ MaxAttempts \in Nat \ {0}
  /\ CallCap \in Nat \ {0} /\ FailCap \in Nat \ {0} /\ MaxNow \in Nat
  /\ Ops \subseteq {"disclosures", "fundamentals", "earnings", "news"}
  /\ Targets \in Seq(STRING) /\ Listings \subseteq Seq(Entries) /\ Statements \subseteq Seq(Amounts)
  /\ Cutoffs \subseteq Int /\ Limits \subseteq Int

Provider(op) == IF op = "news" THEN "rss" ELSE "dart"
Providers == {Provider(op) : op \in Ops}
IsListing(op) == op \in {"disclosures", "news"}

\* The error kind of an unusable answer.  The DART transport maps exceptions, HTTP
\* statuses, bodies and, through classify_dart_status, the code in the envelope:
\* "013", no data for this query, is a client error like a bad key.
DartKind(answer) ==
  CASE answer = "timeout"                                         -> "TIMEOUT"
    [] answer \in {"http 4xx", "dart 010", "dart 013", "dart 020"} -> "CLIENT_ERROR"
    [] answer \in {"http 5xx", "dart 800"}                        -> "SERVER_ERROR"
    [] OTHER                                                      -> "UNKNOWN"

\* The RSS transport takes any body of a 200 as a success.
RssKind(answer) ==
  CASE answer = "timeout"  -> "TIMEOUT"
    [] answer = "http 4xx" -> "CLIENT_ERROR"
    [] answer = "http 5xx" -> "SERVER_ERROR"
    [] OTHER               -> "UNKNOWN"
RssOutages == {"timeout", "http 4xx", "http 5xx", "http 3xx", "network"}

\* The answers to an operation: an outage, a success with a payload, or a success
\* whose payload the parser rejects.
Reply(ok, kind, readable, payload) ==
  [ok |-> ok, kind |-> kind, readable |-> readable, payload |-> payload]
Answers(op) ==
  {Reply(TRUE, "-", TRUE, l) : l \in IF IsListing(op) THEN Listings ELSE Statements}
  \cup {Reply(TRUE, "-", FALSE, <<>>)}
  \cup (IF op = "news" THEN {Reply(FALSE, RssKind(a), FALSE, <<>>) : a \in Outages \cap RssOutages}
        ELSE {Reply(FALSE, DartKind(a), FALSE, <<>>) : a \in Outages})

VARIABLES
  breaker,         \* per provider: state, consecutive failures, opening time
  stats,           \* per provider: the monitor's counters and ring buffers
  fetch,           \* the ingestion in progress
  tables,          \* news_items by url, fundamental_snapshots, earnings_events
  time,
  log              \* every recorded call (history, for the properties)

provVars == <<breaker, stats, fetch, tables, time, log>>

Closed == [state |-> "CLOSED", failures |-> 0, openedAt |-> 0]
NoStats == [calls |-> 0, ok |-> 0, failed |-> 0, lastKind |-> "-",
            recent |-> <<>>, failures |-> <<>>]
NoWork == [op |-> "-", pc |-> "idle", todo |-> <<>>, out |-> <<>>, since |-> 0,
           limit |-> 0, attempt |-> 0, from |-> 0, good |-> {}, failed |-> 0]
EmptyTables == [news |-> <<>>, fundamentals |-> <<>>, earnings |-> <<>>]

ProvInit ==
  /\ breaker = [p \in Providers |-> Closed]
  /\ stats = [p \in Providers |-> NoStats]
  /\ fetch = NoWork
  /\ tables = EmptyTables
  /\ time = 0
  /\ log = [p \in Providers |-> <<>>]

----
\* Mutant: an open breaker lets the next call through.
TryResetAtOnce(b) ==
  IF b.state = "OPEN"
  THEN [b EXCEPT !.state = "HALF_OPEN"] ELSE b

\* CircuitBreaker: OPEN turns HALF_OPEN when the reset timeout has passed, a
\* success closes it, a failure counts and may open it.
TryReset(b) ==
  IF b.state = "OPEN" /\ time - b.openedAt >= ResetTimeout
  THEN [b EXCEPT !.state = "HALF_OPEN"] ELSE b

AfterCall(b, ok) ==
  IF ok THEN Closed
  ELSE LET n == b.failures + 1
       IN  IF b.state = "HALF_OPEN" \/ n >= Threshold
           THEN [state |-> "OPEN", failures |-> n, openedAt |-> time]
           ELSE [b EXCEPT !.failures = n]

\* A deque with maxlen.
Push(q, x, cap) == LET long == Append(q, x)
                   IN  IF Len(long) > cap THEN Tail(long) ELSE long

\* record_result.  A fast-fail is recorded like any failed call.
RecordResult(s, call) ==
  IF call.ok
  THEN [s EXCEPT !.calls = @ + 1, !.ok = @ + 1, !.lastKind = "-",
                 !.recent = Push(@, call, CallCap)]
  ELSE [s EXCEPT !.calls = @ + 1, !.failed = @ + 1, !.lastKind = call.kind,
                 !.recent = Push(@, call, CallCap), !.failures = Push(@, call, FailCap)]

Recorded(ok, kind, attempts) == [at |-> time, ok |-> ok, kind |-> kind, attempts |-> attempts]

\* What the history adds to a recorded call: when it began, and whether the
\* provider was asked at all.
Remember(call, from, asked) ==
  [at |-> call.at, ok |-> call.ok, kind |-> call.kind, attempts |-> call.attempts,
   from |-> from, asked |-> asked]

----
\* The rows at some places, in their order.
Picked(rows, places) ==
  [n \in 1..Cardinality(places) |->
     rows[CHOOSE i \in places : 1 + Cardinality({j \in places : j < i}) = n]]

\* The parsers keep the well-formed rows: a disclosure needs a title, a receipt
\* number and a receipt date, a feed entry a title, a link and a readable date.
WholeDisclosures(rows) == Picked(rows, {i \in DOMAIN rows : rows[i].whole})
WholeEntries(rows) == Picked(rows, {i \in DOMAIN rows : rows[i].whole})

\* since: what was published before that day is left out.
Since(rows, since) == Picked(rows, {i \in DOMAIN rows : rows[i].day >= since})

\* A statement is folded into one amount per known account, a later row of an
\* account replacing an earlier one.  Earnings read three of the accounts.
Folded(rows, accounts) ==
  LET fields == {rows[i].field : i \in DOMAIN rows} \cap accounts
      last(f) == Max({i \in DOMAIN rows : rows[i].field = f})
  IN  [f \in fields |-> rows[last(f)].amount]
EarningsAccounts == {"revenue", "operating_income", "net_income"}
BalanceAccounts == {"total_assets", "total_liabilities", "total_equity"}
FoldedFundamentals(rows) == Folded(rows, EarningsAccounts \cup BalanceAccounts)
FoldedEarnings(rows) == Folded(rows, EarningsAccounts)

\* What a fetch holds after one more target was read.  Disclosures apply since and
\* limit inside the loop, and a limit of zero still returns one row.
Room(limit, out) == Max({1, limit - Len(out)})
WithDisclosures(w, rows) ==
  LET fresh == Since(WholeDisclosures(rows), w.since)
  IN  w.out \o SubSeq(fresh, 1, Min({Len(fresh), Room(w.limit, w.out)}))
WithNews(w, rows) == w.out \o WholeEntries(rows)
WithFundamentals(w, rows) ==
  Append(w.out, [target |-> Head(w.todo), fields |-> FoldedFundamentals(rows)])
WithEarnings(w, rows) ==
  Append(w.out, [target |-> Head(w.todo), fields |-> FoldedEarnings(rows)])
Gathered(w, answer) ==
  CASE ~answer.readable                          -> w.out
    [] answer.readable /\ w.op = "disclosures"   -> WithDisclosures(w, answer.payload)
    [] answer.readable /\ w.op = "news"          -> WithNews(w, answer.payload)
    [] answer.readable /\ w.op = "fundamentals"  -> WithFundamentals(w, answer.payload)
    [] answer.readable /\ w.op = "earnings"      -> WithEarnings(w, answer.payload)

Satisfied(w, out) ==
  w.op \in {"disclosures", "earnings"} /\ Len(out) >= w.limit /\ Len(out) > 0

\* RSS deduplicates the merged feeds by url, the first copy winning, then drops
\* what is older than since and what exceeds a limit other than zero.
Deduplicated(rows) ==
  Picked(rows, {i \in DOMAIN rows : \A j \in 1..(i - 1) : rows[j].url # rows[i].url})
FetchResult(w) ==
  IF w.op # "news" THEN w.out
  ELSE LET fresh == Since(Deduplicated(w.out), w.since)
       IN  IF w.limit # 0 /\ Len(fresh) > w.limit THEN SubSeq(fresh, 1, w.limit) ELSE fresh

----
\* An ingest_* call that is enabled and configured; the providers register with
\* the monitor, which keeps what it has.
BeginFetch(op, since, limit) ==
  /\ fetch.pc = "idle" /\ Len(log[Provider(op)]) < MaxCalls
  /\ fetch' = [NoWork EXCEPT !.op = op, !.pc = "next", !.todo = Targets,
                            !.since = since, !.limit = limit]
  /\ UNCHANGED <<breaker, stats, tables, time, log>>

Done(w, out) == IF Len(w.todo) = 1 \/ Satisfied(w, out) THEN "store" ELSE "next"

\* call_with_resilience on the next target: refused while the breaker is OPEN.
FastFail ==
  LET p == Provider(fetch.op)
      call == Recorded(FALSE, "UNKNOWN", 1)
  IN  /\ fetch.pc = "next"
      /\ TryReset(breaker[p]).state = "OPEN"
      /\ stats' = [stats EXCEPT ![p] = RecordResult(@, call)]
      /\ log' = [log EXCEPT ![p] = Append(@, Remember(call, time, FALSE))]
      /\ fetch' = [fetch EXCEPT !.todo = Tail(@), !.pc = Done(fetch, fetch.out),
                              !.failed = @ + 1]
      /\ UNCHANGED <<breaker, tables, time>>

Admit ==
  LET p == Provider(fetch.op)
  IN  /\ fetch.pc = "next"
      /\ TryReset(breaker[p]).state # "OPEN"
      /\ breaker' = [breaker EXCEPT ![p] = TryReset(@)]
      /\ fetch' = [fetch EXCEPT !.pc = "try", !.attempt = 1, !.from = time]
      /\ UNCHANGED <<stats, tables, time, log>>

\* One request.  A failure that may be retried, with attempts left, is slept
\* on; any other answer ends the call: breaker, monitor and parser see it.
Retryable(answer) == ~answer.ok /\ answer.kind # "CLIENT_ERROR" /\ fetch.attempt < MaxAttempts

Ask(answer) ==
  /\ fetch.pc = "try"
  /\ IF Retryable(answer)
     THEN fetch' = [fetch EXCEPT !.attempt = @ + 1] /\ UNCHANGED <<breaker, stats, log>>
     ELSE LET p == Provider(fetch.op)
              call == Recorded(answer.ok, answer.kind, fetch.attempt)
              out == Gathered(fetch, answer)
          IN  /\ breaker' = [breaker EXCEPT ![p] = AfterCall(@, answer.ok)]
              /\ stats' = [stats EXCEPT ![p] = RecordResult(@, call)]
              /\ log' = [log EXCEPT ![p] = Append(@, Remember(call, fetch.from, TRUE))]
              /\ fetch' = [fetch EXCEPT
                   !.out = out, !.todo = Tail(@), !.pc = Done(fetch, out),
                   !.good = IF answer.readable THEN @ \cup {<<Head(fetch.todo), answer.payload>>} ELSE @,
                   !.failed = IF answer.readable THEN @ ELSE @ + 1]
  /\ UNCHANGED <<tables, time>>

----
\* classify_disclosure: the first category, in this order, one of whose words
\* occurs in the title, the type or the summary.
Priority == <<"RISK", "EARNINGS", "OWNERSHIP", "GOVERNANCE">>
Category(words) ==
  LET hits == {i \in DOMAIN Priority : Priority[i] \in words}
  IN  IF hits = {} THEN "OTHER" ELSE Priority[Min(hits)]

NewsRow(r, op) == [day |-> r.day, category |-> IF op = "news" THEN "-" ELSE Category(r.words)]
UrlsIn(rows) == {rows[i].url : i \in DOMAIN rows}
CopiesOf(u, rows) == {i \in DOMAIN rows : rows[i].url = u}

\* Mutant: a row that is found is rewritten.
InsertedAnew(news, rows, op) ==
  [u \in DOMAIN news \cup UrlsIn(rows) |->
     IF u \in UrlsIn(rows) THEN NewsRow(rows[Max(CopiesOf(u, rows))], op) ELSE news[u]]

\* upsert_by_url keeps the row it finds, so of two rows with one url the first
\* is stored; upsert_by_symbol_period and upsert_by_symbol_event overwrite.
Inserted(news, rows, op) ==
  [u \in DOMAIN news \cup UrlsIn(rows) |->
     IF u \in DOMAIN news THEN news[u] ELSE NewsRow(rows[Min(CopiesOf(u, rows))], op)]
Upserted(table, items) ==
  LET at(key) == {i \in DOMAIN items : <<items[i].target, time>> = key}
  IN  [key \in DOMAIN table \cup {<<items[i].target, time>> : i \in DOMAIN items} |->
         IF at(key) = {} THEN table[key] ELSE items[Max(at(key))].fields]

Store ==
  /\ fetch.pc = "store"
  /\ LET rows == FetchResult(fetch)
     IN  tables' = IF IsListing(fetch.op)
                   THEN [tables EXCEPT !.news = Inserted(@, rows, fetch.op)]
                   ELSE [tables EXCEPT ![fetch.op] = Upserted(@, rows)]
  /\ fetch' = NoWork
  /\ UNCHANGED <<breaker, stats, time, log>>

\* monitor.reset by an operator, between calls.
ResetMonitor(p) ==
  /\ fetch.pc = "idle"
  /\ breaker' = [breaker EXCEPT ![p] = Closed]
  /\ stats' = [stats EXCEPT ![p] = NoStats]
  /\ log' = [log EXCEPT ![p] = <<>>]
  /\ UNCHANGED <<fetch, tables, time>>

\* Time passes between ingestions, while a request is out and while a retry sleeps.
PassTime ==
  /\ fetch.pc \in {"idle", "try"}
  /\ time < MaxNow /\ time' = time + 1
  /\ UNCHANGED <<breaker, stats, fetch, tables, log>>

SinceOf(op) == IF IsListing(op) THEN Cutoffs ELSE {0}
LimitsOf(op) == IF op = "fundamentals" THEN {0} ELSE Limits

ProvNext ==
  \/ \E op \in Ops : \E since \in SinceOf(op), limit \in LimitsOf(op) : BeginFetch(op, since, limit)
  \/ FastFail
  \/ Admit
  \/ \E answer \in Answers(fetch.op) : Ask(answer)
  \/ Store
  \/ \E p \in Providers : ResetMonitor(p)
  \/ PassTime

ProvSpec == ProvInit /\ [][ProvNext]_provVars

----
ProvTypeOK ==
  /\ \A p \in Providers : breaker[p].state \in {"CLOSED", "OPEN", "HALF_OPEN"}
  /\ fetch.pc \in {"idle", "next", "try", "store"} /\ fetch.attempt \in 0 .. MaxAttempts
  /\ \A p \in Providers : Len(stats[p].recent) <= CallCap /\ Len(stats[p].failures) <= FailCap
  /\ time \in 0 .. MaxNow

\* The monitor's counters and ring buffers are a digest of every call made since
\* the last reset: totals add up, and each buffer holds its newest entries in
\* order, with the fast-fails among them.
Seen(c) == [at |-> c.at, ok |-> c.ok, kind |-> c.kind, attempts |-> c.attempts]
KeepsNewest(buffer, calls, S, cap) ==
  /\ Len(buffer) = Min({cap, Cardinality(S)})
  /\ \A k \in DOMAIN buffer : \E i \in S :
       /\ buffer[k] = Seen(calls[i])
       /\ Cardinality({j \in S : j > i}) = Len(buffer) - k
Failed(calls) == {i \in DOMAIN calls : ~calls[i].ok}
StatsDigestTheLog ==
  \A p \in Providers :
    LET calls == log[p]
    IN  /\ stats[p].calls = Len(calls)
        /\ stats[p].failed = Cardinality(Failed(calls))
        /\ stats[p].ok = Len(calls) - Cardinality(Failed(calls))
        /\ KeepsNewest(stats[p].recent, calls, DOMAIN calls, CallCap)
        /\ KeepsNewest(stats[p].failures, calls, Failed(calls), FailCap)

\* The breaker opens at Threshold consecutive failed calls, not before, and
\* refusals do not count among them: it is closed exactly when fewer of the
\* calls since the last success failed.
FailuresSinceSuccess(calls) ==
  LET asked == {i \in DOMAIN calls : calls[i].asked}
      lastOk == Max({0} \cup {i \in asked : calls[i].ok})
  IN  Cardinality({i \in asked : i > lastOk})
BreakerCountsFailures ==
  \A p \in Providers :
    /\ breaker[p].failures = FailuresSinceSuccess(log[p])
    /\ (breaker[p].state = "CLOSED") = (FailuresSinceSuccess(log[p]) < Threshold)

\* A provider that has failed Threshold times in a row is left alone: between
\* its last failure and the next call that reaches it lies the reset timeout.
FailingProviderRests ==
  \A p \in Providers : \A j \in DOMAIN log[p] :
    LET before == {i \in 1 .. j - 1 : log[p][i].asked}
    IN  (log[p][j].asked /\ FailuresSinceSuccess(SubSeq(log[p], 1, j - 1)) >= Threshold)
        => log[p][j].from - log[p][Max(before)].at >= ResetTimeout

\* The state in memory follows from the calls that were made, and so does who is
\* asked next.
HealthFollowsTheCalls == StatsDigestTheLog /\ BreakerCountsFailures /\ FailingProviderRests

\* Targets do not disturb each other while the provider works: a fetch with no
\* failed target and room for everything returns each well-formed, fresh row.
RowsOf(w) == UNION {ToSet(WholeEntries(g[2])) : g \in w.good}
SameDayCopies(w) == \A r, s \in RowsOf(w) : r.url = s.url => r.day = s.day
GoodAnswersAreKept ==
  (fetch.pc = "store" /\ IsListing(fetch.op) /\ fetch.todo = <<>> /\ SameDayCopies(fetch)
    /\ Len(FetchResult(fetch)) < fetch.limit)
  => {r.url : r \in {q \in RowsOf(fetch) : q.day >= fetch.since}}
       = {FetchResult(fetch)[i].url : i \in DOMAIN FetchResult(fetch)}

\* What is stored under an earlier key stays: a news row is never rewritten by a
\* later copy of its url, and a statement fetched today leaves other days alone.
StoredStays ==
  /\ \A u \in DOMAIN tables.news :
       u \in DOMAIN tables'.news /\ tables'.news[u] = tables.news[u]
  /\ \A t \in {"fundamentals", "earnings"} : \A k \in DOMAIN tables[t] :
       /\ k \in DOMAIN tables'[t]
       /\ k[2] # time => tables'[t][k] = tables[t][k]

\* An ingestion neither loses what it was given nor harms what was stored.
IngestionKeepsWhatItGot == []GoodAnswersAreKept /\ [][StoredStays]_tables
====
