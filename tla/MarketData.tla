---- MODULE MarketData ----
(***************************************************************************)
(* The collection of market data: KisClient and its access token           *)
(* (app/data/collectors/kis_client.py), the normalizers, the two           *)
(* collectors and the tables they write, inside the one transaction that   *)
(* collect_market_close_data works in.  DailyJobs has the job around it.   *)
(***************************************************************************)
EXTENDS Integers, Sequences, FiniteSets, SequencesExt, FiniteSetsExt

CONSTANTS
  RankLists,       \* what the ranking endpoint may return
  BarLists,        \* what the daily-price endpoint may return for a symbol
  Lifetimes,       \* expires_in of a token
  Injected,        \* TRUE: the client was built with an access token
  Margin,          \* the 60 seconds the client gives a token less
  Flight,          \* the longest a request is under way before the client gives it up
  MaxClock, MaxCollections    \* bounds

ASSUME MarketDataAssumption ==
  /\ RankLists \subseteq Seq([rank : Nat, symbol : STRING, whole : BOOLEAN])
  /\ BarLists \subseteq Seq([day : Nat, close : Nat, whole : BOOLEAN, fits : BOOLEAN])
  /\ Lifetimes \subseteq Nat /\ Injected \in BOOLEAN /\ Margin \in Nat
  /\ MaxClock \in Nat /\ MaxCollections \in Nat

\* The margin has room for the answer that brings a token and for a request made
\* with it (kis_timeout_seconds is 10 by default).
ASSUME FlightAssumption == Flight \in Nat /\ 2 * Flight <= Margin

Never == -1
NoTx == [pc |-> "idle", rankings |-> <<>>, names |-> {}, members |-> {}, bars |-> <<>>,
         todo |-> {}, saved |-> {}, failed |-> {}, broken |-> FALSE]
EmptyBook == [rankings |-> <<>>, names |-> {}, members |-> {}, bars |-> <<>>]

VARIABLES
  token,      \* the client's token: its number (0: none) and when it expires
  server,     \* external: when each issued token dies
  clock,
  book,       \* committed: rankings of the day, stocks, universe, daily prices
  tx,         \* the collection in progress, its writes and its tally
  sent,       \* the request under way: what for, its token, since when; and
              \* whether the last one was refused for its token
  collections

mdVars == <<token, server, clock, book, tx, sent, collections>>

MDInit ==
  /\ clock = 0 /\ book = EmptyBook /\ tx = NoTx /\ collections = 0
  /\ IF Injected THEN /\ token = [id |-> 1, until |-> Never]
                      /\ server \in {<<[dies |-> d, life |-> d, ours |-> FALSE]>> : d \in Lifetimes}
     ELSE token = [id |-> 0, until |-> Never] /\ server = <<>>
  /\ sent = [pc |-> "none", id |-> 0, at |-> 0, refused |-> FALSE]

----
\* issue_access_token: the token in hand is used while its own clock allows; an
\* injected one has no expiry and is used for ever.
Usable == token.id # 0 /\ (token.until = Never \/ clock < token.until)

Asking == tx.pc = "ranking" \/ (tx.pc = "bars" /\ tx.todo # {})

\* Else one is asked for.  The broker counts from when it issued the token, the
\* client from when it has the answer.
IssueToken(life) ==
  /\ Asking /\ sent.pc = "none" /\ ~Usable
  /\ server' = Append(server, [dies |-> clock + life, life |-> life, ours |-> TRUE])
  /\ sent' = [pc |-> "token", id |-> Len(server) + 1, at |-> clock, refused |-> FALSE]
  /\ UNCHANGED <<token, clock, book, tx, collections>>

InTime == clock <= sent.at + Flight

TokenArrives ==
  /\ sent.pc = "token" /\ InTime
  /\ token' = [id |-> sent.id, until |-> clock + Max({server[sent.id].life - Margin, 0})]
  /\ sent' = [sent EXCEPT !.pc = "request", !.at = clock]
  /\ UNCHANGED <<server, clock, book, tx, collections>>

\* _request: what is asked for goes out with a token that was good when it was
\* looked at, and the broker looks again when it handles the request.
SendRequest ==
  /\ Asking /\ sent.pc = "none" /\ Usable
  /\ sent' = [pc |-> "request", id |-> token.id, at |-> clock, refused |-> FALSE]
  /\ UNCHANGED <<token, server, clock, book, tx, collections>>

\* It ends.  A dead token, like any other HTTP error, timeout or malformed body,
\* or no token to be had, raises.
Asked(ok) ==
  LET heard == sent.pc = "request" /\ InTime
      dead == heard /\ clock >= server[sent.id].dies
  IN  /\ sent.pc # "none" \/ ~Usable
      /\ ok => heard /\ ~dead
      /\ sent' = [sent EXCEPT !.pc = "none", !.refused = dead]
      /\ UNCHANGED <<token, server>>

----
\* normalize_market_cap_rankings and normalize_daily_prices raise at the first
\* row that lacks a required field.
Normal(rows) == \A i \in DOMAIN rows : rows[i].whole

\* The unique constraints of market_cap_rankings.  The quality checker reports
\* duplicates, and everything else it finds, without stopping anything.
Storable(rows) ==
  \A i, j \in DOMAIN rows : i # j => rows[i].rank # rows[j].rank /\ rows[i].symbol # rows[j].symbol
Issues(rows) ==
  {"DUPLICATE_RANK" : p \in {q \in (DOMAIN rows) \X (DOMAIN rows) :
                               q[1] < q[2] /\ rows[q[1]].rank = rows[q[2]].rank}}
  \cup {"DUPLICATE_SYMBOL" : p \in {q \in (DOMAIN rows) \X (DOMAIN rows) :
                               q[1] < q[2] /\ rows[q[1]].symbol = rows[q[2]].symbol}}

StartCollection ==
  /\ tx.pc = "idle" /\ collections < MaxCollections
  /\ tx' = [NoTx EXCEPT !.pc = "ranking", !.rankings = book.rankings, !.names = book.names,
                        !.members = book.members, !.bars = book.bars]
  /\ collections' = collections + 1
  /\ UNCHANGED <<token, server, clock, book, sent>>

\* MarketCapRankingCollector.collect: the day's rankings are deleted and written
\* anew, then every ranked symbol gets its stocks row and universe membership,
\* which nothing ever removes.  The job goes on with all members.
RankingFails ==
  /\ tx.pc = "ranking"
  /\ Asked(FALSE)
  /\ tx' = [tx EXCEPT !.pc = "failed"]
  /\ UNCHANGED <<clock, book, collections>>

RankedSymbols(rows) == {rows[i].symbol : i \in DOMAIN rows}
RankingArrives(rows) ==
  /\ tx.pc = "ranking"
  /\ Asked(TRUE)
  /\ tx' = CASE ~Normal(rows) -> [tx EXCEPT !.pc = "failed"]
             [] Normal(rows) /\ ~Storable(rows) -> [tx EXCEPT !.pc = "failed", !.broken = TRUE]
             [] Normal(rows) /\ Storable(rows) ->
                  [tx EXCEPT !.pc = "bars", !.rankings = rows,
                             !.names = @ \cup RankedSymbols(rows), !.members = @ \cup RankedSymbols(rows),
                             !.todo = tx.members \cup RankedSymbols(rows)]
  /\ UNCHANGED <<clock, book, collections>>

\* DailyPriceCollector.collect for one symbol.  A failed request or a bad row
\* fails the symbol; a row the database refuses also leaves the session unusable,
\* so that every later write of the job fails too.  Rows are upserted in their
\* order: of two rows of one day the later stays.
RowsAt(s, rows, key) == {i \in DOMAIN rows : <<s, rows[i].day>> = key}
UpsertBars(bars, s, rows) ==
  [key \in DOMAIN bars \cup {<<s, rows[i].day>> : i \in DOMAIN rows} |->
     IF RowsAt(s, rows, key) = {} THEN bars[key] ELSE rows[Max(RowsAt(s, rows, key))].close]

BarsFail(s) ==
  /\ tx.pc = "bars" /\ s \in tx.todo
  /\ Asked(FALSE)
  /\ tx' = [tx EXCEPT !.todo = @ \ {s}, !.failed = @ \cup {s}]
  /\ UNCHANGED <<clock, book, collections>>

\* Mutant: a bad row is left out and the symbol counts as saved.
BarsArriveAnyway(s, rows) ==
  /\ tx.pc = "bars" /\ s \in tx.todo
  /\ Asked(TRUE)
  /\ tx' = LET refused == \E i \in DOMAIN rows : ~rows[i].fits IN
           IF ~tx.broken /\ ~refused
           THEN [tx EXCEPT !.todo = @ \ {s}, !.saved = @ \cup {s},
                           !.bars = UpsertBars(@, s, SelectSeq(rows, LAMBDA r : r.whole))]
           ELSE [tx EXCEPT !.todo = @ \ {s}, !.failed = @ \cup {s},
                           !.broken = @ \/ (Normal(rows) /\ refused)]
  /\ UNCHANGED <<clock, book, collections>>

BarsArrive(s, rows) ==
  /\ tx.pc = "bars" /\ s \in tx.todo
  /\ Asked(TRUE)
  /\ tx' = LET refused == \E i \in DOMAIN rows : ~rows[i].fits IN
           IF Normal(rows) /\ ~tx.broken /\ ~refused
           THEN [tx EXCEPT !.todo = @ \ {s}, !.saved = @ \cup {s},
                           !.bars = UpsertBars(@, s, rows)]
           ELSE [tx EXCEPT !.todo = @ \ {s}, !.failed = @ \cup {s},
                           !.broken = @ \/ (Normal(rows) /\ refused)]
  /\ UNCHANGED <<clock, book, collections>>

\* The job returns its verdict and run_job commits.  The commit of an unusable
\* session raises; its writes are gone.
CommitCollection ==
  /\ tx.pc = "failed" \/ (tx.pc = "bars" /\ tx.todo = {})
  /\ book' = IF tx.broken THEN book
             ELSE [rankings |-> tx.rankings, names |-> tx.names,
                   members |-> tx.members, bars |-> tx.bars]
  /\ tx' = NoTx
  /\ UNCHANGED <<token, server, clock, sent, collections>>

PassMarketTime ==
  /\ clock < MaxClock /\ clock' = clock + 1
  /\ UNCHANGED <<token, server, book, tx, sent, collections>>

MDNext ==
  \/ (\E life \in Lifetimes : IssueToken(life)) \/ TokenArrives \/ SendRequest
  \/ StartCollection \/ RankingFails
  \/ \E rows \in RankLists : RankingArrives(rows)
  \/ \E s \in tx.todo : BarsFail(s) \/ \E rows \in BarLists : BarsArrive(s, rows)
  \/ CommitCollection \/ PassMarketTime

MDSpec == MDInit /\ [][MDNext]_mdVars

----
\* No request is refused for a token the client got itself: none dies on the way,
\* though the client takes it to live from later than the broker does.  (An
\* injected token, and one that dies sooner than it can be used, have no such bound.)
OwnTokensAreFresh ==
  (sent.id # 0 /\ server[sent.id].ours /\ server[sent.id].life > 2 * Flight) => ~sent.refused

MDTypeOK ==
  /\ token.id \in 0 .. Len(server) /\ clock \in 0 .. MaxClock
  /\ tx.pc \in {"idle", "ranking", "bars", "failed"}
  /\ tx.saved \cap tx.failed = {}
  /\ OwnTokensAreFresh

\* The committed ranking of a day is one list the broker gave, whole: never a mix
\* of an old and a new one, never a list with holes; and what it ranks is known.
RankingIsOneList ==
  /\ book.rankings # <<>> => book.rankings \in {l \in RankLists : Normal(l) /\ Issues(l) = {}}
  /\ RankedSymbols(book.rankings) \subseteq book.names
  /\ book.names = book.members

\* A symbol is stored with the bars of one answer: when the commit goes through,
\* each symbol counted as saved has its bars, and a symbol that only failed has
\* what it had before.
StoresWhatItSaved ==
  book' # book =>
    /\ \A s \in tx.saved : \E list \in BarLists :
         /\ Normal(list)
         /\ \A i \in DOMAIN list : list[i].fits /\ <<s, list[i].day>> \in DOMAIN book'.bars
         /\ \A k \in DOMAIN book'.bars : k[1] = s =>
              book'.bars[k] = UpsertBars(book.bars, s, list)[k]
    /\ \A k \in DOMAIN book'.bars : k[1] \notin tx.saved =>
         k \in DOMAIN book.bars /\ book'.bars[k] = book.bars[k]

\* What a collection leaves is whole, whichever of its steps failed: one list of
\* ranks, and for each symbol the bars of one answer or what was there before.
CollectionsAreWhole == []RankingIsOneList /\ [][StoresWhatItSaved]_book
====
