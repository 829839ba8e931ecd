---- MODULE DailyData_proofs ----
(***************************************************************************)
(* Proofs about the data of a day and what is decided on it: MarketData,   *)
(* for every answer of the broker and any number of collections;           *)
(* ScoreEvidence, for all rows that may arrive, in any order;              *)
(* DailyDecisions, for every universe, every set of holdings, situations   *)
(* and bars, and any number of days, checks, runs and reviews, in any      *)
(* order; and Backtests, which works on the tables of DailyDecisions, for  *)
(* every list of strategies, every regime of a day and every length of the *)
(* windows.  Last come Imports, for all files, imported any number of      *)
(* times, and any days.                                                    *)
(***************************************************************************)
EXTENDS MarketData, Backtests, ScoreEvidence, Imports, SumTheorems

----
(***************************************************************************)
(* MarketData.  The books a collection works on are whole after each of    *)
(* its steps, and so are those that it commits; what it stored for a       *)
(* symbol is one answer on top of what was committed when it began.        *)
(***************************************************************************)
OneList(b) ==
  /\ b.rankings # <<>> => b.rankings \in {l \in RankLists : Normal(l) /\ Issues(l) = {}}
  /\ RankedSymbols(b.rankings) \subseteq b.names
  /\ b.names = b.members

OneAnswer(before, after, s) ==
  \E list \in BarLists :
    /\ Normal(list)
    /\ \A i \in DOMAIN list : list[i].fits /\ <<s, list[i].day>> \in DOMAIN after
    /\ \A k \in DOMAIN after : k[1] = s => after[k] = UpsertBars(before, s, list)[k]

Untouched(before, after, saved) ==
  \A k \in DOMAIN after : k[1] \notin saved => k \in DOMAIN before /\ after[k] = before[k]

Gathers(before, after, saved) ==
  /\ \A s \in saved : OneAnswer(before, after, s)
  /\ Untouched(before, after, saved)

TxRecord(x) ==
  x = [pc |-> x.pc, rankings |-> x.rankings, names |-> x.names, members |-> x.members,
       bars |-> x.bars, todo |-> x.todo, saved |-> x.saved, failed |-> x.failed,
       broken |-> x.broken]

CollectionInv ==
  /\ TxRecord(tx)
  /\ tx.pc \in {"idle", "ranking", "bars", "failed"}
  /\ OneList(book)
  /\ tx.pc # "idle" => OneList(tx) /\ Gathers(book.bars, tx.bars, tx.saved)
  /\ tx.todo \cap tx.saved = {}
  /\ tx.pc = "ranking" => tx.saved = {}

\* A list that the unique constraints take has no duplicates to report.
LEMMA StorableIsClean ==
  ASSUME NEW list \in RankLists, Storable(list)
  PROVE  Issues(list) = {}
<1>1. \A i \in DOMAIN list : i \in Int
  BY MarketDataAssumption
<1>2. ~\E q \in (DOMAIN list) \X (DOMAIN list) : q[1] < q[2] /\ list[q[1]].rank = list[q[2]].rank
  BY <1>1 DEF Storable
<1>3. ~\E q \in (DOMAIN list) \X (DOMAIN list) : q[1] < q[2] /\ list[q[1]].symbol = list[q[2]].symbol
  BY <1>1 DEF Storable
<1>. QED BY <1>2, <1>3 DEF Issues

\* The bars of one more symbol.
LEMMA OneMoreSymbol ==
  ASSUME NEW before, NEW after, NEW saved, Gathers(before, after, saved),
         NEW s, s \notin saved, NEW list \in BarLists, Normal(list),
         \A i \in DOMAIN list : list[i].fits
  PROVE  Gathers(before, UpsertBars(after, s, list), saved \cup {s})
<1>. DEFINE new == UpsertBars(after, s, list)
            old == UpsertBars(before, s, list)
<1>1. /\ DOMAIN new = DOMAIN after \cup {<<s, list[i].day>> : i \in DOMAIN list}
      /\ \A k \in DOMAIN new :
           new[k] = IF RowsAt(s, list, k) = {} THEN after[k] ELSE list[Max(RowsAt(s, list, k))].close
  BY DEF UpsertBars
<1>2. /\ DOMAIN old = DOMAIN before \cup {<<s, list[i].day>> : i \in DOMAIN list}
      /\ \A k \in DOMAIN old :
           old[k] = IF RowsAt(s, list, k) = {} THEN before[k] ELSE list[Max(RowsAt(s, list, k))].close
  BY DEF UpsertBars
<1>3. \A k \in DOMAIN new : RowsAt(s, list, k) = {} => k \in DOMAIN after /\ new[k] = after[k]
  BY <1>1 DEF RowsAt
<1>4. \A k \in DOMAIN new : RowsAt(s, list, k) # {} => k[1] = s /\ k \in DOMAIN old
  BY <1>2 DEF RowsAt
<1>. HIDE DEF new, old
<1>5. OneAnswer(before, new, s)
  <2>1. \A i \in DOMAIN list : list[i].fits /\ <<s, list[i].day>> \in DOMAIN new
    BY <1>1
  <2>2. ASSUME NEW k \in DOMAIN new, k[1] = s
        PROVE  new[k] = old[k]
    <3>1. CASE RowsAt(s, list, k) = {}
      <4>1. k \in DOMAIN after /\ new[k] = after[k]
        BY <1>3, <3>1
      <4>2. k \in DOMAIN before /\ after[k] = before[k]
        BY <2>2, <4>1 DEF Gathers, Untouched
      <4>. QED BY <1>2, <3>1, <4>1, <4>2
    <3>2. CASE RowsAt(s, list, k) # {}
      BY <1>1, <1>2, <1>4, <3>2
    <3>. QED BY <3>1, <3>2
  <2>. QED BY <2>1, <2>2 DEF OneAnswer, old
<1>6. ASSUME NEW z \in saved PROVE OneAnswer(before, new, z)
  <2>1. PICK earlier \in BarLists :
          /\ Normal(earlier)
          /\ \A i \in DOMAIN earlier : earlier[i].fits /\ <<z, earlier[i].day>> \in DOMAIN after
          /\ \A k \in DOMAIN after : k[1] = z => after[k] = UpsertBars(before, z, earlier)[k]
    BY DEF Gathers, OneAnswer
  <2>2. \A k \in DOMAIN new : k[1] = z => k \in DOMAIN after /\ new[k] = after[k]
    BY <1>3, <1>4
  <2>. QED BY <1>1, <2>1, <2>2 DEF OneAnswer
<1>7. Untouched(before, new, saved \cup {s})
  <2>1. ASSUME NEW k \in DOMAIN new, k[1] \notin saved \cup {s}
        PROVE  k \in DOMAIN before /\ new[k] = before[k]
    <3>1. k \in DOMAIN after /\ new[k] = after[k]
      BY <1>3, <1>4, <2>1
    <3>. QED BY <2>1, <3>1 DEF Gathers, Untouched
  <2>. QED BY <2>1 DEF Untouched
<1>. QED BY <1>5, <1>6, <1>7 DEF Gathers, new

LEMMA CollectionInvInit == MDInit => CollectionInv
BY DEF MDInit, CollectionInv, NoTx, EmptyBook, OneList, RankedSymbols, TxRecord

\* What a request does before it ends touches no table.
Sending == (\E life \in Lifetimes : IssueToken(life)) \/ TokenArrives \/ SendRequest

LEMMA CollectionInvNext ==
  ASSUME CollectionInv, [MDNext]_mdVars
  PROVE  CollectionInv'
<1>1. CASE StartCollection
  <2>1. tx' = [pc |-> "ranking", rankings |-> book.rankings, names |-> book.names,
               members |-> book.members, bars |-> book.bars, todo |-> {}, saved |-> {},
               failed |-> {}, broken |-> FALSE]
    BY <1>1 DEF StartCollection, NoTx
  <2>2. UNCHANGED book
    BY <1>1 DEF StartCollection
  <2>. QED BY <2>1, <2>2 DEF CollectionInv, TxRecord, OneList, Gathers, Untouched
<1>2. CASE RankingFails
  <2>1. tx' = [tx EXCEPT !.pc = "failed"] /\ UNCHANGED book /\ tx.pc = "ranking"
    BY <1>2 DEF RankingFails
  <2>. QED BY <2>1 DEF CollectionInv, TxRecord, OneList
<1>3. ASSUME NEW list \in RankLists, RankingArrives(list) PROVE CollectionInv'
  <2>1. UNCHANGED book /\ tx.pc = "ranking"
    BY <1>3 DEF RankingArrives
  <2>2. \/ tx' = [tx EXCEPT !.pc = "failed"]
        \/ tx' = [tx EXCEPT !.pc = "failed", !.broken = TRUE]
        \/ /\ Normal(list) /\ Storable(list)
           /\ tx' = [tx EXCEPT !.pc = "bars", !.rankings = list,
                               !.names = @ \cup RankedSymbols(list), !.members = @ \cup RankedSymbols(list),
                               !.todo = tx.members \cup RankedSymbols(list)]
    <3>1. CASE ~Normal(list)
      BY <1>3, <3>1 DEF RankingArrives
    <3>2. CASE Normal(list) /\ ~Storable(list)
      BY <1>3, <3>2 DEF RankingArrives
    <3>3. CASE Normal(list) /\ Storable(list)
      BY <1>3, <3>3 DEF RankingArrives
    <3>. QED BY <3>1, <3>2, <3>3
  <2>3. CASE tx' = [tx EXCEPT !.pc = "failed"]
    BY <2>1, <2>3 DEF CollectionInv, TxRecord, OneList
  <2>4. CASE tx' = [tx EXCEPT !.pc = "failed", !.broken = TRUE]
    BY <2>1, <2>4 DEF CollectionInv, TxRecord, OneList
  <2>5. CASE /\ Normal(list) /\ Storable(list)
             /\ tx' = [tx EXCEPT !.pc = "bars", !.rankings = list,
                               !.names = @ \cup RankedSymbols(list), !.members = @ \cup RankedSymbols(list),
                               !.todo = tx.members \cup RankedSymbols(list)]
    <3>1. /\ TxRecord(tx') /\ tx'.pc = "bars" /\ tx'.rankings = list
          /\ tx'.names = tx.names \cup RankedSymbols(list)
          /\ tx'.members = tx.members \cup RankedSymbols(list)
          /\ tx'.bars = tx.bars /\ tx'.saved = tx.saved
      BY <2>5 DEF CollectionInv, TxRecord
    <3>2. list \in {l \in RankLists : Normal(l) /\ Issues(l) = {}}
      BY <2>5, StorableIsClean
    <3>3. OneList(tx')
      BY <2>1, <3>1, <3>2 DEF CollectionInv, OneList
    <3>. QED BY <2>1, <3>1, <3>3 DEF CollectionInv
  <2>. QED BY <2>2, <2>3, <2>4, <2>5
<1>4. ASSUME NEW s \in tx.todo, BarsFail(s) PROVE CollectionInv'
  <2>1. /\ tx' = [tx EXCEPT !.todo = @ \ {s}, !.failed = @ \cup {s}]
        /\ UNCHANGED book /\ tx.pc = "bars"
    BY <1>4 DEF BarsFail
  <2>. QED BY <2>1 DEF CollectionInv, TxRecord, OneList
<1>5. ASSUME NEW s \in tx.todo, NEW list \in BarLists, BarsArrive(s, list) PROVE CollectionInv'
  <2>1. UNCHANGED book /\ tx.pc = "bars" /\ s \notin tx.saved
    BY <1>5 DEF BarsArrive, CollectionInv
  <2>2. CASE Normal(list) /\ ~tx.broken /\ ~\E i \in DOMAIN list : ~list[i].fits
    <3>1. tx' = [tx EXCEPT !.todo = @ \ {s}, !.saved = @ \cup {s}, !.bars = UpsertBars(@, s, list)]
      BY <1>5, <2>2 DEF BarsArrive
    <3>2. /\ TxRecord(tx') /\ tx'.pc = "bars" /\ tx'.rankings = tx.rankings
          /\ tx'.names = tx.names /\ tx'.members = tx.members
          /\ tx'.bars = UpsertBars(tx.bars, s, list) /\ tx'.saved = tx.saved \cup {s}
          /\ tx'.todo = tx.todo \ {s}
      BY <2>1, <3>1 DEF CollectionInv, TxRecord
    <3>3. Gathers(book.bars, tx.bars, tx.saved)
      BY <2>1 DEF CollectionInv
    <3>4. Gathers(book.bars, UpsertBars(tx.bars, s, list), tx.saved \cup {s})
      BY <2>1, <2>2, <3>3, OneMoreSymbol
    <3>5. OneList(tx')
      BY <2>1, <3>2 DEF CollectionInv, OneList
    <3>. QED BY <2>1, <3>2, <3>4, <3>5 DEF CollectionInv
  <2>3. CASE ~(Normal(list) /\ ~tx.broken /\ ~\E i \in DOMAIN list : ~list[i].fits)
    <3>. DEFINE refused == \E i \in DOMAIN list : ~list[i].fits
    <3>1. tx' = [tx EXCEPT !.todo = @ \ {s}, !.failed = @ \cup {s},
                           !.broken = @ \/ (Normal(list) /\ refused)]
      BY <1>5, <2>3 DEF BarsArrive
    <3>. HIDE DEF refused
    <3>2. /\ TxRecord(tx') /\ tx'.pc = "bars" /\ tx'.rankings = tx.rankings
          /\ tx'.names = tx.names /\ tx'.members = tx.members /\ tx'.bars = tx.bars
          /\ tx'.saved = tx.saved /\ tx'.todo = tx.todo \ {s}
      BY <2>1, <3>1 DEF CollectionInv, TxRecord
    <3>. QED BY <2>1, <3>2 DEF CollectionInv, OneList
  <2>. QED BY <2>2, <2>3
<1>6. CASE CommitCollection
  <2>1. tx' = NoTx /\ tx.pc # "idle"
    BY <1>6 DEF CommitCollection
  <2>2. \/ UNCHANGED book
        \/ book' = [rankings |-> tx.rankings, names |-> tx.names,
                    members |-> tx.members, bars |-> tx.bars]
    BY <1>6 DEF CommitCollection
  <2>3. OneList(book')
    BY <2>1, <2>2 DEF CollectionInv, OneList
  <2>. QED BY <2>1, <2>3 DEF CollectionInv, TxRecord, NoTx
<1>7. CASE Sending \/ PassMarketTime \/ UNCHANGED mdVars
  BY <1>7 DEF Sending, IssueToken, TokenArrives, SendRequest, PassMarketTime, mdVars, CollectionInv
<1>. QED BY <1>1, <1>2, <1>3, <1>4, <1>5, <1>6, <1>7 DEF MDNext, Sending

\* What a step commits is what the collection gathered.
LEMMA CommitsWhole ==
  ASSUME CollectionInv, [MDNext]_mdVars
  PROVE  [ book' # book =>
             /\ \A s \in tx.saved : OneAnswer(book.bars, book'.bars, s)
             /\ Untouched(book.bars, book'.bars, tx.saved) ]_book
<1>1. SUFFICES ASSUME book' # book
               PROVE  Gathers(book.bars, book'.bars, tx.saved)
  BY DEF Gathers
<1>2. CommitCollection
  BY <1>1 DEF MDNext, mdVars, StartCollection, RankingFails, RankingArrives, BarsFail, BarsArrive,
              PassMarketTime, IssueToken, TokenArrives, SendRequest
<1>3. tx.pc # "idle" /\ book'.bars = tx.bars
  BY <1>1, <1>2 DEF CommitCollection
<1>. QED BY <1>3 DEF CollectionInv

\* A collection that commits leaves one list of ranks, and for each symbol it saved
\* the bars of one answer, whatever failed on the way (collect_market_close_data).
THEOREM CollectionsStayWhole == MDSpec => CollectionsAreWhole
<1>1. MDInit => CollectionInv
  BY CollectionInvInit
<1>2. CollectionInv /\ [MDNext]_mdVars => CollectionInv'
  BY CollectionInvNext
<1>3. CollectionInv => RankingIsOneList
  BY DEF CollectionInv, OneList, RankingIsOneList
<1>4. CollectionInv /\ [MDNext]_mdVars => [StoresWhatItSaved]_book
  BY CommitsWhole DEF OneAnswer, Untouched, StoresWhatItSaved
<1>. QED BY <1>1, <1>2, <1>3, <1>4, PTL DEF MDSpec, CollectionsAreWhole

----
\* The token in hand is one that the broker issued.  Of one that the client asked
\* for itself, its own clock ends, but for the time the answer took, a margin before
\* the broker's; and what is under way with it comes to the broker before it dies.
IssuedTokens == [dies : Nat, life : Nat, ours : BOOLEAN]
Outlived(t, now, issued) ==
  t.id # 0 /\ issued[t.id].ours =>
    t.until # Never /\ (t.until <= now \/ t.until + Margin <= issued[t.id].dies + Flight)

LivesOnTheWay(x, issued) ==
  /\ x.pc = "token" => /\ issued[x.id].ours
                       /\ issued[x.id].dies = x.at + issued[x.id].life
  /\ x.pc = "request" /\ issued[x.id].ours /\ issued[x.id].life > 2 * Flight =>
       x.at + Flight < issued[x.id].dies

TokenInv ==
  /\ clock \in Nat /\ clock <= MaxClock
  /\ server \in Seq(IssuedTokens)
  /\ token.id \in 0 .. Len(server) /\ sent.id \in 0 .. Len(server)
  /\ token.until \in Int
  /\ Outlived(token, clock, server)
  /\ DOMAIN sent = {"pc", "id", "at", "refused"}
  /\ sent.at \in Nat /\ sent.at <= clock
  /\ sent.pc # "none" => sent.id # 0
  /\ LivesOnTheWay(sent, server)
  /\ OwnTokensAreFresh

MarketInv ==
  /\ TokenInv
  /\ tx.saved \cap tx.failed = {} /\ tx.todo \cap tx.failed = {}
  /\ tx.pc = "ranking" => tx.failed = {}

LEMMA TokenInvInit == MDInit => TokenInv
<1>. SUFFICES ASSUME MDInit PROVE TokenInv
  OBVIOUS
<1>1. /\ clock \in Nat /\ clock <= MaxClock
      /\ sent = [pc |-> "none", id |-> 0, at |-> 0, refused |-> FALSE] /\ clock = 0
  BY MarketDataAssumption DEF MDInit
<1>2. CASE Injected
  <2>1. PICK d \in Lifetimes : server = <<[dies |-> d, life |-> d, ours |-> FALSE]>>
    BY <1>2 DEF MDInit
  <2>2. d \in Nat
    BY MarketDataAssumption
  <2>3. server \in Seq(IssuedTokens) /\ Len(server) = 1 /\ server[1].ours = FALSE
    BY <2>1, <2>2 DEF IssuedTokens
  <2>. QED BY <1>1, <1>2, <2>3 DEF MDInit, TokenInv, Outlived, LivesOnTheWay, OwnTokensAreFresh, Never
<1>3. CASE ~Injected
  BY <1>1, <1>3 DEF MDInit, TokenInv, Outlived, LivesOnTheWay, OwnTokensAreFresh, Never
<1>. QED BY <1>2, <1>3

\* The broker issues a token, and counts from then on.
LEMMA IssuingKeepsTokens ==
  ASSUME TokenInv, NEW life \in Lifetimes, IssueToken(life)
  PROVE  TokenInv'
<1>. DEFINE fresh == [dies |-> clock + life, life |-> life, ours |-> TRUE]
            n == Len(server) + 1
<1>1. life \in Nat /\ clock \in Nat
  BY MarketDataAssumption DEF TokenInv
<1>2. fresh \in IssuedTokens
  BY <1>1 DEF IssuedTokens
<1>3. /\ server' = Append(server, fresh) /\ server' \in Seq(IssuedTokens)
      /\ Len(server') = n /\ server'[n] = fresh /\ n \in Nat \ {0}
      /\ \A i \in 1 .. Len(server) : server'[i] = server[i]
  BY <1>2 DEF IssueToken, TokenInv
<1>4. /\ sent' = [pc |-> "token", id |-> n, at |-> clock, refused |-> FALSE]
      /\ UNCHANGED <<token, clock>>
  BY DEF IssueToken
<1>5. Outlived(token, clock, server')
  BY <1>3 DEF TokenInv, Outlived
<1>6. LivesOnTheWay(sent', server')
  BY <1>3, <1>4 DEF LivesOnTheWay
<1>7. OwnTokensAreFresh'
  BY <1>4 DEF OwnTokensAreFresh
<1>. QED BY <1>1, <1>3, <1>4, <1>5, <1>6, <1>7 DEF TokenInv

\* The client counts from when it has the answer, and asks with the token at once.
LEMMA ArrivingKeepsTokens ==
  ASSUME TokenInv, TokenArrives
  PROVE  TokenInv'
<1>. DEFINE i == sent.id
            life == server[i].life
            until == clock + Max({life - Margin, 0})
<1>1. /\ sent.pc = "token" /\ clock <= sent.at + Flight /\ UNCHANGED <<server, clock>>
      /\ token' = [id |-> i, until |-> until]
      /\ sent' = [sent EXCEPT !.pc = "request", !.at = clock]
  BY DEF TokenArrives, InTime
<1>2. /\ i \in 1 .. Len(server) /\ server[i] \in IssuedTokens /\ clock \in Nat /\ sent.at \in Nat
      /\ server[i].ours /\ server[i].dies = sent.at + life
  BY <1>1 DEF TokenInv, LivesOnTheWay
<1>3. /\ life \in Nat /\ server[i].dies \in Nat /\ Margin \in Nat /\ Flight \in Nat
      /\ 2 * Flight <= Margin
  BY <1>2, MarketDataAssumption, FlightAssumption DEF IssuedTokens
<1>4. PICK m \in Nat : m = Max({life - Margin, 0}) /\ (m = 0 \/ m + Margin = life)
  <2>1. life - Margin \in Int
    BY <1>3
  <2>2. Max({life - Margin, 0}) = (IF life - Margin >= 0 THEN life - Margin ELSE 0)
    BY <2>1, MaxOfTwo
  <2>. HIDE DEF life
  <2>. QED BY <1>3, <2>1, <2>2
<1>5. until \in Nat /\ (until <= clock \/ until + Margin <= server[i].dies + Flight)
  <2>1. until = clock + m
    BY <1>4
  <2>. DEFINE asked == sent.at
              dies == server[i].dies
  <2>2. asked \in Nat /\ dies \in Nat /\ dies = asked + life /\ clock <= asked + Flight
    BY <1>1, <1>2, <1>3
  <2>. HIDE DEF life, until, asked, dies
  <2>3. CASE m = 0
    BY <1>2, <2>1, <2>3
  <2>4. CASE m + Margin = life
    <3>1. until \in Nat /\ until + Margin = clock + life
      BY <1>2, <1>3, <2>1, <2>4
    <3>2. until + Margin <= dies + Flight
      BY <1>2, <1>3, <2>2, <3>1
    <3>. QED BY <3>1, <3>2 DEF dies
  <2>. QED BY <1>4, <2>3, <2>4
<1>6. /\ sent'.pc = "request" /\ sent'.id = i /\ sent'.at = clock /\ sent'.refused = sent.refused
      /\ DOMAIN sent' = {"pc", "id", "at", "refused"}
  BY <1>1 DEF TokenInv
<1>7. Outlived(token', clock, server)
  <2>. HIDE DEF until
  <2>. QED BY <1>1, <1>5 DEF Outlived, Never
<1>8. LivesOnTheWay(sent', server)
  <2>1. life > 2 * Flight => clock + Flight < server[i].dies
    <3>. HIDE DEF life
    <3>. QED BY <1>1, <1>2, <1>3
  <2>. QED BY <1>6, <2>1 DEF LivesOnTheWay
<1>9. OwnTokensAreFresh'
  BY <1>1, <1>6 DEF TokenInv, OwnTokensAreFresh
<1>. HIDE DEF until
<1>. QED BY <1>1, <1>2, <1>5, <1>6, <1>7, <1>8, <1>9 DEF TokenInv

\* What goes out with a token still good by the client's clock comes in time.
LEMMA SendingKeepsTokens ==
  ASSUME TokenInv, SendRequest
  PROVE  TokenInv'
<1>1. /\ token.id # 0 /\ (token.until = Never \/ clock < token.until)
      /\ sent' = [pc |-> "request", id |-> token.id, at |-> clock, refused |-> FALSE]
      /\ UNCHANGED <<token, server, clock>>
  BY DEF SendRequest, Usable
<1>2. /\ token.id \in 1 .. Len(server) /\ clock \in Nat /\ token.until \in Int
      /\ server[token.id] \in IssuedTokens
  BY <1>1 DEF TokenInv
<1>3. Margin \in Nat /\ Flight \in Nat /\ 2 * Flight <= Margin /\ server[token.id].dies \in Nat
  BY <1>2, MarketDataAssumption, FlightAssumption DEF IssuedTokens
<1>4. ASSUME server[token.id].ours PROVE clock + Flight < server[token.id].dies
  <2>1. /\ token.until # Never
        /\ token.until <= clock \/ token.until + Margin <= server[token.id].dies + Flight
    BY <1>1, <1>4 DEF TokenInv, Outlived
  <2>2. clock < token.until
    BY <1>1, <2>1
  <2>. QED BY <1>2, <1>3, <2>1, <2>2
<1>5. LivesOnTheWay(sent', server)
  BY <1>1, <1>4 DEF LivesOnTheWay
<1>6. OwnTokensAreFresh'
  BY <1>1 DEF OwnTokensAreFresh
<1>. QED BY <1>1, <1>2, <1>5, <1>6 DEF TokenInv

\* A request that ends leaves the token as it is, and was not refused for a token
\* the client got itself.
LEMMA AskingKeepsTokens ==
  ASSUME TokenInv, NEW ok, Asked(ok), UNCHANGED clock
  PROVE  TokenInv'
<1>. DEFINE heard == sent.pc = "request" /\ clock <= sent.at + Flight
            dead == heard /\ clock >= server[sent.id].dies
<1>1. sent' = [sent EXCEPT !.pc = "none", !.refused = dead] /\ UNCHANGED <<token, server>>
  BY DEF Asked, InTime
<1>2. /\ DOMAIN sent' = {"pc", "id", "at", "refused"}
      /\ sent'.pc = "none" /\ sent'.id = sent.id /\ sent'.at = sent.at /\ sent'.refused = dead
  BY <1>1 DEF TokenInv
<1>3. ASSUME server[sent.id].ours, server[sent.id].life > 2 * Flight, dead PROVE FALSE
  <2>1. sent.id \in 1 .. Len(server) /\ sent.at + Flight < server[sent.id].dies
    BY <1>3 DEF TokenInv, LivesOnTheWay
  <2>2. server[sent.id] \in IssuedTokens
    BY <2>1 DEF TokenInv
  <2>3. server[sent.id].dies \in Nat /\ clock \in Nat /\ sent.at \in Nat /\ Flight \in Nat
    BY <2>2, FlightAssumption DEF TokenInv, IssuedTokens
  <2>. QED BY <1>3, <2>1, <2>3
<1>4. OwnTokensAreFresh'
  BY <1>1, <1>2, <1>3 DEF OwnTokensAreFresh
<1>5. LivesOnTheWay(sent', server)
  BY <1>2 DEF LivesOnTheWay
<1>. HIDE DEF dead
<1>. QED BY <1>1, <1>2, <1>4, <1>5 DEF TokenInv

LEMMA MarketInvNext ==
  ASSUME CollectionInv, MarketInv, [MDNext]_mdVars
  PROVE  MarketInv'
<1>1. TokenInv'
  <2>1. CASE UNCHANGED <<token, server, sent, clock>>
    BY <2>1 DEF MarketInv, TokenInv, OwnTokensAreFresh
  <2>2. CASE UNCHANGED clock /\ (Asked(TRUE) \/ Asked(FALSE))
    BY <2>2, AskingKeepsTokens DEF MarketInv
  <2>3. CASE PassMarketTime
    <3>1. /\ clock' = clock + 1 /\ clock \in Nat /\ clock' <= MaxClock
          /\ UNCHANGED <<token, server, sent>>
      BY <2>3, MarketDataAssumption DEF PassMarketTime, MarketInv, TokenInv
    <3>2. Outlived(token, clock + 1, server)
      BY <3>1 DEF MarketInv, TokenInv, Outlived
    <3>. QED BY <3>1, <3>2 DEF MarketInv, TokenInv, OwnTokensAreFresh
  <2>4. CASE Sending
    BY <2>4, IssuingKeepsTokens, ArrivingKeepsTokens, SendingKeepsTokens DEF MarketInv, Sending
  <2>. QED BY <2>1, <2>2, <2>3, <2>4
     DEF MDNext, mdVars, StartCollection, RankingFails, RankingArrives, BarsFail, BarsArrive,
         CommitCollection, Sending
<1>2. CASE StartCollection \/ CommitCollection
  <2>1. tx'.saved = {} /\ tx'.failed = {} /\ tx'.todo = {}
    <3>1. CASE StartCollection
      <4>1. tx' = [NoTx EXCEPT !.pc = "ranking", !.rankings = book.rankings, !.names = book.names,
                               !.members = book.members, !.bars = book.bars]
        BY <3>1 DEF StartCollection
      <4>. QED BY <4>1 DEF NoTx
    <3>2. CASE CommitCollection
      BY <3>2 DEF CommitCollection, NoTx
    <3>. QED BY <1>2, <3>1, <3>2
  <2>. QED BY <1>1, <2>1 DEF MarketInv
<1>3. CASE RankingFails \/ \E list \in RankLists : RankingArrives(list)
  <2>1. /\ tx.pc = "ranking" /\ tx'.pc # "ranking"
        /\ tx'.saved = tx.saved /\ tx'.failed = tx.failed
    BY <1>3 DEF RankingFails, RankingArrives, CollectionInv, TxRecord
  <2>. QED BY <1>1, <2>1 DEF MarketInv, CollectionInv
<1>4. ASSUME NEW s \in tx.todo, BarsFail(s) \/ \E list \in BarLists : BarsArrive(s, list)
      PROVE  MarketInv'
  <2>1. \/ tx'.saved = tx.saved /\ tx'.failed = tx.failed \cup {s}
        \/ tx'.saved = tx.saved \cup {s} /\ tx'.failed = tx.failed
    BY <1>4 DEF BarsFail, BarsArrive, CollectionInv, TxRecord
  <2>2. tx'.todo = tx.todo \ {s} /\ tx'.pc = "bars"
    BY <1>4 DEF BarsFail, BarsArrive, CollectionInv, TxRecord
  <2>3. s \notin tx.saved /\ s \notin tx.failed
    BY <1>4 DEF CollectionInv, MarketInv
  <2>. QED BY <1>1, <2>1, <2>2, <2>3 DEF MarketInv
<1>5. CASE Sending \/ PassMarketTime \/ UNCHANGED mdVars
  BY <1>1, <1>5 DEF Sending, IssueToken, TokenArrives, SendRequest, PassMarketTime, mdVars, MarketInv
<1>. QED BY <1>2, <1>3, <1>4, <1>5 DEF MDNext, Sending

\* No request is refused for a token the client asked for itself, though it may age
\* on the way (issue_access_token's margin), and no symbol counts as saved and as
\* failed.
THEOREM TokensStayFresh == MDSpec => []MDTypeOK
<1>1. MDInit => CollectionInv /\ MarketInv
  BY CollectionInvInit, TokenInvInit DEF MDInit, MarketInv, NoTx
<1>2. CollectionInv /\ MarketInv /\ [MDNext]_mdVars => CollectionInv' /\ MarketInv'
  BY CollectionInvNext, MarketInvNext
<1>3. CollectionInv /\ MarketInv => MDTypeOK
  BY DEF CollectionInv, MarketInv, TokenInv, MDTypeOK
<1>. QED BY <1>1, <1>2, <1>3, PTL DEF MDSpec

----
(***************************************************************************)
(* ScoreEvidence.  Each figure of a snapshot adds points that do not fall  *)
(* as the figure gets better, and the clamp keeps their order.             *)
(***************************************************************************)
Stated(f) == \A x \in Ratios : f[x] \in Int

LEMMA WithinIsMonotone ==
  ASSUME NEW x \in Int, NEW y \in Int, NEW l \in Int, NEW u \in Int, l <= u, x <= y
  PROVE  Within(x, l, u) <= Within(y, l, u) /\ Within(x, l, u) \in Int /\ Within(y, l, u) \in Int
BY DEF Within

LEMMA MultiplesCompared ==
  ASSUME NEW f, NEW g, Stated(f), Stated(g), Better(f, g)
  PROVE  /\ MultiplePoints(f) \in Int /\ MultiplePoints(g) \in Int
         /\ MultiplePoints(f) >= MultiplePoints(g)
BY DEF Stated, Ratios, Better, MultiplePoints, Has, Missing

LEMMA GrowthCompared ==
  ASSUME NEW f, NEW g, Stated(f), Stated(g), Better(f, g)
  PROVE  /\ GrowthPoints(f) \in Int /\ GrowthPoints(g) \in Int
         /\ GrowthPoints(f) >= GrowthPoints(g)
BY DEF Stated, Ratios, Better, GrowthPoints, Within, Has, Missing

LEMMA BalanceCompared ==
  ASSUME NEW f, NEW g, Stated(f), Stated(g), Better(f, g)
  PROVE  /\ BalancePoints(f) \in Int /\ BalancePoints(g) \in Int
         /\ BalancePoints(f) >= BalancePoints(g)
BY DEF Stated, Ratios, Better, BalancePoints, Within, Has, Missing

LEMMA BetterScoresHigher ==
  ASSUME NEW f, NEW g, Stated(f), Stated(g), Better(f, g)
  PROVE  FundamentalScore(f) >= FundamentalScore(g)
<1>. DEFINE a == Neutral + MultiplePoints(f) + GrowthPoints(f) + BalancePoints(f)
            b == Neutral + MultiplePoints(g) + GrowthPoints(g) + BalancePoints(g)
<1>1. a \in Int /\ b \in Int /\ b <= a
  BY MultiplesCompared, GrowthCompared, BalanceCompared DEF Neutral
<1>. HIDE DEF a, b
<1>2. Within(b, 0, Top) <= Within(a, 0, Top)
  BY <1>1 DEF Within, Top
<1>. QED BY <1>2 DEF FundamentalScore, OnScale, a, b

\* A snapshot that is better in every figure the formula reads scores at least as
\* much as the one it replaces (FundamentalScoringEngine.score).
THEOREM BetterNeverHurts == EVSpec => BetterSnapshotsNeverHurt
<1>. DEFINE Known == snapshot \in Snapshots \cup {NoSnapshot}
<1>1. EVInit => Known
  BY DEF EVInit
<1>2. Known /\ [EVNext]_evVars => Known'
  BY DEF EVNext, NewsArrives, DaysPass, SnapshotStored, EventStored, ReportsStored, evVars
<1>3. \A x \in Snapshots \cup {NoSnapshot} : Stated(x)
  BY ScoreEvidenceAssumption DEF NoSnapshot, Missing, Stated, Ratios
<1>4. Known /\ [EVNext]_evVars =>
        [Better(snapshot', snapshot) /\ snapshot'.source = snapshot.source
          => FundamentalScore(snapshot') >= FundamentalScore(snapshot)]_snapshot
  <2>. SUFFICES ASSUME Known, [EVNext]_evVars, Better(snapshot', snapshot)
                PROVE  FundamentalScore(snapshot') >= FundamentalScore(snapshot)
    OBVIOUS
  <2>1. Stated(snapshot) /\ Stated(snapshot')
    BY <1>2, <1>3
  <2>. HIDE DEF Known
  <2>. QED BY <2>1, BetterScoresHigher
<1>. QED BY <1>1, <1>2, <1>4, PTL DEF EVSpec, BetterSnapshotsNeverHurt

----
(* What the producers read stays typed, and their scores on the scale. *)

LEMMA FourFinite == \A a, b, c, d : IsFiniteSet({a, b, c, d})
<1>. TAKE a, b, c, d
<1>1. IsFiniteSet({a}) /\ IsFiniteSet({b}) /\ IsFiniteSet({c}) /\ IsFiniteSet({d})
  BY FS_Singleton
<1>2. IsFiniteSet({a} \cup {b}) /\ IsFiniteSet({c} \cup {d})
  BY <1>1, FS_Union
<1>3. IsFiniteSet(({a} \cup {b}) \cup ({c} \cup {d}))
  BY <1>2, FS_Union
<1>4. {a, b, c, d} = ({a} \cup {b}) \cup ({c} \cup {d})
  OBVIOUS
<1>. QED BY <1>3, <1>4

LEMMA FiveFinite == \A a, b, c, d, e : IsFiniteSet({a, b, c, d, e})
<1>. TAKE a, b, c, d, e
<1>1. IsFiniteSet({a, b, c, d} \cup {e})
  BY FourFinite, FS_Singleton, FS_Union
<1>2. {a, b, c, d, e} = {a, b, c, d} \cup {e}
  OBVIOUS
<1>. QED BY <1>1, <1>2

\* Totals and penalties are numbers on their scales.
LEMMA ScaleHolds == \A x \in Int : OnScale(x) \in 0 .. Top
BY DEF OnScale, Within, Top

LEMMA PenaltyTyped ==
  ASSUME NEW flags, IsFiniteSet(flags), NEW price, \A f \in flags : price[f] \in Int,
         NEW filings \in Nat
  PROVE  Assessment(flags, price, filings).penalty \in Nat /\ Assessment(flags, price, filings).penalty <= 5000
<1>1. SumFunctionOnSet(price, flags) \in Int
  BY SumType
<1>2. DisclosurePenalty(filings) \in Int
  BY DEF DisclosurePenalty, Within
<1>. DEFINE sum == SumFunctionOnSet(price, flags) + DisclosurePenalty(filings)
<1>3. sum \in Int
  BY <1>1, <1>2
<1>. HIDE DEF sum
<1>4. Within(sum, 0, 5000) \in Nat /\ Within(sum, 0, 5000) <= 5000
  BY <1>3 DEF Within
<1>5. Assessment(flags, price, filings).penalty = Within(sum, 0, 5000)
  BY DEF Assessment, sum
<1>. QED BY <1>4, <1>5

LEMMA TotalTyped ==
  ASSUME NEW weights, IsFiniteSet(DOMAIN weights), NEW scores, NEW penalty \in Nat,
         \A c \in DOMAIN weights : weights[c] \in Int /\ scores[c] \in Int
  PROVE  Compose(weights, scores, penalty) \in 0 .. Top
<1>. DEFINE worth(c) == IF Has(scores[c]) THEN OnScale(scores[c]) ELSE 0
            share == [c \in DOMAIN weights |-> (weights[c] * worth(c)) \div 100]
<1>1. ASSUME NEW c \in DOMAIN weights PROVE share[c] \in Int
  <2>1. worth(c) \in Int
    BY ScaleHolds
  <2>. HIDE DEF worth
  <2>2. \A x, y \in Int : (x * y) \div 100 \in Int
    OBVIOUS
  <2>3. (weights[c] * worth(c)) \div 100 \in Int
    BY <2>1, <2>2
  <2>. QED BY <2>3
<1>2. DOMAIN share = DOMAIN weights
  OBVIOUS
<1>. HIDE DEF share
<1>3. SumFunctionOnSet(share, DOMAIN weights) \in Int
  BY <1>1, SumType
<1>4. SumFunction(share) \in Int
  BY <1>2, <1>3 DEF SumFunction
<1>5. OnScale(SumFunction(share) - (IF penalty > 0 THEN penalty ELSE 0)) \in 0 .. Top
  BY <1>4, ScaleHolds
<1>. QED BY <1>5 DEF Compose, share

LEMMA AdjustedTyped ==
  \A base, report, signal \in Int : Adjusted(base, report, signal) \in 0 .. Top
BY ScaleHolds DEF Adjusted, Within, Has, Missing, Neutral

LEMMA SumFunctionIs == \A f : SumFunction(f) = SumFunctionOnSet(f, DOMAIN f)
BY DEF SumFunction, SumFunctionOnSet, FoldFunction

LEMMA RiskTyped ==
  ASSUME NEW ind, NEW filings \in Nat
  PROVE  /\ RecommendationRisk(ind, filings).penalty \in Nat
         /\ RecommendationRisk(ind, filings).penalty <= 5000
<1>1. DOMAIN FlagPenalty = {"LOW_TECHNICAL_SCORE", "BEARISH_MA_ALIGNMENT",
                            "VOLUME_RATIO_MISSING", "VOLUME_RATIO_EXTREME"}
      /\ \A f \in DOMAIN FlagPenalty : FlagPenalty[f] \in Int
  BY DEF FlagPenalty
<1>2. IsFiniteSet(DOMAIN FlagPenalty)
  <2>1. IsFiniteSet({"LOW_TECHNICAL_SCORE", "BEARISH_MA_ALIGNMENT",
                     "VOLUME_RATIO_MISSING", "VOLUME_RATIO_EXTREME"})
    BY FourFinite, Zenon
  <2>. QED BY <1>1, <2>1
<1>3. PICK flags \in SUBSET DOMAIN FlagPenalty :
        RecommendationRisk(ind, filings) = Assessment(flags, FlagPenalty, filings)
  BY DEF RecommendationRisk
<1>4. IsFiniteSet(flags)
  BY <1>2, FS_Subset
<1>5. \A f \in flags : FlagPenalty[f] \in Int
  BY <1>1
<1>6. /\ Assessment(flags, FlagPenalty, filings).penalty \in Nat
      /\ Assessment(flags, FlagPenalty, filings).penalty <= 5000
  BY <1>4, <1>5, PenaltyTyped
<1>. QED BY <1>3, <1>6

LEMMA Divides == \A x \in Int, n \in Nat \ {0} : x \div n \in Int
OBVIOUS

\* Each producer's score is on the scale, whatever rows it reads.
NewsRow(r) == r.mood \in DOMAIN Mood /\ r.age \in Int

LEMMA NewsScored ==
  ASSUME NEW seen, IsFiniteSet(seen), \A r \in seen : NewsRow(r)
  PROVE  NewsScore(seen) \in 0 .. Top
<1>. DEFINE weight == [r \in seen |-> Mood[r.mood] * Recency(r.age)]
            felt == SumFunction(weight)
<1>1. CASE seen = {}
  BY <1>1 DEF NewsScore, Neutral, Top
<1>2. CASE seen # {}
  <2>1. ASSUME NEW r \in seen PROVE weight[r] \in Int
    <3>1. Mood[r.mood] \in {1, 0, -1}
      BY DEF NewsRow, Mood
    <3>2. Recency(r.age) \in {10, 7, 3, 0}
      BY DEF Recency
    <3>3. \A x \in {1, 0, -1}, y \in {10, 7, 3, 0} : x * y \in Int
      OBVIOUS
    <3>. QED BY <3>1, <3>2, <3>3
  <2>2. DOMAIN weight = seen
    OBVIOUS
  <2>. HIDE DEF weight
  <2>3. felt \in Int
    BY <2>1, <2>2, SumType, SumFunctionIs
  <2>4. Cardinality(seen) \in Nat \ {0}
    BY <1>2, FS_CardinalityType, FS_EmptySet
  <2>. HIDE DEF felt
  <2>5. (felt * 50) \div Cardinality(seen) \in Int
    BY <2>3, <2>4, Divides
  <2>6. OnScale(Neutral + (felt * 50) \div Cardinality(seen)) \in 0 .. Top
    <3>. DEFINE d == (felt * 50) \div Cardinality(seen)
    <3>1. d \in Int
      BY <2>5
    <3>. HIDE DEF d
    <3>2. OnScale(Neutral + d) \in 0 .. Top
      BY <3>1, ScaleHolds DEF Neutral
    <3>. QED BY <3>2 DEF d
  <2>. QED BY <1>2, <2>6 DEF NewsScore, felt, weight
<1>. QED BY <1>1, <1>2

LEMMA SnapshotScored ==
  ASSUME NEW f, Stated(f)
  PROVE  FundamentalScore(f) \in 0 .. Top
<1>1. MultiplePoints(f) \in Int
  BY DEF MultiplePoints
<1>2. GrowthPoints(f) \in Int
  BY DEF GrowthPoints, Within, Stated, Ratios
<1>3. BalancePoints(f) \in Int
  BY DEF BalancePoints, Within, Stated, Ratios
<1>4. \A x, y, z \in Int : Neutral + x + y + z \in Int
  BY DEF Neutral
<1>. QED BY <1>1, <1>2, <1>3, <1>4, ScaleHolds DEF FundamentalScore

LEMMA EventScored ==
  ASSUME NEW e, e.pct \in Int
  PROVE  EarningsScore(e) \in 0 .. Top
<1>. DEFINE base == CASE e.kind = "BEAT" -> 1000 [] e.kind = "MISS" -> -1000 [] OTHER -> 0
            extra == IF Has(e.pct) THEN Within(50 * e.pct, -1000, 1000) ELSE 0
            fresh == IF e.age < 0 THEN 5 ELSE IF e.age <= 30 THEN 10
                     ELSE IF e.age <= 90 THEN 6 ELSE 3
<1>1. base \in Int
  OBVIOUS
<1>2. extra \in Int
  BY DEF Within
<1>3. fresh \in {5, 10, 6, 3}
  OBVIOUS
<1>. HIDE DEF base, extra, fresh
<1>4. OnScale(Neutral + ((base + extra) * fresh) \div 10) \in 0 .. Top
  <2>1. (base + extra) * fresh \in Int
    BY <1>1, <1>2, <1>3
  <2>2. \A x \in Int : Neutral + x \div 10 \in Int
    BY DEF Neutral
  <2>. QED BY <2>1, <2>2, ScaleHolds
<1>. QED BY <1>4 DEF EarningsScore, base, extra, fresh

LEMMA PolicyKeepsScale ==
  ASSUME NEW enabled, NEW score \in 0 .. Top, NEW source
  PROVE  ApplyPolicy(enabled, score, source) \in 0 .. Top
<1>1. CASE ~enabled \/ source \notin DOMAIN Reliability
  BY <1>1 DEF ApplyPolicy
<1>2. CASE ~(~enabled \/ source \notin DOMAIN Reliability)
  <2>1. Reliability[source] \in {100, 90, 80}
    BY <1>2 DEF Reliability
  <2>2. \A k \in {100, 90, 80} : (score * k) \div 100 \in 0 .. Top
    <3>1. (score * 100) \div 100 \in 0 .. Top
      BY DEF Top
    <3>2. (score * 90) \div 100 \in 0 .. Top
      BY DEF Top
    <3>3. (score * 80) \div 100 \in 0 .. Top
      BY DEF Top
    <3>. QED BY <3>1, <3>2, <3>3
  <2>. QED BY <1>2, <2>1, <2>2 DEF ApplyPolicy
<1>. QED BY <1>1, <1>2

LEMMA ReportScored ==
  ASSUME NEW c, c.count \in Int, c.target \in Int, c.age \in Int, c.ratings \in [DOMAIN RatingWeight -> Nat], NEW close \in Int
  PROVE  ReportScore(c, close) \in Int
<1>. DEFINE upside == IF ~Has(c.target) \/ ~Has(close) \/ close <= 0 THEN 0
                      ELSE Within(((c.target - close) * 100) \div close, -40, 60)
            share == [r \in DOMAIN c.ratings |-> RatingWeight[r] * c.ratings[r]]
            voice == SumFunction(share)
            fresh == IF ~Has(c.age) THEN 0
                     ELSE IF c.age <= 14 THEN 500 ELSE IF c.age <= 30 THEN 300 ELSE 0
<1>1. upside \in Int
  <2>1. CASE close <= 0
    BY <2>1
  <2>2. CASE close > 0
    <3>1. ((c.target - close) * 100) \in Int /\ close \in Nat \ {0}
      BY <2>2
    <3>2. ((c.target - close) * 100) \div close \in Int
      BY <3>1, Divides
    <3>3. \A x \in Int : Within(x, -40, 60) \in Int
      BY DEF Within
    <3>. QED BY <3>2, <3>3
  <2>. QED BY <2>1, <2>2
<1>2. voice \in Int
  <2>1. DOMAIN c.ratings = {"STRONG_BUY", "BUY", "HOLD", "SELL", "STRONG_SELL"}
    BY DEF RatingWeight
  <2>2. IsFiniteSet(DOMAIN c.ratings)
    <3>1. IsFiniteSet({"STRONG_BUY", "BUY", "HOLD", "SELL", "STRONG_SELL"})
      BY FiveFinite, Zenon
    <3>. QED BY <2>1, <3>1
  <2>3. ASSUME NEW r \in DOMAIN c.ratings PROVE share[r] \in Int
    <3>1. RatingWeight[r] \in Int /\ c.ratings[r] \in Int
      BY <2>1 DEF RatingWeight
    <3>2. \A x, y \in Int : x * y \in Int
      OBVIOUS
    <3>. QED BY <3>1, <3>2
  <2>4. DOMAIN share = DOMAIN c.ratings
    OBVIOUS
  <2>. HIDE DEF share
  <2>. QED BY <2>2, <2>3, <2>4, SumType, SumFunctionIs
<1>3. fresh \in Int
  OBVIOUS
<1>. HIDE DEF upside, voice, fresh
<1>4. CASE c.count <= 0
  BY <1>4 DEF ReportScore, Missing
<1>5. CASE c.count > 0
  <2>1. (1000 * voice) \div c.count \in Int
    BY <1>2, <1>5, Divides
  <2>. DEFINE d == (1000 * voice) \div c.count
  <2>2. d \in Int
    BY <2>1
  <2>. HIDE DEF d
  <2>3. OnScale(Neutral + 50 * upside + d + fresh) \in Int
    <3>1. Neutral + 50 * upside + d + fresh \in Int
      BY <1>1, <1>3, <2>2 DEF Neutral
    <3>. QED BY <3>1 DEF OnScale, Within, Top
  <2>4. ReportScore(c, close) = OnScale(Neutral + 50 * upside + d + fresh)
    BY <1>5 DEF ReportScore, upside, voice, share, fresh, d
  <2>. QED BY <2>3, <2>4
<1>. QED BY <1>4, <1>5

SignalRow(x) == x.direction \in DOMAIN Direction /\ x.strength \in Int

LEMMA SignalsScored ==
  ASSUME NEW themes, NEW events, IsFiniteSet(themes), IsFiniteSet(events),
         \A x \in themes \cup events : SignalRow(x)
  PROVE  SignalScore(themes, events) \in Int
<1>. DEFINE pull(seen) == [r \in seen |-> Direction[r.direction] * r.strength]
            mean(seen) == IF seen = {} THEN 0
                          ELSE (100 * SumFunction(pull(seen))) \div Cardinality(seen)
            warned == Within(250 * Cardinality({e \in events : e.warning}), 0, 1000)
<1>1. ASSUME NEW seen, IsFiniteSet(seen), seen \subseteq themes \cup events PROVE mean(seen) \in Int
  <2>1. ASSUME NEW r \in seen PROVE pull(seen)[r] \in Int
    <3>1. Direction[r.direction] \in Int /\ r.strength \in Int
      BY <1>1 DEF SignalRow, Direction
    <3>2. \A x, y \in Int : x * y \in Int
      OBVIOUS
    <3>. QED BY <3>1, <3>2
  <2>2. DOMAIN pull(seen) = seen
    OBVIOUS
  <2>. HIDE DEF pull
  <2>3. SumFunction(pull(seen)) \in Int
    BY <1>1, <2>1, <2>2, SumType, SumFunctionIs
  <2>4. seen # {} => Cardinality(seen) \in Nat \ {0}
    BY <1>1, FS_CardinalityType, FS_EmptySet
  <2>5. seen # {} => (100 * SumFunction(pull(seen))) \div Cardinality(seen) \in Int
    BY <2>3, <2>4, Divides
  <2>. QED BY <2>5
<1>2. warned \in Int
  <2>1. Cardinality({e \in events : e.warning}) \in Nat
    BY FS_Subset, FS_CardinalityType
  <2>. QED BY <2>1 DEF Within
<1>3. mean(themes) \in Int /\ mean(events) \in Int
  BY <1>1
<1>4. SignalScore(themes, events) =
        IF themes = {} /\ events = {} THEN Missing
        ELSE OnScale(Neutral + mean(themes) + mean(events) - warned)
  BY DEF SignalScore
<1>. HIDE DEF mean, warned
<1>5. OnScale(Neutral + mean(themes) + mean(events) - warned) \in Int
  <2>1. Neutral + mean(themes) + mean(events) - warned \in Int
    BY <1>2, <1>3 DEF Neutral
  <2>. QED BY <2>1 DEF OnScale, Within, Top
<1>6. Missing \in Int
  BY DEF Missing
<1>. QED BY <1>4, <1>5, <1>6
----
(* The nesting of the producers. *)

Filed(n, f, e) == [news |-> n, supply |-> Neutral, earnings |-> e, fundamental |-> f, ai |-> Neutral]

\* What the producers of S leave, whichever of them ran first.
FromNews == ApplyPolicy(config.policy, NewsScore(WeekOfNews), config.label)
FromSnapshot == ApplyPolicy(config.policy, FundamentalScore(snapshot), snapshot.source)
FromEvent == ApplyPolicy(config.policy, EarningsScore(event), event.source)
Filled(kind, S) ==
  Filed(IF "news" \in S THEN FromNews ELSE Neutral,
        IF "fundamental" \in S /\ kind # "holding" THEN FromSnapshot ELSE Neutral,
        IF "earnings" \in S /\ kind # "recommendation" THEN FromEvent ELSE Neutral)

LEMMA FiledAgain ==
  \A n, f, e, m :
    /\ [Filed(n, f, e) EXCEPT !.news = m] = Filed(m, f, e)
    /\ [Filed(n, f, e) EXCEPT !.fundamental = m] = Filed(n, m, e)
    /\ [Filed(n, f, e) EXCEPT !.earnings = m] = Filed(n, f, m)
BY DEF Filed

LEMMA ProducersFill ==
  ASSUME NEW kind, NEW S, NEW p \in Real
  PROVE  Produce(kind, p, Filled(kind, S)) = Filled(kind, S \cup {p})
<1>. DEFINE n == IF "news" \in S THEN FromNews ELSE Neutral
            f == IF "fundamental" \in S /\ kind # "holding" THEN FromSnapshot ELSE Neutral
            e == IF "earnings" \in S /\ kind # "recommendation" THEN FromEvent ELSE Neutral
<1>0. Filled(kind, S) = Filed(n, f, e)
  BY DEF Filled
<1>1. CASE p = "news"
  <2>1. Produce(kind, p, Filled(kind, S)) = [Filed(n, f, e) EXCEPT !.news = FromNews]
    BY <1>0, <1>1 DEF Produce, NewsProducer, FromNews
  <2>2. Filled(kind, S \cup {p}) = Filed(FromNews, f, e)
    BY <1>1 DEF Filled
  <2>. HIDE DEF n, f, e
  <2>. QED BY <2>1, <2>2, FiledAgain
<1>2. CASE p = "fundamental"
  <2>1. CASE kind = "holding"
    <3>1. Filled(kind, S \cup {p}) = Filled(kind, S)
      BY <1>2, <2>1 DEF Filled
    <3>. QED BY <1>2, <2>1, <3>1 DEF Produce, FundamentalProducer
  <2>2. CASE kind # "holding"
    <3>1. Produce(kind, p, Filled(kind, S)) = [Filed(n, f, e) EXCEPT !.fundamental = FromSnapshot]
      BY <1>0, <1>2, <2>2 DEF Produce, FundamentalProducer, FromSnapshot
    <3>2. Filled(kind, S \cup {p}) = Filed(n, FromSnapshot, e)
      BY <1>2, <2>2 DEF Filled
    <3>. HIDE DEF n, f, e
    <3>. QED BY <3>1, <3>2, FiledAgain
  <2>. QED BY <2>1, <2>2
<1>3. CASE p = "earnings"
  <2>1. CASE kind = "recommendation"
    <3>1. Filled(kind, S \cup {p}) = Filled(kind, S)
      BY <1>3, <2>1 DEF Filled
    <3>. QED BY <1>3, <2>1, <3>1 DEF Produce, EarningsProducer
  <2>2. CASE kind # "recommendation"
    <3>1. Produce(kind, p, Filled(kind, S)) = [Filed(n, f, e) EXCEPT !.earnings = FromEvent]
      BY <1>0, <1>3, <2>2 DEF Produce, EarningsProducer, FromEvent
    <3>2. Filled(kind, S \cup {p}) = Filed(n, f, FromEvent)
      BY <1>3, <2>2 DEF Filled
    <3>. HIDE DEF n, f, e
    <3>. QED BY <3>1, <3>2, FiledAgain
  <2>. QED BY <2>1, <2>2
<1>. QED BY <1>1, <1>2, <1>3 DEF Real

LEMMA BlandIsUnfilled == \A kind : DummyScores(Bland) = Filled(kind, {})
BY DEF DummyScores, Bland, SupplyScore, AiScore, Has, Filled, Filed

\* Three producers deep, the function that builds the scores exists.
LEMMA ThreeDeep ==
  ASSUME NEW kind, NEW nest, Len(nest) = 3, NEW ind
  PROVE  Scores(kind, nest, ind)
           = Produce(kind, nest[1], Produce(kind, nest[2], Produce(kind, nest[3], DummyScores(ind))))
<1>. DEFINE zero == DummyScores(ind)
            one == Produce(kind, nest[3], zero)
            two == Produce(kind, nest[2], one)
            three == Produce(kind, nest[1], two)
            Builds(g) == g = [k \in 0 .. 3 |->
                           IF k = 0 THEN zero ELSE Produce(kind, nest[3 + 1 - k], g[k - 1])]
            h == [k \in 0 .. 3 |-> IF k = 0 THEN zero ELSE IF k = 1 THEN one
                                   ELSE IF k = 2 THEN two ELSE three]
<1>1. Builds(h)
  <2>1. h[0] = zero /\ h[1] = one /\ h[2] = two
    BY Zenon, SMT
  <2>2. ASSUME NEW k \in 0 .. 3
        PROVE  h[k] = IF k = 0 THEN zero ELSE Produce(kind, nest[3 + 1 - k], h[k - 1])
    <3>1. CASE k = 0
      BY <2>1, <3>1
    <3>2. CASE k = 1
      <4>1. 3 + 1 - k = 3 /\ k - 1 = 0 /\ h[k] = one
        BY <3>2
      <4>. HIDE DEF h
      <4>. QED BY <2>1, <3>2, <4>1
    <3>3. CASE k = 2
      <4>1. 3 + 1 - k = 2 /\ k - 1 = 1 /\ h[k] = two
        BY <3>3
      <4>. HIDE DEF h
      <4>. QED BY <2>1, <3>3, <4>1
    <3>4. CASE k = 3
      <4>1. 3 + 1 - k = 1 /\ k - 1 = 2 /\ h[k] = three
        BY <3>4
      <4>. HIDE DEF h
      <4>. QED BY <2>1, <3>4, <4>1
    <3>. QED BY <3>1, <3>2, <3>3, <3>4
  <2>3. h = [k \in 0 .. 3 |-> h[k]]
    OBVIOUS
  <2>. HIDE DEF h
  <2>. QED BY <2>2, <2>3
<1>. DEFINE built == CHOOSE g : Builds(g)
<1>2. Builds(built)
  BY <1>1
<1>3. Scores(kind, nest, ind) = built[3]
  BY DEF Scores
<1>. HIDE DEF built, zero
<1>4. /\ built[0] = zero
      /\ \A k \in 1 .. 3 : built[k] = Produce(kind, nest[3 + 1 - k], built[k - 1])
  BY <1>2
<1>5. built[1] = Produce(kind, nest[3], built[0])
  BY <1>4
<1>6. built[2] = Produce(kind, nest[2], built[1])
  BY <1>4
<1>7. built[3] = Produce(kind, nest[1], built[2])
  BY <1>4
<1>. QED BY <1>3, <1>4, <1>5, <1>6, <1>7 DEF zero

LEMMA NestsHoldAll ==
  \A nest \in Nests : Len(nest) = 3 /\ {nest[1], nest[2], nest[3]} = Real
<1>. TAKE nest \in Nests
<1>1. Cardinality(Real) = 3
  <2>1. IsFiniteSet({"news"}) /\ Cardinality({"news"}) = 1
    BY FS_Singleton
  <2>2. IsFiniteSet({"news"} \cup {"fundamental"}) /\ Cardinality({"news"} \cup {"fundamental"}) = 2
    BY <2>1, FS_AddElement
  <2>3. Cardinality(({"news"} \cup {"fundamental"}) \cup {"earnings"}) = 3
    BY <2>2, FS_AddElement
  <2>4. Real = ({"news"} \cup {"fundamental"}) \cup {"earnings"}
    BY DEF Real
  <2>. QED BY <2>3, <2>4
<1>2. nest \in [1 .. 3 -> Real] /\ \A i, j \in 1 .. 3 : i # j => nest[i] # nest[j]
  BY <1>1 DEF Nests, SetToSeqs
<1>3. nest[1] \in Real /\ nest[2] \in Real /\ nest[3] \in Real
  BY <1>2
<1>4. nest[1] # nest[2] /\ nest[1] # nest[3] /\ nest[2] # nest[3]
  BY <1>2
<1>5. Len(nest) = 3
  <2>1. DOMAIN nest = 1 .. 3 /\ 3 \in Nat
    BY <1>2
  <2>2. \A n \in Nat : \A f \in [1 .. n -> Real] : f \in Seq(Real)
    OBVIOUS
  <2>3. nest \in Seq(Real)
    BY <1>2, <2>1, <2>2
  <2>. QED BY <2>1, <2>3
<1>. QED BY <1>3, <1>4, <1>5 DEF Real

LEMMA NestsFill ==
  ASSUME NEW kind, NEW nest, Len(nest) = 3, {nest[1], nest[2], nest[3]} = Real
  PROVE  Scores(kind, nest, Bland) = Filled(kind, Real)
<1>1. nest[1] \in Real /\ nest[2] \in Real /\ nest[3] \in Real
  OBVIOUS
<1>2. Produce(kind, nest[3], Filled(kind, {})) = Filled(kind, {nest[3]})
  BY <1>1, ProducersFill
<1>3. Produce(kind, nest[2], Filled(kind, {nest[3]})) = Filled(kind, {nest[3]} \cup {nest[2]})
  BY <1>1, ProducersFill
<1>4. Produce(kind, nest[1], Filled(kind, {nest[3]} \cup {nest[2]}))
        = Filled(kind, ({nest[3]} \cup {nest[2]}) \cup {nest[1]})
  BY <1>1, ProducersFill
<1>5. ({nest[3]} \cup {nest[2]}) \cup {nest[1]} = Real
  OBVIOUS
<1>. QED BY <1>2, <1>3, <1>4, <1>5, ThreeDeep, BlandIsUnfilled

LEMMA UsualFills == \A kind : Scores(kind, Usual, Bland) = Filled(kind, Real)
<1>. TAKE kind
<1>1. Len(Usual) = 3 /\ {Usual[1], Usual[2], Usual[3]} = Real
  BY DEF Usual, Real
<1>. QED BY <1>1, NestsFill

LEMMA NestsAgree == NestingDoesNotMatter
<1>. SUFFICES ASSUME NEW kind \in {"recommendation", "holding"}, NEW nest \in Nests
              PROVE  Scores(kind, nest, Bland) = Scores(kind, Usual, Bland)
  BY DEF NestingDoesNotMatter
<1>1. Scores(kind, nest, Bland) = Filled(kind, Real)
  BY NestsHoldAll, NestsFill
<1>. QED BY <1>1, UsualFills

----
(* What accumulates keeps its shape, and the scores their scale. *)

EvidenceInv ==
  /\ IsFiniteSet(rows) /\ Cardinality(rows) <= MaxNews
  /\ rows \subseteq [id : Nat, mood : DOMAIN Mood, risk : BOOLEAN, age : 0 .. NewsSpan]
  /\ elapsed \in 0 .. MaxDays
  /\ snapshot \in Snapshots \cup {NoSnapshot}
  /\ event \in EventRows
  /\ consensus \in ConsensusRows
  /\ signals \in Signals \cup {NoSignals}

LEMMA EvidenceBegins == EVInit => EvidenceInv
<1>. SUFFICES ASSUME EVInit PROVE EvidenceInv
  OBVIOUS
<1>1. IsFiniteSet({}) /\ Cardinality({}) = 0
  BY FS_EmptySet
<1>2. NoEvent \in EventRows
  <2>1. Missing \in Int /\ 0 \in Int
    BY DEF Missing
  <2>. QED BY <2>1 DEF NoEvent, EventRows
<1>3. NoConsensus \in ConsensusRows
  <2>1. [r \in DOMAIN RatingWeight |-> 0] \in [DOMAIN RatingWeight -> Nat]
    OBVIOUS
  <2>. QED BY <2>1 DEF NoConsensus, Missing, ConsensusRows
<1>. QED BY <1>1, <1>2, <1>3, ScoreEvidenceAssumption DEF EVInit, EvidenceInv

LEMMA EvidenceStep == EvidenceInv /\ [EVNext]_evVars => EvidenceInv'
<1>. SUFFICES ASSUME EvidenceInv, [EVNext]_evVars PROVE EvidenceInv'
  OBVIOUS
<1>0. NewsSpan \in Nat /\ MaxNews \in Nat /\ MaxDays \in Nat /\ Spans \subseteq Nat
  BY ScoreEvidenceAssumption
<1>1. ASSUME NEW row \in NewsRows, NewsArrives(row) PROVE EvidenceInv'
  <2>. DEFINE n == Cardinality(rows)
              new == [id |-> n + 1, mood |-> row.mood, risk |-> row.risk, age |-> 0]
  <2>1. n \in Nat /\ n < MaxNews /\ IsFiniteSet(rows)
    BY <1>1, FS_CardinalityType DEF EvidenceInv, NewsArrives
  <2>2. row.mood \in DOMAIN Mood /\ row.risk \in BOOLEAN
    BY ScoreEvidenceAssumption
  <2>3. new \in [id : Nat, mood : DOMAIN Mood, risk : BOOLEAN, age : 0 .. NewsSpan]
    <3>1. n + 1 \in Nat /\ 0 \in 0 .. NewsSpan
      BY <2>1, <1>0
    <3>. HIDE DEF n
    <3>. QED BY <2>2, <3>1
  <2>4. rows' = rows \cup {new}
    BY <1>1 DEF NewsArrives
  <2>. HIDE DEF new
  <2>5. IsFiniteSet(rows \cup {new}) /\ Cardinality(rows \cup {new}) \in {n, n + 1}
    BY <2>1, FS_AddElement
  <2>6. Cardinality(rows \cup {new}) <= MaxNews
    BY <2>1, <2>5, <1>0
  <2>7. UNCHANGED <<snapshot, event, consensus, signals, elapsed>>
    BY <1>1 DEF NewsArrives
  <2>. QED BY <2>3, <2>4, <2>5, <2>6, <2>7 DEF EvidenceInv
<1>2. ASSUME NEW n \in Spans, DaysPass(n) PROVE EvidenceInv'
  <2>. DEFINE older == [r \in rows |-> [r EXCEPT !.age = Within(@ + n, 0, NewsSpan)]]
  <2>1. rows' = {older[r] : r \in rows}
    BY <1>2 DEF DaysPass
  <2>2. IsFiniteSet(rows') /\ Cardinality(rows') <= Cardinality(rows)
    <3>1. older \in Surjection(rows, rows')
      BY <2>1 DEF Surjection
    <3>2. IsFiniteSet(rows)
      BY DEF EvidenceInv
    <3>. HIDE DEF older
    <3>. QED BY <3>1, <3>2, FS_Surjection
  <2>3. Cardinality(rows') <= MaxNews
    <3>1. Cardinality(rows) \in Nat /\ Cardinality(rows') \in Nat /\ Cardinality(rows) <= MaxNews
      BY <2>2, FS_CardinalityType DEF EvidenceInv
    <3>. QED BY <2>2, <3>1, <1>0
  <2>4. ASSUME NEW r \in rows
        PROVE  older[r] \in [id : Nat, mood : DOMAIN Mood, risk : BOOLEAN, age : 0 .. NewsSpan]
    <3>1. r \in [id : Nat, mood : DOMAIN Mood, risk : BOOLEAN, age : 0 .. NewsSpan]
      BY DEF EvidenceInv
    <3>2. r.age + n \in Int
      BY <3>1, <1>0
    <3>3. Within(r.age + n, 0, NewsSpan) \in 0 .. NewsSpan
      BY <3>2, <1>0 DEF Within
    <3>4. older[r] = [r EXCEPT !.age = Within(r.age + n, 0, NewsSpan)]
      OBVIOUS
    <3>. HIDE DEF older
    <3>. QED BY <3>1, <3>3, <3>4
  <2>5. elapsed' \in 0 .. MaxDays
    BY <1>0, <1>2 DEF DaysPass, EvidenceInv
  <2>6. event' \in EventRows
    <3>1. event' = [event EXCEPT !.age = event.age + n]
      BY <1>2 DEF DaysPass
    <3>2. event.age + n \in Int
      BY <1>0 DEF EvidenceInv, EventRows
    <3>. QED BY <3>1, <3>2 DEF EvidenceInv, EventRows
  <2>7. consensus' \in ConsensusRows
    <3>1. PICK a \in Int : consensus' = [consensus EXCEPT !.age = a]
      <4>1. consensus' = [consensus EXCEPT !.age = IF Has(consensus.age) THEN consensus.age + n ELSE consensus.age]
        BY <1>2 DEF DaysPass
      <4>2. (IF Has(consensus.age) THEN consensus.age + n ELSE consensus.age) \in Int
        BY <1>0 DEF EvidenceInv, ConsensusRows
      <4>. QED BY <4>1, <4>2
    <3>. QED BY <3>1 DEF EvidenceInv, ConsensusRows
  <2>8. UNCHANGED <<snapshot, signals>>
    BY <1>2 DEF DaysPass
  <2>9. rows' \subseteq [id : Nat, mood : DOMAIN Mood, risk : BOOLEAN, age : 0 .. NewsSpan]
    BY <2>1, <2>4
  <2>. QED BY <2>2, <2>3, <2>5, <2>6, <2>7, <2>8, <2>9 DEF EvidenceInv
<1>3. ASSUME NEW f \in Snapshots, SnapshotStored(f) PROVE EvidenceInv'
  BY <1>3 DEF SnapshotStored, EvidenceInv
<1>4. ASSUME NEW e \in Events, EventStored(e) PROVE EvidenceInv'
  BY <1>4, ScoreEvidenceAssumption DEF EventStored, EvidenceInv
<1>5. ASSUME NEW c \in Consensuses, NEW s \in Signals, ReportsStored(c, s) PROVE EvidenceInv'
  BY <1>5, ScoreEvidenceAssumption DEF ReportsStored, EvidenceInv
<1>6. CASE UNCHANGED evVars
  BY <1>6 DEF evVars, EvidenceInv
<1>. QED BY <1>1, <1>2, <1>3, <1>4, <1>5, <1>6 DEF EVNext

LEMMA EvidenceIsScored ==
  ASSUME EvidenceInv
  PROVE  FromNews \in 0 .. Top /\ FromSnapshot \in 0 .. Top /\ FromEvent \in 0 .. Top
<1>1. NewsScore(WeekOfNews) \in 0 .. Top
  <2>1. IsFiniteSet(WeekOfNews)
    BY FS_Subset DEF WeekOfNews, EvidenceInv
  <2>2. \A r \in WeekOfNews : NewsRow(r)
    BY DEF WeekOfNews, EvidenceInv, NewsRow
  <2>. QED BY <2>1, <2>2, NewsScored
<1>2. FundamentalScore(snapshot) \in 0 .. Top
  <2>1. Stated(snapshot)
    BY ScoreEvidenceAssumption DEF EvidenceInv, NoSnapshot, Missing, Stated, Ratios
  <2>. QED BY <2>1, SnapshotScored
<1>3. EarningsScore(event) \in 0 .. Top
  <2>1. event.pct \in Int
    BY DEF EvidenceInv, EventRows
  <2>. QED BY <2>1, EventScored
<1>. QED BY <1>1, <1>2, <1>3, PolicyKeepsScale DEF FromNews, FromSnapshot, FromEvent

LEMMA ScoresOnScale == EvidenceInv => ScoresStayOnScale
<1>. SUFFICES ASSUME EvidenceInv, NEW kind \in {"recommendation", "holding"}
              PROVE  LET scores == Scores(kind, Usual, Bland)
                         risk == RecommendationRisk(Bland, RiskFilings)
                         base == Compose(NewWeights, WithTechnical(scores, Bland), risk.penalty)
                         total == Adjusted(base, ReportScore(consensus, consensus.close),
                                           SignalScore(signals.themes, signals.events))
                     IN  /\ \A c \in DOMAIN scores : scores[c] \in 0..Top
                         /\ risk.penalty <= 5000 /\ total \in 0..Top
  BY DEF ScoresStayOnScale
<1>. DEFINE scores == Scores(kind, Usual, Bland)
            penalty == RecommendationRisk(Bland, RiskFilings).penalty
            worn == WithTechnical(scores, Bland)
            base == Compose(NewWeights, worn, penalty)
            report == ReportScore(consensus, consensus.close)
            signal == SignalScore(signals.themes, signals.events)
<1>1. /\ DOMAIN scores = {"news", "supply", "earnings", "fundamental", "ai"}
      /\ \A c \in DOMAIN scores : scores[c] \in 0 .. Top
  <2>1. PICK n \in 0 .. Top, f \in 0 .. Top, e \in 0 .. Top : scores = Filed(n, f, e)
    <3>1. Neutral \in 0 .. Top
      BY DEF Neutral, Top
    <3>2. scores = Filled(kind, Real)
      BY UsualFills
    <3>. HIDE DEF scores
    <3>. QED BY <3>1, <3>2, EvidenceIsScored DEF Filled
  <2>2. Neutral \in 0 .. Top
    BY DEF Neutral, Top
  <2>3. DOMAIN Filed(n, f, e) = {"news", "supply", "earnings", "fundamental", "ai"}
        /\ \A c \in DOMAIN Filed(n, f, e) : Filed(n, f, e)[c] \in 0 .. Top
    BY <2>2 DEF Filed
  <2>. HIDE DEF scores
  <2>. QED BY <2>1, <2>3
<1>2. penalty \in Nat /\ penalty <= 5000
  <2>1. RiskFilings \in Nat
    <3>1. IsFiniteSet({r \in rows : r.age <= 14 /\ r.risk})
      BY FS_Subset DEF EvidenceInv
    <3>. QED BY <3>1, FS_CardinalityType DEF RiskFilings
  <2>. QED BY <2>1, RiskTyped
<1>3. base \in 0 .. Top
  <2>1. DOMAIN NewWeights = {"technical", "news", "supply", "fundamental", "ai"}
        /\ \A c \in DOMAIN NewWeights : NewWeights[c] \in Int
    BY DEF NewWeights
  <2>2. IsFiniteSet(DOMAIN NewWeights)
    <3>1. IsFiniteSet({"technical", "news", "supply", "fundamental", "ai"})
      BY FiveFinite, Zenon
    <3>. QED BY <2>1, <3>1
  <2>3. \A c \in DOMAIN NewWeights : worn[c] \in Int
    <3>1. Bland.technical \in Int
      BY DEF Bland, Neutral
    <3>2. \A x \in 0 .. Top : x \in Int
      OBVIOUS
    <3>. HIDE DEF scores
    <3>. QED BY <1>1, <2>1, <3>1, <3>2 DEF WithTechnical
  <2>4. \A c \in DOMAIN NewWeights : NewWeights[c] \in Int /\ worn[c] \in Int
    BY <2>1, <2>3
  <2>. HIDE DEF worn, penalty
  <2>. QED BY <1>2, <2>2, <2>4, TotalTyped
<1>4. report \in Int
  <2>1. /\ consensus.count \in Int /\ consensus.target \in Int /\ consensus.age \in Int
        /\ consensus.ratings \in [DOMAIN RatingWeight -> Nat] /\ consensus.close \in Int
    BY DEF EvidenceInv, ConsensusRows
  <2>. QED BY <2>1, ReportScored
<1>5. signal \in Int
  <2>1. IsFiniteSet(signals.themes) /\ IsFiniteSet(signals.events)
    <3>1. CASE signals \in Signals
      BY <3>1, ScoreEvidenceAssumption
    <3>2. CASE signals = NoSignals
      BY <3>2, FS_EmptySet DEF NoSignals
    <3>. QED BY <3>1, <3>2 DEF EvidenceInv
  <2>2. \A x \in signals.themes \cup signals.events : SignalRow(x)
    BY ScoreEvidenceAssumption DEF EvidenceInv, NoSignals, SignalRow
  <2>. QED BY <2>1, <2>2, SignalsScored
<1>6. base \in Int
  <2>. HIDE DEF base
  <2>. QED BY <1>3 DEF Top
<1>. HIDE DEF scores, penalty, base, report, signal
<1>7. Adjusted(base, report, signal) \in 0 .. Top
  BY <1>4, <1>5, <1>6, AdjustedTyped
<1>. QED BY <1>1, <1>2, <1>7 DEF scores, penalty, worn, base, report, signal

\* However long news, filings, snapshots, events and reports pile up and age, the
\* tables keep their shape, every component and the adjusted total stay within 0 to
\* 100 points and the penalty within 50, and the nesting of the producers changes
\* nothing (RealNewsScoreProducer and the producers it wraps).
THEOREM EvidenceStaysOnScale ==
  EVSpec => [](EVTypeOK /\ NestingDoesNotMatter /\ ScoresStayOnScale)
<1>1. EVInit => EvidenceInv
  BY EvidenceBegins
<1>2. EvidenceInv /\ [EVNext]_evVars => EvidenceInv'
  BY EvidenceStep
<1>3. EvidenceInv => EVTypeOK
  BY DEF EvidenceInv, EVTypeOK
<1>4. EvidenceInv => EVTypeOK /\ NestingDoesNotMatter /\ ScoresStayOnScale
  BY <1>3, NestsAgree, ScoresOnScale
<1>. QED BY <1>1, <1>2, <1>4, PTL DEF EVSpec

----
(* DailyDecisions: the first and the last of a finite set of numbers, and   *)
(* returns in hundredths of a percent.                                      *)

LEMMA LatestIs ==
  ASSUME NEW S, IsFiniteSet(S), S # {}, S \subseteq Int
  PROVE  LatestOf(S) \in S /\ \A x \in S : x <= LatestOf(S)
<1>1. Max(S) \in S /\ \A y \in S : Max(S) >= y
  BY LargestIsMax
<1>2. \A y \in S : y <= Max(S)
  BY <1>1
<1>. QED BY <1>1, <1>2 DEF LatestOf

LEMMA HighestIs ==
  ASSUME NEW S, IsFiniteSet(S), S # {}, S \subseteq Int
  PROVE  Highest(S) \in S /\ \A x \in S : Highest(S) >= x
<1>1. Max(S) \in S /\ \A y \in S : Max(S) >= y
  BY LargestIsMax
<1>. QED BY <1>1 DEF Highest

LEMMA LowestIs ==
  ASSUME NEW S, IsFiniteSet(S), S # {}, S \subseteq Int
  PROVE  Lowest(S) \in S /\ \A x \in S : Lowest(S) <= x
<1>. DEFINE h == [x \in S |-> 0 - x]
            T == {h[x] : x \in S}
<1>0. IsFiniteSet(T)
  <2>. HIDE DEF h
  <2>. QED BY ImageFinite
<1>1. IsFiniteSet(T) /\ T \subseteq Int /\ T # {}
  <2>1. \A x \in S : h[x] \in Int
    OBVIOUS
  <2>2. T \subseteq Int
    BY <2>1
  <2>3. T # {}
    OBVIOUS
  <2>. QED BY <1>0, <2>2, <2>3
<1>2. Max(T) \in T /\ \A y \in T : Max(T) >= y
  <2>. HIDE DEF T
  <2>. QED BY <1>1, LargestIsMax
<1>3. PICK v \in S : Max(T) = 0 - v
  BY <1>2
<1>4. \A x \in S : v <= x
  BY <1>2, <1>3
<1>. QED BY <1>4 DEF Lowest

\* What lies in both of two ranges of days can only move the extremes outwards.
LEMMA ProductsCompared ==
  ASSUME NEW x \in Int, NEW y \in Int, NEW q \in Nat, x >= y
  PROVE  x * q >= y * q
OBVIOUS

LEMMA ReturnIs ==
  ASSUME NEW v \in Price, NEW b \in Price
  PROVE  /\ Percent(v, b) \in Int
         /\ b * (Percent(v, b) + 10000) <= v * 10000
         /\ v * 10000 < b * (Percent(v, b) + 10001)
         /\ Percent(v, b) + 10000 \in Nat
<1>. DEFINE n == (v - b) * 10000
            q == n \div b
<1>1. n \in Int /\ n + b * 10000 = v * 10000 /\ b \in Nat \ {0} /\ v \in Nat
  BY DEF Price
<1>2. \A x \in Int, y \in Nat \ {0} : x \div y \in Int /\ y * (x \div y) <= x /\ x < y * (x \div y) + y
  OBVIOUS
<1>. HIDE DEF n
<1>3. q \in Int /\ b * q <= n /\ n < b * q + b
  BY <1>1, <1>2
<1>. HIDE DEF q
<1>4. b * (q + 10000) = b * q + b * 10000 /\ b * (q + 10001) = b * q + b * 10000 + b
  BY <1>1, <1>3
<1>5. b * (q + 10000) <= v * 10000 /\ v * 10000 < b * (q + 10001)
  <2>1. b * q \in Int /\ b * 10000 \in Int /\ v * 10000 \in Int
    BY <1>1, <1>3
  <2>. QED BY <1>1, <1>3, <1>4, <2>1
<1>6. q + 10000 \in Nat
  <2>1. SUFFICES ASSUME q + 10001 <= 0 PROVE FALSE
    BY <1>3
  <2>2. b * (q + 10001) <= 0
    BY <1>1, <1>3, <2>1
  <2>3. v * 10000 >= 0
    BY <1>1
  <2>. QED BY <1>1, <1>3, <1>5, <2>2, <2>3
<1>. QED BY <1>3, <1>5, <1>6 DEF Percent, n, q

\* A lower price from a higher base is no better a return.
LEMMA ReturnsCompared ==
  ASSUME NEW v \in Price, NEW w \in Price, NEW b \in Price, NEW c \in Price, v <= w, c <= b
  PROVE  Percent(v, b) <= Percent(w, c)
<1>. DEFINE p == Percent(v, b) + 10000
            q == Percent(w, c) + 10000
<1>1. p \in Nat /\ b * p <= v * 10000
  BY ReturnIs
<1>2. q \in Nat /\ w * 10000 < c * (q + 1)
  BY ReturnIs
<1>3. Percent(v, b) \in Int /\ Percent(w, c) \in Int
  BY ReturnIs
<1>. HIDE DEF p, q
<1>4. SUFFICES ASSUME p >= q + 1 PROVE FALSE
  BY <1>1, <1>2, <1>3 DEF p, q
<1>5. b * p < c * (q + 1)
  BY <1>1, <1>2 DEF Price
<1>6. c * (q + 1) <= c * p
  BY <1>1, <1>2, <1>4, ProductsCompared DEF Price
<1>7. c * p <= b * p
  BY <1>1, ProductsCompared DEF Price
<1>8. b * p \in Int /\ c * p \in Int /\ c * (q + 1) \in Int
  BY <1>1, <1>2 DEF Price
<1>. HIDE DEF Price
<1>. QED BY <1>5, <1>6, <1>7, <1>8

----
(* The scores of candidates and of holdings. *)

\* The components that an indicator row alone decides.
LEMMA DummiesTyped ==
  ASSUME NEW ind \in Situations
  PROVE  /\ DOMAIN DummyScores(ind) = {"news", "supply", "earnings", "fundamental", "ai"}
         /\ \A c \in DOMAIN DummyScores(ind) : DummyScores(ind)[c] \in Int
<1>1. ind.volume \in Int
  BY DailyDecisionsAssumption
<1>2. SupplyScore(ind.volume) \in Int
  BY <1>1 DEF SupplyScore, Neutral, Has
<1>3. AiScore(ind.alignment) \in Int
  BY DEF AiScore, Neutral
<1>. QED BY <1>2, <1>3 DEF DummyScores, Neutral

LEMMA CandidateTyped ==
  ASSUME NEW s, facts[s] \in Situations
  PROVE  Candidate(s).symbol = s /\ Candidate(s).total \in 0 .. Top
<1>. DEFINE ind == facts[s]
            risk == RecommendationRisk(ind, ind.filings)
            scores == [WithTechnical(DummyScores(ind), ind)
                         EXCEPT !.news = ind.news, !.fundamental = ind.fundamental]
            base == Compose(NewWeights, scores, risk.penalty)
<1>1. /\ ind.technical \in Int /\ ind.filings \in Nat /\ ind.news \in Int
      /\ ind.fundamental \in Int /\ ind.report \in Int /\ ind.signal \in Int
  BY DailyDecisionsAssumption
<1>2. risk.penalty \in Nat
  <2>1. PICK n \in Nat : n = ind.filings
    BY <1>1
  <2>2. RecommendationRisk(ind, n).penalty \in Nat
    BY RiskTyped
  <2>. QED BY <2>1, <2>2
<1>3. DOMAIN NewWeights = {"technical", "news", "supply", "fundamental", "ai"}
      /\ \A c \in DOMAIN NewWeights : NewWeights[c] \in Int
  BY DEF NewWeights
<1>4. \A c \in DOMAIN NewWeights : scores[c] \in Int
  BY <1>1, <1>3, DummiesTyped DEF WithTechnical
<1>5. base \in Int
  <2>1. IsFiniteSet(DOMAIN NewWeights)
    <3>1. IsFiniteSet({"technical", "news", "supply", "fundamental", "ai"})
      BY FiveFinite, Zenon
    <3>. QED BY <1>3, <3>1
  <2>. HIDE DEF scores, risk
  <2>3. base \in 0 .. Top
    BY <1>3, <1>2, <1>4, <2>1, TotalTyped
  <2>. HIDE DEF base
  <2>. QED BY <2>3 DEF Top
<1>6. Candidate(s).total = Adjusted(base, ind.report, ind.signal)
  BY DEF Candidate
<1>7. Candidate(s).symbol = s
  BY DEF Candidate
<1>. HIDE DEF base, ind
<1>. QED BY <1>1, <1>5, <1>6, <1>7, AdjustedTyped

----
(* Ranking. *)

----
(* The ranking of candidates. *)

\* What a run ranks: finitely many members, one candidate each, whose totals
\* are numbers.
Ranked(all) ==
  /\ IsFiniteSet(all)
  /\ \A c \in all : c.total \in Int /\ c.symbol \in Range(Universe)
  /\ \A a, b \in all : a.symbol = b.symbol => a = b

LEMMA MembersAreOrdered ==
  \A s \in Range(Universe) : SymbolOrder(s) \in Nat /\ Universe[SymbolOrder(s)] = s
<1>. TAKE s \in Range(Universe)
<1>1. \E i \in DOMAIN Universe : Universe[i] = s
  BY DEF Range
<1>2. SymbolOrder(s) \in DOMAIN Universe /\ Universe[SymbolOrder(s)] = s
  BY <1>1 DEF SymbolOrder
<1>. QED BY <1>2, DailyDecisionsAssumption

\* The two sorts are one strict total order.
LEMMA BeforeIsAnOrder ==
  ASSUME NEW all, Ranked(all)
  PROVE  /\ \A a \in all : ~Before(a, a)
         /\ \A a, b \in all : a = b \/ Before(a, b) \/ Before(b, a)
         /\ \A a, b, c \in all : Before(a, b) /\ Before(b, c) => Before(a, c)
<1>1. \A a \in all : a.total \in Int /\ SymbolOrder(a.symbol) \in Nat
  BY MembersAreOrdered DEF Ranked
<1>2. \A a, b \in all : SymbolOrder(a.symbol) = SymbolOrder(b.symbol) => a = b
  BY MembersAreOrdered DEF Ranked
<1>3. \A a \in all : ~Before(a, a)
  BY <1>1 DEF Before
<1>4. ASSUME NEW a \in all, NEW b \in all PROVE a = b \/ Before(a, b) \/ Before(b, a)
  BY <1>1, <1>2 DEF Before
<1>5. ASSUME NEW a \in all, NEW b \in all, NEW c \in all, Before(a, b), Before(b, c)
      PROVE  Before(a, c)
  BY <1>1, <1>5 DEF Before
<1>. QED BY <1>3, <1>4, <1>5

\* The two sorts are such an order, and its places are those of a run.
LEMMA PlacesAreRanks ==
  ASSUME NEW all, Ranked(all)
  PROVE  /\ \A c \in all : Place(all, c) \in 1 .. Cardinality(all)
         /\ \A a, b \in all : Before(a, b) <=> Place(all, a) < Place(all, b)
         /\ \A r \in 1 .. Cardinality(all) : \E c \in all : Place(all, c) = r
<1>. DEFINE order == {p \in all \X all : Before(p[1], p[2])}
<1>1. \A a, b \in all : <<a, b>> \in order <=> Before(a, b)
  OBVIOUS
<1>2. \A c \in all : Standing(all, order, c) = Place(all, c)
  <2>. TAKE c \in all
  <2>1. {b \in all : <<b, c>> \in order} = {b \in all : Before(b, c)}
    BY <1>1
  <2>. QED BY <2>1 DEF Standing, Place
<1>3. IsFiniteSet(all)
  BY DEF Ranked
<1>. HIDE DEF order
<1>4. StrictlyOrders(order, all)
  BY <1>1, BeforeIsAnOrder DEF StrictlyOrders
<1>5. /\ \A c \in all : Standing(all, order, c) \in 1 .. Cardinality(all)
      /\ \A a, b \in all : <<a, b>> \in order <=> Standing(all, order, a) < Standing(all, order, b)
      /\ \A r \in 1 .. Cardinality(all) : \E c \in all : Standing(all, order, c) = r
  BY <1>3, <1>4, StandingsAreRanks
<1>. QED BY <1>1, <1>2, <1>5

----
(* The tables, and the runs in them. *)

\* The tables the engines read.
BarsInv ==
  /\ day \in Nat \ {0}
  /\ bars = [s \in Symbols |-> bars[s]]
  /\ \A s \in Symbols : /\ DOMAIN bars[s] \subseteq 1 .. day
                        /\ \A d \in DOMAIN bars[s] : bars[s][d] \in BarShapes

FactsInv == facts \in [Symbols -> Situations \cup {Blank}]

\* The runs and the recommendations in them.
RunsInv ==
  /\ \E S : runs \in Seq(S)
  /\ \A i \in DOMAIN runs :
       /\ runs[i].date \in 1 .. day
       /\ Len(runs[i].picks) \in 0 .. TopN /\ DOMAIN runs[i].picks = 1 .. Len(runs[i].picks)
       /\ \A r \in DOMAIN runs[i].picks : runs[i].picks[r].symbol \in Range(Universe)

LEMMA CandidatesAreRanked ==
  ASSUME FactsInv
  PROVE  /\ Ranked(Candidates)
         /\ \A c \in Candidates : Candidate(c.symbol) = c /\ c.total \in 0 .. Top
<1>. DEFINE scored == {t \in Range(Universe) \ Unlisted : facts[t] # Blank}
            h == [t \in scored |-> Candidate(t)]
<1>1. \A t \in scored : t \in Range(Universe) /\ facts[t] \in Situations
  BY DEF FactsInv, Symbols
<1>2. \A t \in scored : Candidate(t).symbol = t /\ Candidate(t).total \in 0 .. Top
  BY <1>1, CandidateTyped
<1>3. Candidates = {h[t] : t \in scored}
  BY DEF Candidates
<1>4. IsFiniteSet(scored)
  <2>. DEFINE n == Len(Universe)
              g == [i \in 1 .. n |-> Universe[i]]
              R == {g[i] : i \in 1 .. n}
  <2>1. n \in Nat /\ DOMAIN Universe = 1 .. n
    BY DailyDecisionsAssumption
  <2>2. IsFiniteSet(1 .. n)
    <3>. HIDE DEF n
    <3>. QED BY <2>1, FS_Interval
  <2>3. IsFiniteSet(R)
    <3>. HIDE DEF g, n
    <3>. QED BY <2>2, ImageFinite
  <2>4. Range(Universe) = R
    BY <2>1 DEF Range
  <2>5. scored \in SUBSET R
    BY <2>4
  <2>. HIDE DEF R, scored
  <2>. QED BY <2>3, <2>5, FS_Subset
<1>5. IsFiniteSet(Candidates)
  <2>1. IsFiniteSet({h[t] : t \in scored})
    <3>. HIDE DEF h, scored
    <3>. QED BY <1>4, ImageFinite
  <2>. QED BY <1>3, <2>1
<1>6. \A c \in Candidates : \E t \in scored : c = Candidate(t)
  BY DEF Candidates
<1>7. \A c \in Candidates : /\ c.total \in 0 .. Top /\ c.symbol \in Range(Universe)
                            /\ Candidate(c.symbol) = c
  BY <1>1, <1>2, <1>6
<1>8. \A x \in 0 .. Top : x \in Int
  OBVIOUS
<1>. QED BY <1>5, <1>7, <1>8 DEF Ranked

\* A run takes the first TopN places, or all there are.
LEMMA PicksAreTheFirst ==
  ASSUME FactsInv
  PROVE  /\ \E n \in 0 .. TopN : /\ DOMAIN Picks = 1 .. n
                                 /\ n = TopN \/ n = Cardinality(Candidates)
                                 /\ n <= Cardinality(Candidates)
         /\ Len(Picks) \in 0 .. TopN /\ DOMAIN Picks = 1 .. Len(Picks)
         /\ \A r \in DOMAIN Picks : Picks[r] \in Candidates /\ Place(Candidates, Picks[r]) = r
<1>. DEFINE m == Cardinality(Candidates)
            n == Min({TopN, m})
            P == [r \in 1 .. n |-> CHOOSE c \in Candidates : Place(Candidates, c) = r]
<1>1. Ranked(Candidates)
  BY CandidatesAreRanked
<1>2. TopN \in Nat /\ m \in Nat
  BY <1>1, DailyDecisionsAssumption, FS_CardinalityType DEF Ranked
<1>3. n = IF TopN <= m THEN TopN ELSE m
  BY <1>2, MinOfTwo
<1>4. Picks = P
  BY DEF Picks
<1>5. \A r \in 1 .. m : \E c \in Candidates : Place(Candidates, c) = r
  BY <1>1, PlacesAreRanks
<1>. HIDE DEF m, n
<1>6. n \in 0 .. TopN /\ n <= m /\ (n = TopN \/ n = m)
  BY <1>2, <1>3
<1>7. \A r \in 1 .. n : P[r] \in Candidates /\ Place(Candidates, P[r]) = r
  BY <1>2, <1>5, <1>6
<1>8. DOMAIN P = 1 .. n
  OBVIOUS
<1>9. P \in Seq(Candidates)
  BY <1>2, <1>6, <1>7
<1>. HIDE DEF P
<1>10. Len(P) = n
  BY <1>6, <1>8, <1>9
<1>. QED BY <1>4, <1>6, <1>7, <1>8, <1>10 DEF m

----
(* What a review measures. *)

\* Some day of a window has the highest high, and some day the lowest low.
Peak(s, days, h) ==
  h \in Price /\ (\E d \in days : h = bars[s][d].high) /\ \A d \in days : bars[s][d].high <= h
Trough(s, days, l) ==
  l \in Price /\ (\E d \in days : l = bars[s][d].low) /\ \A d \in days : l <= bars[s][d].low

\* What a measurement over a window says of its bars.
Judged(m, s, ref, n) ==
  /\ m.ref = ref /\ m.on \in Window(s, ref, n) /\ \A d \in Window(s, ref, n) : d <= m.on
  /\ m.status = Classify(m.high, m.low, m.close)
  /\ m.close = Percent(bars[s][m.on].close, bars[s][ref].close)
  /\ m.basis = [d \in {ref} \cup Window(s, ref, n) |-> bars[s][d]]
  /\ \E h, l, t \in Price :
       /\ Peak(s, Window(s, ref, n), h) /\ Trough(s, Window(s, ref, n), l)
       /\ t = IF bars[s][ref].close >= h THEN bars[s][ref].close ELSE h
       /\ m.high = Percent(h, bars[s][ref].close) /\ m.low = Percent(l, bars[s][ref].close)
       /\ m.drawdown = Percent(l, t)

LEMMA BarsArePriced ==
  ASSUME BarsInv, NEW s \in Symbols, NEW d \in DOMAIN bars[s]
  PROVE  /\ d \in Nat \ {0} /\ d <= day
         /\ bars[s][d].open \in Price /\ bars[s][d].high \in Price
         /\ bars[s][d].low \in Price /\ bars[s][d].close \in Price
<1>1. bars[s][d] \in BarShapes /\ d \in 1 .. day
  BY DEF BarsInv
<1>. QED BY <1>1, DailyDecisionsAssumption DEF BarsInv

LEMMA WindowsAreFinite ==
  ASSUME BarsInv, NEW s \in Symbols, NEW ref \in Int, NEW n \in Int
  PROVE  IsFiniteSet(Window(s, ref, n)) /\ Window(s, ref, n) \subseteq DOMAIN bars[s]
         /\ Window(s, ref, n) \subseteq Int
<1>1. Window(s, ref, n) \in SUBSET (1 .. day)
  BY DEF BarsInv, Window
<1>2. IsFiniteSet(1 .. day)
  BY FS_Interval DEF BarsInv
<1>3. IsFiniteSet(Window(s, ref, n))
  BY <1>1, <1>2, FS_Subset
<1>4. Window(s, ref, n) \subseteq DOMAIN bars[s]
  BY DEF Window
<1>. QED BY <1>1, <1>3, <1>4

LEMMA MeasurementsAreJudged ==
  ASSUME BarsInv, NEW s \in Symbols, NEW ref \in DOMAIN bars[s], NEW n \in Nat,
         Window(s, ref, n) # {}
  PROVE  Judged(Measured(s, ref, n), s, ref, n)
<1>. DEFINE base == bars[s][ref].close
            seen == Window(s, ref, n)
            last == LatestOf(seen)
            hf == [d \in seen |-> bars[s][d].high]
            lf == [d \in seen |-> bars[s][d].low]
            H == {hf[d] : d \in seen}
            L == {lf[d] : d \in seen}
            h == Highest(H)
            l == Lowest(L)
            t == Highest({base} \cup H)
            m == Measured(s, ref, n)
<1>1. ref \in Int /\ base \in Price
  BY BarsArePriced
<1>2. IsFiniteSet(seen) /\ seen \subseteq DOMAIN bars[s] /\ seen \subseteq Int /\ seen # {}
  BY <1>1, WindowsAreFinite
<1>3. last \in seen /\ \A d \in seen : d <= last
  <2>. HIDE DEF seen
  <2>. QED BY <1>2, LatestIs
<1>4. \A d \in seen : hf[d] \in Price /\ lf[d] \in Price
  BY <1>2, BarsArePriced
<1>5. Price \subseteq Int
  BY DEF Price
<1>6. IsFiniteSet(H) /\ H # {} /\ H \subseteq Int /\ H \subseteq Price
  <2>. HIDE DEF seen, hf
  <2>1. IsFiniteSet(H)
    BY <1>2, ImageFinite
  <2>. QED BY <1>2, <1>4, <1>5, <2>1
<1>7. IsFiniteSet(L) /\ L # {} /\ L \subseteq Int /\ L \subseteq Price
  <2>. HIDE DEF seen, lf
  <2>1. IsFiniteSet(L)
    BY <1>2, ImageFinite
  <2>. QED BY <1>2, <1>4, <1>5, <2>1
<1>8. IsFiniteSet({base} \cup H) /\ {base} \cup H # {} /\ {base} \cup H \subseteq Int
  <2>. HIDE DEF H, base
  <2>1. IsFiniteSet({base} \cup H)
    BY <1>6, FS_Singleton, FS_Union
  <2>. QED BY <1>1, <1>5, <1>6, <2>1
<1>9. h \in H /\ \A x \in H : h >= x
  <2>. HIDE DEF H
  <2>. QED BY <1>6, HighestIs
<1>10. l \in L /\ \A x \in L : l <= x
  <2>. HIDE DEF L
  <2>. QED BY <1>7, LowestIs
<1>11. t \in {base} \cup H /\ \A x \in {base} \cup H : t >= x
  <2>. HIDE DEF H, base
  <2>. QED BY <1>8, HighestIs
<1>12. t = IF base >= h THEN base ELSE h
  <2>. HIDE DEF H, base, h, t
  <2>1. t \in Int /\ base \in Int /\ h \in Int
    BY <1>1, <1>5, <1>6, <1>9, <1>11
  <2>2. t >= base /\ t >= h /\ (t = base \/ h >= t)
    BY <1>9, <1>11
  <2>. QED BY <2>1, <2>2
<1>13. Peak(s, seen, h)
  <2>1. \A d \in seen : hf[d] \in H /\ hf[d] = bars[s][d].high
    OBVIOUS
  <2>2. \E d \in seen : h = hf[d]
    BY <1>9
  <2>3. h \in Price
    BY <1>6, <1>9
  <2>4. \A d \in seen : h >= hf[d] /\ hf[d] \in Int
    BY <1>4, <1>5, <1>9, <2>1
  <2>. HIDE DEF h, hf, seen
  <2>5. \A d \in seen : bars[s][d].high <= h
    BY <1>5, <2>1, <2>3, <2>4
  <2>. QED BY <2>1, <2>2, <2>3, <2>5 DEF Peak
<1>14. Trough(s, seen, l)
  <2>1. \A d \in seen : lf[d] \in L /\ lf[d] = bars[s][d].low
    OBVIOUS
  <2>2. \E d \in seen : l = lf[d]
    BY <1>10
  <2>3. l \in Price
    BY <1>7, <1>10
  <2>4. \A d \in seen : l <= lf[d]
    BY <1>10, <2>1
  <2>. HIDE DEF l, lf, seen
  <2>. QED BY <2>1, <2>2, <2>3, <2>4 DEF Trough
<1>15. h \in Price /\ l \in Price /\ t \in Price
  <2>. HIDE DEF H, L, base, h, l, t
  <2>. QED BY <1>1, <1>6, <1>7, <1>9, <1>10, <1>11
<1>16. /\ H = {bars[s][d].high : d \in seen}
       /\ L = {bars[s][d].low : d \in seen}
  OBVIOUS
<1>17. /\ m.ref = ref /\ m.on = last
       /\ m.status = Classify(m.high, m.low, m.close)
       /\ m.close = Percent(bars[s][last].close, base)
       /\ m.high = Percent(h, base) /\ m.low = Percent(l, base)
       /\ m.drawdown = Percent(l, t)
       /\ m.basis = [d \in {ref} \cup seen |-> bars[s][d]]
  <2>. HIDE DEF H, L
  <2>. QED BY <1>2, <1>16 DEF Measured
<1>. HIDE DEF m, h, l, t, last
<1>18. /\ m.ref = ref /\ m.on \in seen /\ \A d \in seen : d <= m.on
       /\ m.status = Classify(m.high, m.low, m.close)
       /\ m.close = Percent(bars[s][m.on].close, base)
       /\ m.basis = [d \in {ref} \cup seen |-> bars[s][d]]
  BY <1>3, <1>17
<1>19. \E x, y, z \in Price :
         /\ Peak(s, seen, x) /\ Trough(s, seen, y)
         /\ z = IF base >= x THEN base ELSE x
         /\ m.high = Percent(x, base) /\ m.low = Percent(y, base)
         /\ m.drawdown = Percent(y, z)
  <2>. HIDE DEF seen, base
  <2>. QED BY <1>12, <1>13, <1>14, <1>15, <1>17
<1>20. Judged(m, s, ref, n)
  BY <1>18, <1>19 DEF Judged
<1>. QED BY <1>20 DEF m

\* A longer window from the same reference judges no better a low, no worse a
\* high, and no better a drawdown.
LEMMA LongerWindowsAgree ==
  ASSUME BarsInv, NEW s \in Symbols, NEW ref \in DOMAIN bars[s], NEW n \in Nat, NEW k \in Nat,
         n <= k, NEW x, Judged(x, s, ref, n), NEW y, Judged(y, s, ref, k)
  PROVE  /\ y.on >= x.on /\ y.low <= x.low /\ y.high >= x.high /\ y.drawdown <= x.drawdown
         /\ x.status = "FAILED" => y.status = "FAILED"
<1>. DEFINE base == bars[s][ref].close
            U == Window(s, ref, n)
            V == Window(s, ref, k)
<1>1. ref \in Int /\ base \in Price
  BY BarsArePriced
<1>2. U \subseteq V
  <2>1. \A d \in DOMAIN bars[s] : d \in Int
    BY BarsArePriced
  <2>. QED BY <1>1, <2>1 DEF Window
<1>3. /\ x.on \in U /\ \A d \in V : d <= y.on
      /\ x.status = Classify(x.high, x.low, x.close)
      /\ y.status = Classify(y.high, y.low, y.close)
  BY DEF Judged
<1>4. PICK h \in Price, l \in Price, t \in Price :
        /\ Peak(s, U, h) /\ Trough(s, U, l) /\ t = (IF base >= h THEN base ELSE h)
        /\ x.high = Percent(h, base) /\ x.low = Percent(l, base) /\ x.drawdown = Percent(l, t)
  BY DEF Judged
<1>5. PICK g \in Price, j \in Price, q \in Price :
        /\ Peak(s, V, g) /\ Trough(s, V, j) /\ q = (IF base >= g THEN base ELSE g)
        /\ y.high = Percent(g, base) /\ y.low = Percent(j, base) /\ y.drawdown = Percent(j, q)
  BY DEF Judged
<1>6. h <= g /\ j <= l
  BY <1>2, <1>4, <1>5 DEF Peak, Trough
<1>7. x.on <= y.on /\ x.on \in Int /\ y.on \in Int
  <2>1. y.on \in V
    BY DEF Judged
  <2>2. \A d \in DOMAIN bars[s] : d \in Int
    BY BarsArePriced
  <2>. QED BY <1>2, <1>3, <2>1, <2>2 DEF Window
<1>. HIDE DEF base, U, V
<1>8. t <= q
  BY <1>1, <1>4, <1>5, <1>6 DEF Price
<1>9. base <= base
  BY <1>1 DEF Price
<1>10. y.low <= x.low
  BY <1>1, <1>4, <1>5, <1>6, <1>9, ReturnsCompared
<1>11. x.high <= y.high
  BY <1>1, <1>4, <1>5, <1>6, <1>9, ReturnsCompared
<1>12. y.drawdown <= x.drawdown
  BY <1>4, <1>5, <1>6, <1>8, ReturnsCompared
<1>13. x.low \in Int /\ y.low \in Int /\ x.high \in Int /\ y.high \in Int
  BY <1>1, <1>4, <1>5, ReturnIs
<1>14. ASSUME x.status = "FAILED" PROVE y.status = "FAILED"
  <2>1. x.low <= -500
    BY <1>3, <1>14 DEF Classify
  <2>2. y.low <= -500
    BY <1>10, <1>13, <2>1
  <2>. QED BY <1>3, <2>2 DEF Classify
<1>. QED BY <1>7, <1>10, <1>11, <1>12, <1>13, <1>14

\* The reference of a recommendation of that day, and what may be written for it:
\* a judgement over the window after it, or nothing yet.
Reference(s, asOf) == LatestOf(References(s, asOf))

VerdictOf(o, s, asOf, n) ==
  \/ Reference(s, asOf) \in References(s, asOf) /\ Judged(o, s, Reference(s, asOf), n)
  \/ /\ o.status = "PENDING" /\ o.ref = 0 /\ o.close = Missing
     /\ References(s, asOf) # {} => Window(s, Reference(s, asOf), n) = {}

\* Some bar of the window lies five percent or more below the reference.
Fell(s, ref, n) ==
  /\ ref \in DOMAIN bars[s]
  /\ \E d \in Window(s, ref, n) : Percent(bars[s][d].low, bars[s][ref].close) <= -500

LEMMA ReferencesAreBars ==
  ASSUME BarsInv, NEW s \in Symbols, NEW asOf \in Nat, References(s, asOf) # {}
  PROVE  /\ Reference(s, asOf) \in References(s, asOf)
         /\ References(s, asOf) \subseteq DOMAIN bars[s]
<1>1. References(s, asOf) \in SUBSET (1 .. day)
  BY DEF BarsInv, References
<1>2. IsFiniteSet(1 .. day)
  BY FS_Interval DEF BarsInv
<1>3. IsFiniteSet(References(s, asOf))
  BY <1>1, <1>2, FS_Subset
<1>4. \A x \in 1 .. day : x \in Int
  BY DEF BarsInv
<1>5. References(s, asOf) \subseteq Int
  BY <1>1, <1>4
<1>6. Reference(s, asOf) \in References(s, asOf)
  BY <1>3, <1>5, LatestIs DEF Reference
<1>. QED BY <1>6 DEF References

LEMMA OutcomesAreVerdicts ==
  ASSUME BarsInv, RunsInv, NEW i \in DOMAIN runs, NEW r \in DOMAIN runs[i].picks, NEW n \in Horizons
  PROVE  VerdictOf(Outcome(i, r, n), runs[i].picks[r].symbol, runs[i].date, n)
<1>1. PICK s \in Symbols : s = runs[i].picks[r].symbol
  BY DEF RunsInv, Symbols
<1>2. PICK asOf \in Nat : asOf = runs[i].date
  BY DEF RunsInv, BarsInv
<1>3. n \in Nat
  BY DailyDecisionsAssumption
<1>4. CASE References(s, asOf) = {}
  <2>1. Outcome(i, r, n) = NotYet
    BY <1>1, <1>2, <1>4 DEF Outcome
  <2>. QED BY <1>1, <1>2, <1>4, <2>1 DEF VerdictOf, NotYet
<1>5. CASE References(s, asOf) # {}
  <2>1. PICK ref \in DOMAIN bars[s] : ref = Reference(s, asOf) /\ ref \in References(s, asOf)
    BY <1>5, ReferencesAreBars
  <2>2. Outcome(i, r, n) = Measured(s, ref, n)
    BY <1>1, <1>2, <1>5, <2>1 DEF Outcome, Reference
  <2>3. CASE Window(s, ref, n) = {}
    <3>1. Measured(s, ref, n) = NotYet
      BY <2>3 DEF Measured
    <3>. QED BY <1>1, <1>2, <2>1, <2>2, <2>3, <3>1 DEF VerdictOf, NotYet
  <2>4. CASE Window(s, ref, n) # {}
    <3>1. Judged(Measured(s, ref, n), s, ref, n)
      BY <1>3, <2>4, MeasurementsAreJudged
    <3>. QED BY <1>1, <1>2, <2>1, <2>2, <3>1 DEF VerdictOf
  <2>. QED BY <2>3, <2>4
<1>. QED BY <1>4, <1>5

\* A judgement has a figure, and failed just when the low did.
LEMMA JudgedFigures ==
  ASSUME BarsInv, NEW s \in Symbols, NEW ref \in DOMAIN bars[s], NEW n \in Nat,
         NEW o, Judged(o, s, ref, n)
  PROVE  Has(o.close) /\ (o.status = "FAILED" <=> o.low <= -500)
<1>1. ref \in Int /\ bars[s][ref].close \in Price
  BY BarsArePriced
<1>2. o.on \in DOMAIN bars[s]
  BY <1>1, WindowsAreFinite DEF Judged
<1>3. bars[s][o.on].close \in Price
  BY <1>2, BarsArePriced
<1>4. o.close = Percent(bars[s][o.on].close, bars[s][ref].close)
  BY DEF Judged
<1>5. o.close + 10000 \in Nat /\ o.close \in Int
  BY <1>1, <1>3, <1>4, ReturnIs
<1>6. o.status = Classify(o.high, o.low, o.close)
  BY DEF Judged
<1>. QED BY <1>5, <1>6 DEF Has, Missing, Classify

LEMMA VerdictsAgree ==
  ASSUME BarsInv, NEW s \in Symbols, NEW asOf \in Nat, NEW n \in Nat, NEW k \in Nat, n < k,
         NEW x, VerdictOf(x, s, asOf, n), NEW y, VerdictOf(y, s, asOf, k), Has(x.close)
  PROVE  /\ Has(y.close) /\ y.ref = x.ref /\ y.on >= x.on
         /\ y.low <= x.low /\ y.high >= x.high /\ y.drawdown <= x.drawdown
         /\ x.status = "FAILED" => y.status = "FAILED"
<1>1. Reference(s, asOf) \in References(s, asOf) /\ Judged(x, s, Reference(s, asOf), n)
  BY DEF VerdictOf, Has
<1>2. PICK ref \in DOMAIN bars[s] : ref = Reference(s, asOf)
  BY <1>1 DEF References
<1>3. Window(s, ref, k) # {}
  <2>1. x.on \in Window(s, ref, n)
    BY <1>1, <1>2 DEF Judged
  <2>2. ref \in Int /\ \A d \in DOMAIN bars[s] : d \in Int
    BY BarsArePriced
  <2>. QED BY <2>1, <2>2 DEF Window
<1>4. Judged(y, s, ref, k)
  BY <1>1, <1>2, <1>3 DEF VerdictOf
<1>5. Has(y.close)
  BY <1>4, JudgedFigures
<1>6. x.ref = ref /\ y.ref = ref
  BY <1>1, <1>2, <1>4 DEF Judged
<1>7. n <= k
  OBVIOUS
<1>8. /\ y.on >= x.on /\ y.low <= x.low /\ y.high >= x.high /\ y.drawdown <= x.drawdown
      /\ x.status = "FAILED" => y.status = "FAILED"
  BY <1>1, <1>2, <1>4, <1>7, LongerWindowsAgree
<1>. QED BY <1>5, <1>6, <1>8

LEMMA VerdictsStayInTheirWindow ==
  ASSUME BarsInv, NEW s \in Symbols, NEW asOf \in Nat, NEW n \in Nat,
         NEW x, VerdictOf(x, s, asOf, n), Has(x.close)
  PROVE  /\ x.ref <= asOf /\ x.ref >= asOf - Reach
         /\ x.on > x.ref /\ x.on <= x.ref + n
<1>1. Reference(s, asOf) \in References(s, asOf) /\ Judged(x, s, Reference(s, asOf), n)
  BY DEF VerdictOf, Has
<1>. QED BY <1>1 DEF Judged, References, Window

\* The same fall among the bars an outcome was measured from.
RestsOnAFall(o, n) ==
  /\ o.ref \in DOMAIN o.basis
  /\ \E d \in DOMAIN o.basis : /\ d > o.ref /\ d <= o.ref + n
                              /\ Percent(o.basis[d].low, o.basis[o.ref].close) <= -500

LEMMA FailedMeansFell ==
  ASSUME BarsInv, NEW s \in Symbols, NEW asOf \in Nat, NEW n \in Nat,
         NEW x, VerdictOf(x, s, asOf, n), x.status = "FAILED"
  PROVE  RestsOnAFall(x, n)
<1>1. Reference(s, asOf) \in References(s, asOf) /\ Judged(x, s, Reference(s, asOf), n)
  BY DEF VerdictOf
<1>2. PICK ref \in DOMAIN bars[s] : ref = Reference(s, asOf)
  BY <1>1 DEF References
<1>3. x.low <= -500 /\ x.ref = ref
  BY <1>1, <1>2, JudgedFigures DEF Judged
<1>4. PICK l : Trough(s, Window(s, ref, n), l) /\ x.low = Percent(l, bars[s][ref].close)
  BY <1>1, <1>2 DEF Judged
<1>5. PICK d \in Window(s, ref, n) : l = bars[s][d].low
  BY <1>4 DEF Trough
<1>6. x.basis = [e \in {ref} \cup Window(s, ref, n) |-> bars[s][e]]
  BY <1>1, <1>2 DEF Judged
<1>7. /\ ref \in DOMAIN x.basis /\ x.basis[ref] = bars[s][ref]
      /\ d \in DOMAIN x.basis /\ x.basis[d] = bars[s][d]
  BY <1>6
<1>8. d > ref /\ d <= ref + n
  BY DEF Window
<1>9. Percent(x.basis[d].low, x.basis[ref].close) <= -500
  BY <1>3, <1>4, <1>5, <1>7
<1>. QED BY <1>3, <1>7, <1>8, <1>9 DEF RestsOnAFall

\* While those bars are what they were, the fall shows in the table.
LEMMA FallsStillShow ==
  ASSUME NEW k \in DOMAIN outcomes, NEW s, s = runs[k[1]].picks[k[2]].symbol, NEW n,
         StillRests(k), RestsOnAFall(outcomes[k], n)
  PROVE  Fell(s, outcomes[k].ref, n)
<1>. DEFINE o == outcomes[k]
<1>1. \A d \in DOMAIN o.basis : d \in DOMAIN bars[s] /\ bars[s][d] = o.basis[d]
  BY DEF StillRests
<1>. HIDE DEF o
<1>2. PICK d \in DOMAIN o.basis : /\ d > o.ref /\ d <= o.ref + n
                                 /\ Percent(o.basis[d].low, o.basis[o.ref].close) <= -500
  BY DEF RestsOnAFall, o
<1>3. o.ref \in DOMAIN bars[s] /\ bars[s][o.ref] = o.basis[o.ref]
  BY <1>1 DEF RestsOnAFall, o
<1>4. d \in Window(s, o.ref, n) /\ bars[s][d] = o.basis[d]
  BY <1>1, <1>2 DEF Window
<1>5. Percent(bars[s][d].low, bars[s][o.ref].close) <= -500
  BY <1>2, <1>3, <1>4
<1>. QED BY <1>3, <1>4, <1>5 DEF Fell, o

LEMMA FellMeansFailed ==
  ASSUME BarsInv, NEW s \in Symbols, NEW asOf \in Nat, NEW n \in Nat,
         NEW x, VerdictOf(x, s, asOf, n), Fell(s, x.ref, n)
  PROVE  x.status = "FAILED"
<1>1. x.ref \in DOMAIN bars[s]
  BY DEF Fell
<1>2. x.ref # 0
  BY <1>1, BarsArePriced
<1>3. Reference(s, asOf) \in References(s, asOf) /\ Judged(x, s, Reference(s, asOf), n)
  BY <1>2 DEF VerdictOf
<1>4. PICK ref \in DOMAIN bars[s] : ref = Reference(s, asOf)
  BY <1>3 DEF References
<1>5. x.ref = ref
  BY <1>3, <1>4 DEF Judged
<1>6. PICK l \in Price : Trough(s, Window(s, ref, n), l) /\ x.low = Percent(l, bars[s][ref].close)
  BY <1>3, <1>4 DEF Judged
<1>7. PICK d \in Window(s, ref, n) : Percent(bars[s][d].low, bars[s][ref].close) <= -500
  BY <1>5 DEF Fell
<1>8. ref \in Int /\ bars[s][ref].close \in Price
  BY BarsArePriced
<1>9. d \in DOMAIN bars[s]
  BY <1>8, WindowsAreFinite
<1>10. bars[s][d].low \in Price
  BY <1>9, BarsArePriced
<1>11. l <= bars[s][d].low
  BY <1>6 DEF Trough
<1>12. bars[s][ref].close <= bars[s][ref].close
  BY <1>8 DEF Price
<1>13. Percent(l, bars[s][ref].close) <= Percent(bars[s][d].low, bars[s][ref].close)
  BY <1>6, <1>8, <1>10, <1>11, <1>12, ReturnsCompared
<1>14. Percent(l, bars[s][ref].close) \in Int /\ Percent(bars[s][d].low, bars[s][ref].close) \in Int
  BY <1>6, <1>8, <1>10, ReturnIs
<1>15. x.low <= -500
  BY <1>6, <1>7, <1>13, <1>14
<1>. QED BY <1>3, <1>4, <1>15, JudgedFigures

----
(* Outcomes, step by step. *)

\* Every outcome belongs to a recommendation of a run.
OutcomesInv ==
  \A k \in DOMAIN outcomes :
    /\ k \in (DOMAIN runs) \X (1 .. TopN) \X Horizons
    /\ k[2] \in DOMAIN runs[k[1]].picks

\* A failure keeps the fall it was judged by.
FailuresStand ==
  \A k \in DOMAIN outcomes : outcomes[k].status = "FAILED" => RestsOnAFall(outcomes[k], k[3])

OutcomesStand == BarsInv /\ FactsInv /\ RunsInv /\ OutcomesInv /\ HorizonsAgree /\ FailuresStand

LEMMA OutcomesStandInit == DDInit => OutcomesStand
<1>. SUFFICES ASSUME DDInit PROVE OutcomesStand
  OBVIOUS
<1>1. /\ day = 1 /\ bars = [s \in Symbols |-> <<>>] /\ facts = [s \in Symbols |-> Blank]
      /\ runs = <<>> /\ outcomes = <<>>
  BY DEF DDInit
<1>2. DOMAIN outcomes = {} /\ DOMAIN runs = {} /\ \A s \in Symbols : DOMAIN bars[s] = {}
  BY <1>1
<1>3. BarsInv
  BY <1>1, <1>2 DEF BarsInv
<1>4. FactsInv
  BY <1>1 DEF FactsInv
<1>5. RunsInv
  <2>1. runs \in Seq({})
    BY <1>1
  <2>. QED BY <1>2, <2>1 DEF RunsInv
<1>6. OutcomesInv /\ HorizonsAgree /\ FailuresStand
  BY <1>2 DEF OutcomesInv, HorizonsAgree, FailuresStand
<1>. QED BY <1>3, <1>4, <1>5, <1>6 DEF OutcomesStand

\* Runs are only ever added.
RunsGrow == \A i \in DOMAIN runs : i \in DOMAIN runs' /\ runs'[i] = runs[i]

LEMMA TablesStep ==
  ASSUME BarsInv, FactsInv, RunsInv, [DDNext]_ddVars
  PROVE  BarsInv' /\ FactsInv' /\ RunsInv' /\ RunsGrow
<1>1. CASE UNCHANGED <<day, bars, facts, runs>>
  <2>1. BarsInv'
    BY <1>1 DEF BarsInv
  <2>2. FactsInv'
    BY <1>1 DEF FactsInv
  <2>3. RunsInv'
    BY <1>1 DEF RunsInv
  <2>4. RunsGrow
    BY <1>1 DEF RunsGrow
  <2>. QED BY <2>1, <2>2, <2>3, <2>4
<1>2. CASE NewDay
  <2>1. day' = day + 1 /\ bars' = bars /\ facts' = facts /\ runs' = runs /\ day \in Nat \ {0}
    BY <1>2 DEF NewDay, BarsInv
  <2>2. 1 .. day \subseteq 1 .. day'
    BY <2>1
  <2>3. BarsInv'
    BY <2>1, <2>2 DEF BarsInv
  <2>4. FactsInv'
    BY <2>1 DEF FactsInv
  <2>5. RunsInv'
    BY <2>1, <2>2 DEF RunsInv
  <2>6. RunsGrow
    BY <2>1 DEF RunsGrow
  <2>. QED BY <2>3, <2>4, <2>5, <2>6
<1>3. ASSUME NEW s \in Symbols, NEW d \in 1 .. MaxDay, NEW bar \in BarShapes, BarArrives(s, d, bar)
      PROVE  BarsInv' /\ FactsInv' /\ RunsInv' /\ RunsGrow
  <2>1. /\ day' = day /\ facts' = facts /\ runs' = runs
        /\ d \in 1 .. day
        /\ bars' = [bars EXCEPT ![s] = Over(bars[s], [e \in {d} |-> bar])]
    BY <1>3 DEF BarArrives
  <2>2. PICK more : more = Over(bars[s], [e \in {d} |-> bar])
    OBVIOUS
  <2>3. /\ DOMAIN more = {d} \cup DOMAIN bars[s] /\ more[d] = bar
        /\ \A e \in DOMAIN bars[s] : e # d => more[e] = bars[s][e]
    BY <2>1, <2>2 DEF Over
  <2>4. DOMAIN bars = Symbols
    BY DEF BarsInv
  <2>5. bars'[s] = more /\ \A u \in Symbols : u # s => bars'[u] = bars[u]
    BY <2>1, <2>2, <2>4
  <2>6. bars' = [u \in Symbols |-> bars'[u]]
    BY <2>1, <2>4
  <2>7. ASSUME NEW u \in Symbols
        PROVE  /\ DOMAIN bars'[u] \subseteq 1 .. day
               /\ \A e \in DOMAIN bars'[u] : bars'[u][e] \in BarShapes
    <3>1. CASE u = s
      BY <2>1, <2>3, <2>5, <3>1 DEF BarsInv
    <3>2. CASE u # s
      BY <2>5, <3>2 DEF BarsInv
    <3>. QED BY <3>1, <3>2
  <2>8. BarsInv'
    BY <2>1, <2>6, <2>7 DEF BarsInv
  <2>9. FactsInv'
    BY <2>1 DEF FactsInv
  <2>10. RunsInv'
    BY <2>1 DEF RunsInv
  <2>11. RunsGrow
    BY <2>1 DEF RunsGrow
  <2>. QED BY <2>8, <2>9, <2>10, <2>11
<1>4. ASSUME NEW s \in Symbols, NEW x \in Situations, IndicatorArrives(s, x)
      PROVE  BarsInv' /\ FactsInv' /\ RunsInv' /\ RunsGrow
  <2>1. day' = day /\ bars' = bars /\ runs' = runs /\ facts' = [facts EXCEPT ![s] = x]
    BY <1>4 DEF IndicatorArrives
  <2>2. BarsInv'
    BY <2>1 DEF BarsInv
  <2>3. FactsInv'
    BY <2>1 DEF FactsInv
  <2>4. RunsInv'
    BY <2>1 DEF RunsInv
  <2>5. RunsGrow
    BY <2>1 DEF RunsGrow
  <2>. QED BY <2>2, <2>3, <2>4, <2>5
<1>5. CASE Recommend
  <2>1. PICK row : /\ runs' = Append(runs, row) /\ row.date = day /\ row.picks = Picks
    BY <1>5 DEF Recommend
  <2>2. day' = day /\ bars' = bars /\ facts' = facts
    BY <1>5 DEF Recommend
  <2>3. PICK S : runs \in Seq(S)
    BY DEF RunsInv
  <2>4. runs \in Seq(S \cup {row})
    BY <2>3
  <2>5. runs' \in Seq(S \cup {row})
    BY <2>1, <2>4
  <2>6. /\ DOMAIN runs' = DOMAIN runs \cup {Len(runs) + 1} /\ runs'[Len(runs) + 1] = row
        /\ \A i \in DOMAIN runs : runs'[i] = runs[i]
    BY <2>1, <2>4
  <2>7. /\ row.date \in 1 .. day
        /\ Len(row.picks) \in 0 .. TopN /\ DOMAIN row.picks = 1 .. Len(row.picks)
        /\ \A r \in DOMAIN row.picks : row.picks[r].symbol \in Range(Universe)
    <3>1. /\ Len(Picks) \in 0 .. TopN /\ DOMAIN Picks = 1 .. Len(Picks)
          /\ \A r \in DOMAIN Picks : Picks[r] \in Candidates
      BY PicksAreTheFirst
    <3>2. \A c \in Candidates : c.symbol \in Range(Universe)
      BY CandidatesAreRanked DEF Ranked
    <3>3. day \in 1 .. day
      BY DEF BarsInv
    <3>. QED BY <2>1, <3>1, <3>2, <3>3
  <2>8. RunsInv'
    BY <2>2, <2>5, <2>6, <2>7 DEF RunsInv
  <2>9. BarsInv'
    BY <2>2 DEF BarsInv
  <2>10. FactsInv'
    BY <2>2 DEF FactsInv
  <2>11. RunsGrow
    BY <2>2, <2>6 DEF RunsGrow
  <2>. QED BY <2>8, <2>9, <2>10, <2>11
<1>6. ASSUME NEW i \in DOMAIN Types, CheckHoldings(Types[i]) PROVE UNCHANGED <<day, bars, facts, runs>>
  BY <1>6 DEF CheckHoldings
<1>7. CASE ReviewOutcomes
  BY <1>1, <1>7 DEF ReviewOutcomes
<1>8. CASE UNCHANGED ddVars
  BY <1>1, <1>8 DEF ddVars
<1>. QED BY <1>1, <1>2, <1>3, <1>4, <1>5, <1>6, <1>7, <1>8 DEF DDNext

\* The recommendations a review looks at; it writes what the bars say of each
\* and leaves the others.
Due ==
  {k \in (DOMAIN runs) \X (1 .. TopN) \X Horizons :
     k[2] \in DOMAIN runs[k[1]].picks /\ runs[k[1]].date >= day - Memory}

LEMMA ReviewWrites ==
  ASSUME BarsInv, RunsInv, ReviewOutcomes
  PROVE  /\ DOMAIN outcomes' = Due \cup DOMAIN outcomes
         /\ \A k \in DOMAIN outcomes : k \notin Due => outcomes'[k] = outcomes[k]
         /\ \A k \in Due : VerdictOf(outcomes'[k], runs[k[1]].picks[k[2]].symbol, runs[k[1]].date, k[3])
<1>1. outcomes' = Over(outcomes, [k \in Due |-> Outcome(k[1], k[2], k[3])])
  BY DEF ReviewOutcomes, Due
<1>2. \A k \in Due : outcomes'[k] = Outcome(k[1], k[2], k[3])
  BY <1>1 DEF Over
<1>3. ASSUME NEW k \in Due
      PROVE  VerdictOf(outcomes'[k], runs[k[1]].picks[k[2]].symbol, runs[k[1]].date, k[3])
  <2>1. k[1] \in DOMAIN runs /\ k[2] \in DOMAIN runs[k[1]].picks /\ k[3] \in Horizons
    BY DEF Due
  <2>2. VerdictOf(Outcome(k[1], k[2], k[3]), runs[k[1]].picks[k[2]].symbol, runs[k[1]].date, k[3])
    BY <2>1, OutcomesAreVerdicts
  <2>. QED BY <1>2, <2>2
<1>. QED BY <1>1, <1>3 DEF Over

\* What a recommendation is about.
LEMMA AboutARecommendation ==
  ASSUME BarsInv, RunsInv, NEW k, k \in (DOMAIN runs) \X (1 .. TopN) \X Horizons,
         k[2] \in DOMAIN runs[k[1]].picks
  PROVE  /\ runs[k[1]].picks[k[2]].symbol \in Symbols
         /\ runs[k[1]].date \in Nat /\ k[3] \in Nat
<1>1. k[1] \in DOMAIN runs /\ k[3] \in Horizons
  OBVIOUS
<1>2. runs[k[1]].date \in 1 .. day /\ runs[k[1]].picks[k[2]].symbol \in Range(Universe)
  BY <1>1 DEF RunsInv
<1>. QED BY <1>1, <1>2, DailyDecisionsAssumption DEF Symbols, BarsInv

LEMMA OutcomesKept ==
  ASSUME OutcomesStand, RunsGrow, UNCHANGED outcomes
  PROVE  OutcomesInv' /\ HorizonsAgree' /\ FailuresStand'
<1>1. \A k \in DOMAIN outcomes : runs'[k[1]] = runs[k[1]] /\ k[1] \in DOMAIN runs'
  BY DEF OutcomesStand, OutcomesInv, RunsGrow
<1>2. OutcomesInv'
  BY <1>1 DEF OutcomesStand, OutcomesInv
<1>3. HorizonsAgree'
  BY <1>1 DEF OutcomesStand, HorizonsAgree, StaysInItsWindow, Has
<1>4. FailuresStand'
  BY DEF OutcomesStand, FailuresStand, RestsOnAFall, Percent
<1>. QED BY <1>2, <1>3, <1>4

LEMMA OutcomesReviewed ==
  ASSUME OutcomesStand, ReviewOutcomes
  PROVE  OutcomesInv' /\ HorizonsAgree' /\ FailuresStand'
<1>1. day' = day /\ bars' = bars /\ runs' = runs
  BY DEF ReviewOutcomes
<1>2. BarsInv /\ RunsInv
  BY DEF OutcomesStand
<1>3. /\ DOMAIN outcomes' = Due \cup DOMAIN outcomes
      /\ \A k \in DOMAIN outcomes : k \notin Due => outcomes'[k] = outcomes[k]
      /\ \A k \in Due : VerdictOf(outcomes'[k], runs[k[1]].picks[k[2]].symbol, runs[k[1]].date, k[3])
  BY <1>2, ReviewWrites
<1>4. \A k \in DOMAIN outcomes' : /\ k \in (DOMAIN runs) \X (1 .. TopN) \X Horizons
                                  /\ k[2] \in DOMAIN runs[k[1]].picks
  BY <1>3 DEF Due, OutcomesStand, OutcomesInv
<1>5. OutcomesInv'
  BY <1>1, <1>4 DEF OutcomesInv
<1>6. ASSUME NEW k \in DOMAIN outcomes', k \in Due
      PROVE  /\ Has(outcomes'[k].close) =>
                  /\ outcomes'[k].ref <= runs[k[1]].date
                  /\ outcomes'[k].ref >= runs[k[1]].date - Reach
                  /\ outcomes'[k].on > outcomes'[k].ref
                  /\ outcomes'[k].on <= outcomes'[k].ref + k[3]
             /\ outcomes'[k].status = "FAILED" => RestsOnAFall(outcomes'[k], k[3])
  <2>1. PICK s \in Symbols : s = runs[k[1]].picks[k[2]].symbol
    BY <1>2, <1>4, AboutARecommendation
  <2>2. PICK asOf \in Nat : asOf = runs[k[1]].date
    BY <1>2, <1>4, AboutARecommendation
  <2>3. PICK n \in Nat : n = k[3]
    BY <1>2, <1>4, AboutARecommendation
  <2>4. PICK x : x = outcomes'[k]
    OBVIOUS
  <2>5. VerdictOf(x, s, asOf, n)
    BY <1>3, <1>6, <2>1, <2>2, <2>3, <2>4
  <2>6. Has(x.close) => /\ x.ref <= asOf /\ x.ref >= asOf - Reach
                        /\ x.on > x.ref /\ x.on <= x.ref + n
    BY <1>2, <2>5, VerdictsStayInTheirWindow
  <2>7. x.status = "FAILED" => RestsOnAFall(x, n)
    BY <1>2, <2>5, FailedMeansFell
  <2>. QED BY <2>1, <2>2, <2>3, <2>4, <2>6, <2>7
<1>7. FailuresStand'
  <2>1. ASSUME NEW k \in DOMAIN outcomes', outcomes'[k].status = "FAILED"
        PROVE  RestsOnAFall(outcomes'[k], k[3])
    <3>1. CASE k \in Due
      BY <1>6, <2>1, <3>1
    <3>2. CASE k \notin Due
      BY <1>3, <2>1, <3>2 DEF OutcomesStand, FailuresStand
    <3>. QED BY <3>1, <3>2
  <2>. QED BY <2>1 DEF FailuresStand, RestsOnAFall, Percent
<1>8. ASSUME NEW k \in DOMAIN outcomes', Has(outcomes'[k].close)
      PROVE  StaysInItsWindow(k)'
  <2>1. CASE k \in Due
    BY <1>1, <1>6, <1>8, <2>1 DEF StaysInItsWindow
  <2>2. CASE k \notin Due
    BY <1>1, <1>3, <1>8, <2>2 DEF OutcomesStand, HorizonsAgree, StaysInItsWindow
  <2>. QED BY <2>1, <2>2
<1>9. ASSUME NEW k \in DOMAIN outcomes', NEW l \in DOMAIN outcomes',
             k[1] = l[1], k[2] = l[2], k[3] < l[3], Has(outcomes'[k].close)
      PROVE  /\ Has(outcomes'[l].close) /\ outcomes'[l].ref = outcomes'[k].ref
             /\ outcomes'[l].on >= outcomes'[k].on
             /\ outcomes'[l].low <= outcomes'[k].low /\ outcomes'[l].high >= outcomes'[k].high
             /\ outcomes'[l].drawdown <= outcomes'[k].drawdown
             /\ outcomes'[k].status = "FAILED" => outcomes'[l].status = "FAILED"
  <2>1. k \in Due <=> l \in Due
    BY <1>4, <1>9 DEF Due
  <2>2. CASE k \in Due
    <3>1. PICK s \in Symbols : s = runs[k[1]].picks[k[2]].symbol
      BY <1>2, <1>4, AboutARecommendation
    <3>2. PICK asOf \in Nat : asOf = runs[k[1]].date
      BY <1>2, <1>4, AboutARecommendation
    <3>3. PICK n \in Nat : n = k[3]
      BY <1>2, <1>4, AboutARecommendation
    <3>4. PICK m \in Nat : m = l[3]
      BY <1>2, <1>4, AboutARecommendation
    <3>5. PICK x : x = outcomes'[k]
      OBVIOUS
    <3>6. PICK y : y = outcomes'[l]
      OBVIOUS
    <3>7. VerdictOf(x, s, asOf, n)
      BY <1>3, <2>2, <3>1, <3>2, <3>3, <3>5
    <3>8. VerdictOf(y, s, asOf, m)
      BY <1>3, <1>9, <2>1, <2>2, <3>1, <3>2, <3>4, <3>6
    <3>9. n < m /\ Has(x.close)
      BY <1>9, <3>3, <3>4, <3>5
    <3>10. /\ Has(y.close) /\ y.ref = x.ref /\ y.on >= x.on
           /\ y.low <= x.low /\ y.high >= x.high /\ y.drawdown <= x.drawdown
           /\ x.status = "FAILED" => y.status = "FAILED"
      BY <1>2, <3>7, <3>8, <3>9, VerdictsAgree
    <3>. QED BY <3>5, <3>6, <3>10
  <2>3. CASE k \notin Due
    <3>1. k \in DOMAIN outcomes /\ l \in DOMAIN outcomes
          /\ outcomes'[k] = outcomes[k] /\ outcomes'[l] = outcomes[l]
      BY <1>3, <2>1, <2>3
    <3>. QED BY <1>9, <3>1 DEF OutcomesStand, HorizonsAgree
  <2>. QED BY <2>2, <2>3
<1>10. HorizonsAgree'
  <2>1. Has(Missing) = Has(Missing)'
    BY DEF Has
  <2>. QED BY <1>8, <1>9 DEF HorizonsAgree, Has
<1>. QED BY <1>5, <1>7, <1>10

LEMMA OutcomesStandNext == OutcomesStand /\ [DDNext]_ddVars => OutcomesStand'
<1>. SUFFICES ASSUME OutcomesStand, [DDNext]_ddVars PROVE OutcomesStand'
  OBVIOUS
<1>1. BarsInv' /\ FactsInv' /\ RunsInv' /\ RunsGrow
  BY TablesStep DEF OutcomesStand
<1>2. ReviewOutcomes \/ UNCHANGED outcomes
  BY DEF DDNext, ddVars, NewDay, BarArrives, IndicatorArrives, CheckHoldings, Recommend
<1>3. OutcomesInv' /\ HorizonsAgree' /\ FailuresStand'
  BY <1>1, <1>2, OutcomesKept, OutcomesReviewed
<1>. QED BY <1>1, <1>3 DEF OutcomesStand

LEMMA OutcomesAlwaysStand == DDSpec => []OutcomesStand
BY OutcomesStandInit, OutcomesStandNext, PTL DEF DDSpec

\* Whatever bars come late, to whichever review, the horizons of a
\* recommendation agree: RecommendationResultService writes all of them from
\* one reference and from windows that contain one another.
THEOREM HorizonsAlwaysAgree == DDSpec => []HorizonsAgree
<1>1. OutcomesStand => HorizonsAgree
  BY DEF OutcomesStand
<1>. QED BY <1>1, OutcomesAlwaysStand, PTL

\* A review that finds a failed recommendation again, with the same reference and
\* the bars it was judged by, finds the fall again.
LEMMA FailuresStayFailed ==
  ASSUME OutcomesStand, [DDNext]_ddVars, NEW k \in DOMAIN outcomes, outcomes[k].status = "FAILED",
         StillRests(k)
  PROVE  outcomes'[k].status = "FAILED" \/ outcomes'[k].ref # outcomes[k].ref
<1>1. BarsInv /\ RunsInv
  BY DEF OutcomesStand
<1>2. CASE UNCHANGED outcomes
  BY <1>2
<1>3. CASE ReviewOutcomes /\ k \notin Due
  BY <1>1, <1>3, ReviewWrites
<1>4. CASE ReviewOutcomes /\ k \in Due
  <2>1. k \in (DOMAIN runs) \X (1 .. TopN) \X Horizons /\ k[2] \in DOMAIN runs[k[1]].picks
    BY DEF OutcomesStand, OutcomesInv
  <2>2. PICK s \in Symbols : s = runs[k[1]].picks[k[2]].symbol
    BY <1>1, <2>1, AboutARecommendation
  <2>3. PICK asOf \in Nat : asOf = runs[k[1]].date
    BY <1>1, <2>1, AboutARecommendation
  <2>4. PICK n \in Nat : n = k[3]
    BY <1>1, <2>1, AboutARecommendation
  <2>5. PICK x : x = outcomes'[k]
    OBVIOUS
  <2>6. VerdictOf(x, s, asOf, n)
    BY <1>1, <1>4, <2>2, <2>3, <2>4, <2>5, ReviewWrites
  <2>7. Fell(s, outcomes[k].ref, n)
    <3>1. RestsOnAFall(outcomes[k], n)
      BY <2>4 DEF OutcomesStand, FailuresStand
    <3>. QED BY <2>2, <3>1, FallsStillShow
  <2>8. x.ref = outcomes[k].ref => x.status = "FAILED"
    BY <1>1, <2>6, <2>7, FellMeansFailed
  <2>. QED BY <2>5, <2>8
<1>5. ReviewOutcomes \/ UNCHANGED outcomes
  BY DEF DDNext, ddVars, NewDay, BarArrives, IndicatorArrives, CheckHoldings, Recommend
<1>. QED BY <1>2, <1>3, <1>4, <1>5

\* A failure is turned over only by a review that measures from another reference
\* or finds a bar it was judged by written over: bars that are added, late or not,
\* do not raise the low of a window (update_results, DailyPriceRepository.upsert).
THEOREM FailuresStayFinal == DDSpec => FailuresAreFinal
<1>1. OutcomesStand /\ [DDNext]_ddVars =>
        [\A k \in DOMAIN outcomes :
           outcomes[k].status = "FAILED" /\ StillRests(k) =>
             outcomes'[k].status = "FAILED" \/ outcomes'[k].ref # outcomes[k].ref]_outcomes
  BY FailuresStayFailed
<1>. QED BY <1>1, OutcomesAlwaysStand, PTL DEF DDSpec, FailuresAreFinal

----
(* Holding checks, and the theorem on decisions. *)

\* The row of a check, from what it was given.
Row(s, ind, price, before) ==
  LET scores == WithTechnical(DummyScores(ind), ind)
      plain == Compose(HoldingWeights, scores, 0)
      risk == HoldingRisk(ind, plain, before, price, ReturnRate(price, Holdings[s]), ind.filings)
      total == Compose(HoldingWeights, scores, risk.penalty)
  IN  [ind |-> ind, price |-> price, before |-> before, plain |-> plain,
       flags |-> risk.flags, total |-> total, decision |-> DecisionOf[Grade(total)]]

LEMMA CheckRowIsRow ==
  \A k : CheckRow(k) = Row(k[3], facts[k[3]], bars[k[3]][LatestOf(DOMAIN bars[k[3]])].close,
                           PreviousTotal(k))
BY DEF CheckRow, Row

LEMMA RowKeepsItsInputs ==
  \A s, ind, price, before :
    /\ Row(s, ind, price, before).ind = ind /\ Row(s, ind, price, before).price = price
    /\ Row(s, ind, price, before).before = before
BY DEF Row

CheckTimes == {"PRE_MARKET", "POST_MARKET"}

\* There are finitely many checks, and each is the row of its inputs.
ChecksInv ==
  /\ day \in Nat \ {0}
  /\ IsFiniteSet(DOMAIN checks)
  /\ \A k \in DOMAIN checks :
       /\ k \in (1 .. day) \X CheckTimes \X DOMAIN Holdings
       /\ checks[k] = Row(k[3], checks[k].ind, checks[k].price, checks[k].before)

\* The holdings a check finds ready, and the rows it writes.
Ready == {s \in DOMAIN Holdings : DOMAIN bars[s] # {} /\ facts[s] # Blank}
Keys(type) == {<<day, type, s>> : s \in Ready}

LEMMA ChecksWritten ==
  ASSUME ChecksInv, NEW i \in DOMAIN Types, CheckHoldings(Types[i])
  PROVE  /\ Types[i] \in CheckTimes
         /\ DOMAIN checks' = Keys(Types[i]) \cup DOMAIN checks
         /\ \A k \in Keys(Types[i]) : checks'[k] = CheckRow(k)
         /\ \A k \in DOMAIN checks : k \notin Keys(Types[i]) => checks'[k] = checks[k]
<1>1. checks' = Over(checks, [k \in Keys(Types[i]) |-> CheckRow(k)])
  BY DEF CheckHoldings, Keys, Ready
<1>2. Types[i] \in CheckTimes
  BY DEF Types, CheckTimes
<1>. QED BY <1>1, <1>2 DEF Over

LEMMA ChecksInvStep == ChecksInv /\ [DDNext]_ddVars => ChecksInv'
<1>. SUFFICES ASSUME ChecksInv, [DDNext]_ddVars PROVE ChecksInv'
  OBVIOUS
<1>1. CASE UNCHANGED <<day, checks>>
  BY <1>1 DEF ChecksInv
<1>2. CASE NewDay
  <2>1. day' = day + 1 /\ checks' = checks /\ day \in Nat \ {0}
    BY <1>2 DEF NewDay, ChecksInv
  <2>2. 1 .. day \subseteq 1 .. day'
    BY <2>1
  <2>. QED BY <2>1, <2>2 DEF ChecksInv
<1>3. ASSUME NEW i \in DOMAIN Types, CheckHoldings(Types[i]) PROVE ChecksInv'
  <2>1. day' = day
    BY <1>3 DEF CheckHoldings
  <2>. DEFINE type == Types[i]
  <2>2. /\ type \in CheckTimes
        /\ DOMAIN checks' = Keys(type) \cup DOMAIN checks
        /\ \A k \in Keys(type) : checks'[k] = CheckRow(k)
        /\ \A k \in DOMAIN checks : k \notin Keys(type) => checks'[k] = checks[k]
    BY <1>3, ChecksWritten
  <2>. HIDE DEF type
  <2>3. IsFiniteSet(Keys(type))
    <3>. DEFINE h == [s \in Ready |-> <<day, type, s>>]
    <3>1. Ready \in SUBSET DOMAIN Holdings
      BY DEF Ready
    <3>2. IsFiniteSet(Ready)
      BY <3>1, DailyDecisionsAssumption, FS_Subset
    <3>3. Keys(type) = {h[s] : s \in Ready}
      BY DEF Keys
    <3>. HIDE DEF h
    <3>4. IsFiniteSet({h[s] : s \in Ready})
      BY <3>2, ImageFinite
    <3>. QED BY <3>3, <3>4
  <2>4. IsFiniteSet(DOMAIN checks')
    BY <2>2, <2>3, FS_Union DEF ChecksInv
  <2>5. ASSUME NEW k \in DOMAIN checks'
        PROVE  /\ k \in (1 .. day) \X CheckTimes \X DOMAIN Holdings
               /\ checks'[k] = Row(k[3], checks'[k].ind, checks'[k].price, checks'[k].before)
    <3>1. CASE k \in Keys(type)
      <4>1. k \in (1 .. day) \X CheckTimes \X DOMAIN Holdings
        BY <2>2, <3>1 DEF Keys, Ready, ChecksInv
      <4>. QED BY <2>2, <3>1, <4>1, CheckRowIsRow, RowKeepsItsInputs
    <3>2. CASE k \notin Keys(type)
      <4>1. k \in DOMAIN checks /\ checks'[k] = checks[k]
        BY <2>2, <3>2
      <4>. QED BY <4>1 DEF ChecksInv
    <3>. QED BY <3>1, <3>2
  <2>6. day' \in Nat \ {0}
    BY <2>1 DEF ChecksInv
  <2>. QED BY <2>1, <2>4, <2>5, <2>6 DEF ChecksInv
<1>4. Recommend \/ ReviewOutcomes \/ UNCHANGED ddVars \/ (\E s \in Symbols, d \in 1 .. MaxDay, bar \in BarShapes : BarArrives(s, d, bar))
      \/ (\E s \in Symbols, x \in Situations : IndicatorArrives(s, x)) => UNCHANGED <<day, checks>>
  BY DEF Recommend, ReviewOutcomes, BarArrives, IndicatorArrives, ddVars
<1>. QED BY <1>1, <1>2, <1>3, <1>4 DEF DDNext

\* The row a check is compared with is the last one before it, and no row of
\* its own date and type.
LEMMA PreviousIsTheLast ==
  ASSUME ChecksInv, NEW k \in (1 .. day) \X CheckTimes \X DOMAIN Holdings, NEW earlier,
         earlier = {o \in DOMAIN checks :
                      o[3] = k[3] /\ (o[1] < k[1] \/ (o[1] = k[1] /\ o[2] # k[2] /\ o[2] = "PRE_MARKET"))}
  PROVE  /\ earlier = {} => PreviousTotal(k) = Missing
         /\ earlier # {} => \E o \in earlier : /\ \A q \in earlier : Rank(q) <= Rank(o)
                                               /\ PreviousTotal(k) = checks[o].total
<1>1. ASSUME NEW o \in (1 .. day) \X CheckTimes \X DOMAIN Holdings
      PROVE  /\ Rank(o) \in Int
             /\ Rank(o) < Rank(k) <=>
                  o[1] < k[1] \/ (o[1] = k[1] /\ o[2] # k[2] /\ o[2] = "PRE_MARKET")
  <2>1. day \in Nat
    BY DEF ChecksInv
  <2>2. PICK a \in Int, b \in CheckTimes : o[1] = a /\ o[2] = b
    BY <2>1
  <2>3. PICK c \in Int, d \in CheckTimes : k[1] = c /\ k[2] = d
    BY <2>1
  <2>4. /\ Rank(o) = 2 * a + (IF b = "PRE_MARKET" THEN 0 ELSE 1)
        /\ Rank(k) = 2 * c + (IF d = "PRE_MARKET" THEN 0 ELSE 1)
    BY <2>2, <2>3 DEF Rank
  <2>5. Rank(o) < Rank(k) <=> a < c \/ (a = c /\ b # d /\ b = "PRE_MARKET")
    BY <2>2, <2>3, <2>4 DEF CheckTimes
  <2>6. Rank(o) \in Int
    BY <2>2, <2>4
  <2>. QED BY <2>2, <2>3, <2>5, <2>6
<1>2. earlier = PreviousKeys(k)
  BY <1>1 DEF PreviousKeys, ChecksInv
<1>3. CASE earlier = {}
  BY <1>2, <1>3 DEF PreviousTotal
<1>4. CASE earlier # {}
  <2>. DEFINE h == [o \in earlier |-> Rank(o)]
              R == {h[o] : o \in earlier}
  <2>1. earlier \in SUBSET DOMAIN checks
    OBVIOUS
  <2>2. IsFiniteSet(earlier)
    BY <2>1, FS_Subset DEF ChecksInv
  <2>3. \A o \in earlier : Rank(o) \in Int /\ h[o] = Rank(o)
    BY <1>1, <2>1 DEF ChecksInv
  <2>4. IsFiniteSet(R)
    <3>. HIDE DEF h
    <3>. QED BY <2>2, ImageFinite
  <2>5. R # {} /\ R \subseteq Int
    <3>. HIDE DEF h
    <3>. QED BY <1>4, <2>3
  <2>6. Max(R) \in R /\ \A x \in R : Max(R) >= x
    <3>. HIDE DEF R
    <3>. QED BY <2>4, <2>5, LargestIsMax
  <2>7. PICK o \in earlier : Max(R) = h[o]
    <3>. HIDE DEF h
    <3>. QED BY <2>6
  <2>8. \A q \in earlier : h[q] <= h[o]
    <3>. HIDE DEF h
    <3>1. \A q \in earlier : h[q] \in R /\ h[q] \in Int
      BY <2>3
    <3>. QED BY <2>6, <2>7, <3>1
  <2>9. \A q \in earlier : Rank(q) <= Rank(o)
    BY <2>8
  <2>. DEFINE chosen == CHOOSE p \in PreviousKeys(k) : \A q \in PreviousKeys(k) : Rank(q) <= Rank(p)
  <2>10. chosen \in earlier /\ \A q \in earlier : Rank(q) <= Rank(chosen)
    BY <1>2, <2>9
  <2>11. PreviousTotal(k) = checks[chosen].total
    BY <1>2, <1>4 DEF PreviousTotal
  <2>. QED BY <1>4, <2>10, <2>11
<1>. QED BY <1>3, <1>4

LEMMA VerdictsRepeatStep ==
  ASSUME ChecksInv, [DDNext]_ddVars
  PROVE  [VerdictsRepeat]_checks
<1>1. ASSUME NEW i \in DOMAIN Types, CheckHoldings(Types[i]) PROVE VerdictsRepeat
  <2>. SUFFICES ASSUME NEW k \in DOMAIN checks, NEW earlier, NEW lastTotals,
                       earlier = {o \in DOMAIN checks :
                                    o[3] = k[3] /\ (o[1] < k[1] \/ (o[1] = k[1] /\ o[2] # k[2] /\ o[2] = "PRE_MARKET"))},
                       lastTotals = {checks[o].total : o \in {p \in earlier : \A q \in earlier : Rank(q) <= Rank(p)}},
                       checks'[k].ind = checks[k].ind, checks'[k].price = checks[k].price,
                       lastTotals = (IF checks[k].before = Missing THEN {} ELSE {checks[k].before})
                PROVE  checks'[k] = checks[k]
    BY DEF VerdictsRepeat
  <2>1. CASE k \notin Keys(Types[i])
    BY <1>1, <2>1, ChecksWritten
  <2>2. CASE k \in Keys(Types[i])
    <3>1. k \in (1 .. day) \X CheckTimes \X DOMAIN Holdings
          /\ checks[k] = Row(k[3], checks[k].ind, checks[k].price, checks[k].before)
      BY DEF ChecksInv
    <3>2. PICK ind, price : checks'[k] = Row(k[3], ind, price, PreviousTotal(k))
      BY <1>1, <2>2, ChecksWritten, CheckRowIsRow
    <3>3. ind = checks[k].ind /\ price = checks[k].price
      BY <3>2, RowKeepsItsInputs
    <3>4. PreviousTotal(k) = checks[k].before
      <4>1. CASE earlier = {}
        <5>1. PreviousTotal(k) = Missing
          BY <3>1, <4>1, PreviousIsTheLast
        <5>2. lastTotals = {}
          BY <4>1
        <5>. QED BY <5>1, <5>2
      <4>2. CASE earlier # {}
        <5>1. PICK o \in earlier : /\ \A q \in earlier : Rank(q) <= Rank(o)
                                   /\ PreviousTotal(k) = checks[o].total
          BY <3>1, <4>2, PreviousIsTheLast
        <5>2. PreviousTotal(k) \in lastTotals
          BY <5>1
        <5>. QED BY <5>2
      <4>. QED BY <4>1, <4>2
    <3>. QED BY <3>1, <3>2, <3>3, <3>4
  <2>. QED BY <2>1, <2>2
<1>2. (\E i \in DOMAIN Types : CheckHoldings(Types[i])) \/ UNCHANGED checks
  BY DEF DDNext, ddVars, NewDay, BarArrives, IndicatorArrives, Recommend, ReviewOutcomes
<1>. QED BY <1>1, <1>2

LEMMA RunsKeepTheBestStep ==
  ASSUME FactsInv, RunsInv, [DDNext]_ddVars
  PROVE  [RunsKeepTheBest]_runs
<1>1. ASSUME Recommend PROVE RunsKeepTheBest
  <2>1. PICK row : runs' = Append(runs, row) /\ row.picks = Picks
    BY <1>1 DEF Recommend
  <2>2. runs'[Len(runs')] = row
    <3>1. PICK S : runs \in Seq(S)
      BY DEF RunsInv
    <3>2. runs \in Seq(S \cup {row})
      BY <3>1
    <3>. QED BY <2>1, <3>2
  <2>3. /\ \E n \in 0 .. TopN : /\ DOMAIN Picks = 1 .. n
                                /\ n = TopN \/ n = Cardinality(Candidates)
                                /\ n <= Cardinality(Candidates)
        /\ Len(Picks) \in 0 .. TopN /\ DOMAIN Picks = 1 .. Len(Picks)
        /\ \A r \in DOMAIN Picks : Picks[r] \in Candidates /\ Place(Candidates, Picks[r]) = r
    BY PicksAreTheFirst
  <2>4. PICK n \in 0 .. TopN : /\ DOMAIN Picks = 1 .. n
                               /\ n = TopN \/ n = Cardinality(Candidates)
                               /\ n <= Cardinality(Candidates)
    BY <2>3
  <2>5. Len(Picks) = n
    <3>1. PICK m \in Nat : m = Len(Picks) /\ 1 .. m = 1 .. n
      BY <2>3, <2>4
    <3>2. m = n
      <4>1. \A j \in Int : j \in 1 .. m <=> j \in 1 .. n
        BY <3>1
      <4>2. m \in 1 .. m \/ m = 0
        BY <3>1
      <4>3. n \in 1 .. n \/ n = 0
        BY <2>4
      <4>. QED BY <2>4, <3>1, <4>1, <4>2, <4>3
    <3>. QED BY <3>1, <3>2
  <2>6. Ranked(Candidates)
    BY CandidatesAreRanked
  <2>7. /\ \A c \in Candidates : Place(Candidates, c) \in 1 .. Cardinality(Candidates)
        /\ \A a, b \in Candidates : Before(a, b) <=> Place(Candidates, a) < Place(Candidates, b)
    BY <2>6, PlacesAreRanks
  <2>8. ASSUME NEW q \in DOMAIN Picks, NEW r \in DOMAIN Picks, q < r
        PROVE  Before(Picks[q], Picks[r])
    BY <2>3, <2>7, <2>8
  <2>9. ASSUME NEW c \in Candidates, \A r \in DOMAIN Picks : c # Picks[r]
        PROVE  Len(Picks) = TopN /\ \A r \in DOMAIN Picks : Before(Picks[r], c)
    <3>1. Place(Candidates, c) \in Nat /\ Place(Candidates, c) >= 1
          /\ Place(Candidates, c) <= Cardinality(Candidates) /\ Cardinality(Candidates) \in Nat
      BY <2>6, <2>7, FS_CardinalityType DEF Ranked
    <3>2. Place(Candidates, c) > n
      <4>1. SUFFICES ASSUME Place(Candidates, c) <= n PROVE FALSE
        BY <2>4, <3>1
      <4>2. Place(Candidates, c) \in DOMAIN Picks
        BY <2>4, <3>1, <4>1
      <4>3. PICK b \in Candidates : b = Picks[Place(Candidates, c)] /\ Place(Candidates, b) = Place(Candidates, c)
        BY <2>3, <4>2
      <4>4. ~Before(b, c) /\ ~Before(c, b)
        BY <2>7, <3>1, <4>3
      <4>5. b = c
        BY <2>6, <4>4, BeforeIsAnOrder
      <4>. QED BY <2>9, <4>2, <4>3, <4>5
    <3>3. n = TopN
      BY <2>4, <3>1, <3>2
    <3>4. ASSUME NEW r \in DOMAIN Picks PROVE Before(Picks[r], c)
      <4>1. Picks[r] \in Candidates /\ Place(Candidates, Picks[r]) = r /\ r \in 1 .. n
        BY <2>3, <2>4
      <4>. QED BY <2>4, <2>7, <3>1, <3>2, <4>1
    <3>. QED BY <2>5, <3>3, <3>4
  <2>10. \A c \in Candidates : c.symbol \notin {Picks[r].symbol : r \in DOMAIN Picks} =>
           \A r \in DOMAIN Picks : c # Picks[r]
    OBVIOUS
  <2>. QED BY <2>1, <2>2, <2>8, <2>9, <2>10 DEF RunsKeepTheBest, Before
<1>2. Recommend \/ UNCHANGED runs
  BY DEF DDNext, ddVars, NewDay, BarArrives, IndicatorArrives, CheckHoldings, ReviewOutcomes
<1>. QED BY <1>1, <1>2

\* A check made again on the same facts writes the same row, and a run ranks
\* the best of its candidates, whatever the order of the calls: the check reads
\* the last row strictly before its own, and the sorts are one total order.
THEOREM DecisionsStayReproducible == DDSpec => DecisionsAreReproducible
<1>1. DDInit => ChecksInv
  <2>1. DDInit => day = 1 /\ DOMAIN checks = {}
    BY DEF DDInit
  <2>. QED BY <2>1, FS_EmptySet DEF ChecksInv
<1>2. OutcomesStand => FactsInv /\ RunsInv
  BY DEF OutcomesStand
<1>3. ChecksInv /\ FactsInv /\ RunsInv /\ [DDNext]_ddVars => [VerdictsRepeat]_checks /\ [RunsKeepTheBest]_runs
  BY VerdictsRepeatStep, RunsKeepTheBestStep
<1>. QED BY <1>1, <1>2, <1>3, ChecksInvStep, OutcomesAlwaysStand, PTL DEF DDSpec, DecisionsAreReproducible

----
(* The shape of the tables. *)

LEMMA RowIsDecided ==
  ASSUME NEW s, NEW ind \in Situations, NEW price, NEW before
  PROVE  /\ Row(s, ind, price, before).total \in 0 .. Top
         /\ Row(s, ind, price, before).decision = DecisionOf[Grade(Row(s, ind, price, before).total)]
<1>. DEFINE scores == WithTechnical(DummyScores(ind), ind)
            plain == Compose(HoldingWeights, scores, 0)
            risk == HoldingRisk(ind, plain, before, price, ReturnRate(price, Holdings[s]), ind.filings)
            total == Compose(HoldingWeights, scores, risk.penalty)
<1>1. ind.technical \in Int /\ ind.filings \in Nat
  BY DailyDecisionsAssumption
<1>2. risk.penalty \in Nat
  <2>1. DOMAIN HoldingPenalty = {"SCORE_DROP", "MA20_BREAKDOWN", "STOP_LOSS_NEAR", "LOW_TECHNICAL_SCORE"}
        /\ \A f \in DOMAIN HoldingPenalty : HoldingPenalty[f] \in Int
    BY DEF HoldingPenalty
  <2>2. IsFiniteSet(DOMAIN HoldingPenalty)
    <3>1. IsFiniteSet({"SCORE_DROP", "MA20_BREAKDOWN", "STOP_LOSS_NEAR", "LOW_TECHNICAL_SCORE"})
      BY FourFinite, Zenon
    <3>. QED BY <2>1, <3>1
  <2>3. PICK flags \in SUBSET DOMAIN HoldingPenalty : risk = Assessment(flags, HoldingPenalty, ind.filings)
    <3>. HIDE DEF plain
    <3>. QED BY DEF HoldingRisk
  <2>4. IsFiniteSet(flags)
    BY <2>2, FS_Subset
  <2>5. \A f \in flags : HoldingPenalty[f] \in Int
    BY <2>1
  <2>6. PICK n \in Nat : n = ind.filings
    BY <1>1
  <2>7. Assessment(flags, HoldingPenalty, n).penalty \in Nat
    BY <2>4, <2>5, PenaltyTyped
  <2>. HIDE DEF risk
  <2>. QED BY <2>3, <2>6, <2>7
<1>3. DOMAIN HoldingWeights = {"technical", "news", "earnings", "ai"}
      /\ \A c \in DOMAIN HoldingWeights : HoldingWeights[c] \in Int
  BY DEF HoldingWeights
<1>4. \A c \in DOMAIN HoldingWeights : scores[c] \in Int
  BY <1>1, <1>3, DummiesTyped DEF WithTechnical
<1>5. total \in 0 .. Top
  <2>1. IsFiniteSet(DOMAIN HoldingWeights)
    <3>1. IsFiniteSet({"technical", "news", "earnings", "ai"})
      BY FourFinite, Zenon
    <3>. QED BY <1>3, <3>1
  <2>. HIDE DEF scores, risk
  <2>. QED BY <1>2, <1>3, <1>4, <2>1, TotalTyped
<1>6. Row(s, ind, price, before).total = total
      /\ Row(s, ind, price, before).decision = DecisionOf[Grade(total)]
  BY DEF Row
<1>. HIDE DEF total
<1>. QED BY <1>5, <1>6

\* Totals on their scale with the decision they call for, and outcomes no later
\* than today.
DatedInv ==
  /\ \A k \in DOMAIN checks :
       checks[k].total \in 0 .. Top /\ checks[k].decision = DecisionOf[Grade(checks[k].total)]
  /\ \A k \in DOMAIN outcomes : outcomes[k].on \in 0 .. day

LEMMA DatedInvStep ==
  ASSUME OutcomesStand, ChecksInv, DatedInv, [DDNext]_ddVars
  PROVE  DatedInv'
<1>1. CASE UNCHANGED <<day, checks, outcomes>>
  BY <1>1 DEF DatedInv
<1>2. CASE NewDay
  <2>1. day' = day + 1 /\ checks' = checks /\ outcomes' = outcomes /\ day \in Nat \ {0}
    BY <1>2 DEF NewDay, ChecksInv
  <2>2. 0 .. day \subseteq 0 .. day'
    BY <2>1
  <2>. QED BY <2>1, <2>2 DEF DatedInv
<1>3. ASSUME NEW i \in DOMAIN Types, CheckHoldings(Types[i]) PROVE DatedInv'
  <2>1. day' = day /\ outcomes' = outcomes
    BY <1>3 DEF CheckHoldings
  <2>2. ASSUME NEW k \in DOMAIN checks'
        PROVE  checks'[k].total \in 0 .. Top /\ checks'[k].decision = DecisionOf[Grade(checks'[k].total)]
    <3>1. CASE k \in Keys(Types[i])
      <4>1. facts[k[3]] \in Situations
        BY <3>1 DEF Keys, Ready, OutcomesStand, FactsInv, Symbols
      <4>2. checks'[k] = CheckRow(k)
        BY <1>3, <3>1, ChecksWritten
      <4>. QED BY <4>1, <4>2, CheckRowIsRow, RowIsDecided
    <3>2. CASE k \notin Keys(Types[i])
      <4>1. k \in DOMAIN checks /\ checks'[k] = checks[k]
        BY <1>3, <3>2, ChecksWritten
      <4>. QED BY <4>1 DEF DatedInv
    <3>. QED BY <3>1, <3>2
  <2>. QED BY <2>1, <2>2 DEF DatedInv
<1>4. CASE ReviewOutcomes
  <2>1. day' = day /\ checks' = checks
    BY <1>4 DEF ReviewOutcomes
  <2>2. BarsInv /\ RunsInv /\ day \in Nat \ {0}
    BY DEF OutcomesStand, BarsInv
  <2>3. outcomes' = Over(outcomes, [k \in Due |-> Outcome(k[1], k[2], k[3])])
    BY <1>4 DEF ReviewOutcomes, Due
  <2>4. ASSUME NEW k \in Due PROVE outcomes'[k].on \in 0 .. day
    <3>1. outcomes'[k] = Outcome(k[1], k[2], k[3])
      BY <2>3 DEF Over
    <3>2. k \in (DOMAIN runs) \X (1 .. TopN) \X Horizons /\ k[2] \in DOMAIN runs[k[1]].picks
      BY DEF Due
    <3>3. PICK s \in Symbols : s = runs[k[1]].picks[k[2]].symbol
      BY <2>2, <3>2, AboutARecommendation
    <3>4. PICK asOf \in Nat : asOf = runs[k[1]].date
      BY <2>2, <3>2, AboutARecommendation
    <3>5. PICK n \in Nat : n = k[3]
      BY <2>2, <3>2, AboutARecommendation
    <3>6. NotYet.on = day /\ day \in 0 .. day
      BY <2>2 DEF NotYet
    <3>7. CASE References(s, asOf) = {}
      BY <3>1, <3>3, <3>4, <3>6, <3>7 DEF Outcome
    <3>8. CASE References(s, asOf) # {}
      <4>1. PICK ref \in DOMAIN bars[s] : ref = Reference(s, asOf)
        BY <2>2, <3>8, ReferencesAreBars
      <4>2. outcomes'[k] = Measured(s, ref, n)
        BY <3>1, <3>3, <3>4, <3>5, <3>8, <4>1 DEF Outcome, Reference
      <4>3. CASE Window(s, ref, n) = {}
        BY <3>6, <4>2, <4>3 DEF Measured
      <4>4. CASE Window(s, ref, n) # {}
        <5>1. Measured(s, ref, n).on \in Window(s, ref, n)
          BY <2>2, <4>4, MeasurementsAreJudged DEF Judged
        <5>2. Measured(s, ref, n).on \in 1 .. day
          BY <2>2, <5>1 DEF Window, BarsInv
        <5>. QED BY <2>2, <4>2, <5>2
      <4>. QED BY <4>3, <4>4
    <3>. QED BY <3>7, <3>8
  <2>5. /\ DOMAIN outcomes' = Due \cup DOMAIN outcomes
        /\ \A k \in DOMAIN outcomes : k \notin Due => outcomes'[k] = outcomes[k]
    BY <1>4, <2>2, ReviewWrites
  <2>. QED BY <2>1, <2>4, <2>5 DEF DatedInv
<1>5. Recommend \/ UNCHANGED ddVars \/ (\E s \in Symbols, d \in 1 .. MaxDay, bar \in BarShapes : BarArrives(s, d, bar))
      \/ (\E s \in Symbols, x \in Situations : IndicatorArrives(s, x)) => UNCHANGED <<day, checks, outcomes>>
  BY DEF Recommend, BarArrives, IndicatorArrives, ddVars
<1>. QED BY <1>1, <1>2, <1>3, <1>4, <1>5 DEF DDNext

\* Nothing in the tables lies ahead of its day, ranks are dense and no more
\* than TopN, totals are on their scale, and a stored decision is the one its
\* total calls for.
THEOREM TablesKeepTheirShape == DDSpec => []DDTypeOK
<1>1. DDInit => ChecksInv /\ DatedInv /\ day \in 1 .. MaxDay
  <2>1. DDInit => day = 1 /\ DOMAIN checks = {} /\ DOMAIN outcomes = {}
    BY DEF DDInit
  <2>2. 1 \in 1 .. MaxDay
    BY DailyDecisionsAssumption
  <2>. QED BY <2>1, <2>2, FS_EmptySet DEF ChecksInv, DatedInv
<1>2. day \in 1 .. MaxDay /\ [DDNext]_ddVars => (day \in 1 .. MaxDay)'
  <2>1. day \in 1 .. MaxDay /\ NewDay => day' \in 1 .. MaxDay
    BY DailyDecisionsAssumption DEF NewDay
  <2>2. [DDNext]_ddVars => NewDay \/ day' = day
    BY DEF DDNext, ddVars, BarArrives, IndicatorArrives, CheckHoldings, Recommend, ReviewOutcomes
  <2>. QED BY <2>1, <2>2
<1>3. OutcomesStand /\ ChecksInv /\ DatedInv /\ [DDNext]_ddVars => DatedInv'
  BY DatedInvStep
<1>4. OutcomesStand /\ ChecksInv /\ DatedInv /\ day \in 1 .. MaxDay => DDTypeOK
  <2>. SUFFICES ASSUME OutcomesStand, ChecksInv, DatedInv, day \in 1 .. MaxDay PROVE DDTypeOK
    OBVIOUS
  <2>1. \A s \in Symbols : DOMAIN bars[s] \subseteq 1 .. day
    BY DEF OutcomesStand, BarsInv
  <2>2. \A k \in DOMAIN checks : k[1] <= day /\ k[3] \in DOMAIN Holdings
    BY DEF ChecksInv
  <2>3. \A i \in DOMAIN runs : runs[i].date <= day /\ Len(runs[i].picks) <= TopN
    BY DEF OutcomesStand, RunsInv
  <2>4. \A k \in DOMAIN outcomes : k[1] \in DOMAIN runs /\ outcomes[k].on <= day
    BY DEF OutcomesStand, OutcomesInv, DatedInv
  <2>. QED BY <2>1, <2>2, <2>3, <2>4 DEF DDTypeOK, DatedInv
<1>. QED BY <1>1, <1>2, <1>3, <1>4, ChecksInvStep, OutcomesAlwaysStand, PTL DEF DDSpec

----
(* Backtests: what a strategy is given. *)

\* The days a backtest is asked for are numbered like all others.
LEMMA AskedAreFinite ==
  ASSUME RunsInv, NEW from, NEW to
  PROVE  /\ IsFiniteSet(AskedFor(from, to))
         /\ \A k \in AskedFor(from, to) : /\ k = <<k[1], k[2]>> /\ k[1] \in DOMAIN runs /\ k[2] \in Nat
                                       /\ k[2] \in DOMAIN runs[k[1]].picks
                                       /\ runs[k[1]].date \in from..to
<1>1. PICK S : runs \in Seq(S)
  BY DEF RunsInv
<1>2. IsFiniteSet(DOMAIN runs)
  <2>1. DOMAIN runs = 1 .. Len(runs) /\ Len(runs) \in Nat
    BY <1>1
  <2>. QED BY <2>1, FS_Interval
<1>3. IsFiniteSet(1 .. TopN)
  BY DailyDecisionsAssumption, FS_Interval
<1>4. IsFiniteSet((DOMAIN runs) \X (1 .. TopN))
  BY <1>2, <1>3, FS_Product
<1>5. AskedFor(from, to) \in SUBSET ((DOMAIN runs) \X (1 .. TopN))
  BY DEF AskedFor
<1>6. IsFiniteSet(AskedFor(from, to))
  BY <1>4, <1>5, FS_Subset
<1>7. \A x \in 1 .. TopN : x \in Nat
  BY DailyDecisionsAssumption
<1>. QED BY <1>5, <1>6, <1>7 DEF AskedFor

\* Newest run first and then by rank is a strict total order.
LEMMA NewerIsAnOrder ==
  ASSUME RunsInv, BarsInv, NEW from, NEW to
  PROVE  StrictlyOrders({p \in AskedFor(from, to) \X AskedFor(from, to) : Newer(p[1], p[2])}, AskedFor(from, to))
<1>. DEFINE keys == AskedFor(from, to)
            order == {p \in keys \X keys : Newer(p[1], p[2])}
<1>1. \A k \in keys : /\ k = <<k[1], k[2]>> /\ k[1] \in DOMAIN runs /\ k[2] \in Nat
  BY AskedAreFinite
<1>2. \A i \in DOMAIN runs : i \in Nat /\ runs[i].date \in Nat
  BY DEF RunsInv, BarsInv
<1>3. \A k \in keys : k[1] \in Nat /\ k[2] \in Nat /\ runs[k[1]].date \in Nat
  BY <1>1, <1>2
<1>4. \A k, l \in keys : <<k, l>> \in order <=> Newer(k, l)
  OBVIOUS
<1>. HIDE DEF keys, order
<1>5. \A k \in keys : ~Newer(k, k)
  BY <1>3 DEF Newer
<1>6. ASSUME NEW k \in keys, NEW l \in keys PROVE k = l \/ Newer(k, l) \/ Newer(l, k)
  <2>1. k[1] = l[1] /\ k[2] = l[2] => k = l
    BY <1>1
  <2>. QED BY <1>3, <2>1 DEF Newer
<1>7. ASSUME NEW k \in keys, NEW l \in keys, NEW m \in keys, Newer(k, l), Newer(l, m)
      PROVE  Newer(k, m)
  BY <1>3, <1>7 DEF Newer
<1>8. StrictlyOrders(order, keys)
  BY <1>4, <1>5, <1>6, <1>7 DEF StrictlyOrders
<1>. QED BY <1>8 DEF order, keys

\* A fetch without a limit returns as many recommendations as were asked for,
\* and every one it returns was asked for.
LEMMA FetchedWereAsked ==
  ASSUME RunsInv, BarsInv, NEW from, NEW to, NEW limit \in Nat
  PROVE  /\ \E n \in Nat : /\ DOMAIN Fetched(from, to, limit) = 1 .. n
                           /\ limit = 0 => n = Cardinality(AskedFor(from, to))
         /\ \A i \in DOMAIN Fetched(from, to, limit) : Fetched(from, to, limit)[i] \in AskedFor(from, to)
<1>. DEFINE keys == AskedFor(from, to)
            order == {p \in keys \X keys : Newer(p[1], p[2])}
            all == Cardinality(keys)
            place(k) == 1 + Cardinality({l \in keys : Newer(l, k)})
            n == IF limit > 0 /\ all > limit THEN limit ELSE all
<1>1. IsFiniteSet(keys) /\ all \in Nat
  BY AskedAreFinite, FS_CardinalityType
<1>2. StrictlyOrders(order, keys)
  BY NewerIsAnOrder
<1>3. \A k \in keys : Standing(keys, order, k) = place(k)
  <2>. TAKE k \in keys
  <2>1. {l \in keys : <<l, k>> \in order} = {l \in keys : Newer(l, k)}
    OBVIOUS
  <2>. QED BY <2>1 DEF Standing
<1>4. \A r \in 1 .. all : \E k \in keys : Standing(keys, order, k) = r
  <2>. HIDE DEF order, keys
  <2>. QED BY <1>1, <1>2, StandingsAreRanks
<1>5. Fetched(from, to, limit) = [i \in 1 .. n |-> CHOOSE k \in keys : place(k) = i]
  BY DEF Fetched
<1>. HIDE DEF order, keys, place
<1>6. n \in Nat /\ n <= all /\ (limit = 0 => n = all)
  <2>. HIDE DEF all
  <2>. QED BY <1>1
<1>. HIDE DEF n
<1>7. \A i \in 1 .. n : \E k \in keys : place(k) = i
  <2>. HIDE DEF all
  <2>. QED BY <1>1, <1>3, <1>4, <1>6
<1>. QED BY <1>5, <1>6, <1>7 DEF keys

\* What an evaluated row says: an action, the return of the main horizon, if
\* there is one, and what a BUY is left with after its costs.
Net(row) ==
  IF row.action = "BUY" /\ Has(row.returns[Main]) THEN row.returns[Main] - Cost ELSE Missing
Rowed(table, n) ==
  /\ n \in Nat /\ DOMAIN table = 1 .. n /\ Len(table) = n
  /\ \A i \in 1 .. n : /\ table[i].action \in {"BUY", "PASS", "AVOID"}
                       /\ table[i].returns[Main] \in Int
                       /\ Has(table[i].returns[Main]) => table[i].returns[Main] >= -10000
                       /\ table[i].net = Net(table[i])

LEMMA PartsAreFinite ==
  ASSUME NEW S, IsFiniteSet(S), NEW T, T \subseteq S
  PROVE  IsFiniteSet(T) /\ Cardinality(T) \in Nat
BY FS_Subset, FS_CardinalityType

\* The actions partition the signals.
LEMMA ActionsPartition ==
  ASSUME NEW table, NEW n, Rowed(table, n)
  PROVE  /\ Statistics(table).signals = n
         /\ Statistics(table).buy \in Nat /\ Statistics(table).pass \in Nat
         /\ Statistics(table).avoid \in Nat
         /\ Statistics(table).buy + Statistics(table).pass + Statistics(table).avoid = n
<1>. DEFINE B == Acting(table, "BUY")
            P == Acting(table, "PASS")
            A == Acting(table, "AVOID")
<1>1. /\ Statistics(table).buy = Cardinality(B) /\ Statistics(table).pass = Cardinality(P)
      /\ Statistics(table).avoid = Cardinality(A) /\ Statistics(table).signals = n
  BY DEF Statistics, Rowed
<1>2. B \cup P \cup A = 1 .. n /\ B \cap P = {} /\ (B \cup P) \cap A = {}
  BY DEF Acting, Rowed
<1>3. IsFiniteSet(1 .. n) /\ Cardinality(1 .. n) = n /\ n \in Nat
  <2>1. n \in Nat
    BY DEF Rowed
  <2>2. Cardinality(1 .. n) = IF 1 > n THEN 0 ELSE n - 1 + 1
    BY <2>1, FS_Interval
  <2>. QED BY <2>1, <2>2, FS_Interval
<1>. HIDE DEF B, P, A
<1>4. IsFiniteSet(B) /\ IsFiniteSet(P) /\ IsFiniteSet(A) /\ IsFiniteSet(B \cup P)
  <2>1. B \subseteq 1 .. n /\ P \subseteq 1 .. n /\ A \subseteq 1 .. n /\ B \cup P \subseteq 1 .. n
    BY <1>2
  <2>. QED BY <1>3, <2>1, PartsAreFinite
<1>5. Cardinality(B) \in Nat /\ Cardinality(P) \in Nat /\ Cardinality(A) \in Nat
  BY <1>4, FS_CardinalityType
<1>6. Cardinality(B \cup P) = Cardinality(B) + Cardinality(P)
  <2>1. Cardinality(B \cup P) = Cardinality(B) + Cardinality(P) - Cardinality(B \cap P)
    BY <1>4, FS_Union
  <2>2. Cardinality(B \cap P) = 0
    BY <1>2, FS_EmptySet
  <2>. QED BY <1>5, <2>1, <2>2
<1>7. Cardinality((B \cup P) \cup A) = Cardinality(B \cup P) + Cardinality(A)
  <2>1. Cardinality((B \cup P) \cup A)
          = Cardinality(B \cup P) + Cardinality(A) - Cardinality((B \cup P) \cap A)
    BY <1>4, FS_Union
  <2>2. Cardinality((B \cup P) \cap A) = 0
    BY <1>2, FS_EmptySet
  <2>. QED BY <1>5, <1>6, <2>1, <2>2
<1>. QED BY <1>1, <1>2, <1>3, <1>5, <1>6, <1>7

\* A digest counts.
LEMMA DigestCounts ==
  ASSUME NEW values, IsFiniteSet(DOMAIN values)
  PROVE  Digest(values).n \in Nat /\ Digest(values).wins \in Nat
<1>. DEFINE known == {i \in DOMAIN values : Has(values[i])}
            won == {i \in known : values[i] > 0}
<1>1. known \subseteq DOMAIN values /\ won \subseteq DOMAIN values
  OBVIOUS
<1>2. Digest(values).n = Cardinality(known) /\ Digest(values).wins = Cardinality(won)
  BY DEF Digest
<1>. HIDE DEF known, won
<1>. QED BY <1>1, <1>2, PartsAreFinite

LEMMA BuysAreFinite ==
  ASSUME NEW table, NEW n, Rowed(table, n)
  PROVE  IsFiniteSet(Acting(table, "BUY")) /\ Acting(table, "BUY") \subseteq 1 .. n
<1>1. IsFiniteSet(1 .. n)
  BY FS_Interval DEF Rowed
<1>2. Acting(table, "BUY") \subseteq 1 .. n
  BY DEF Acting, Rowed
<1>. QED BY <1>1, <1>2, PartsAreFinite

\* The regimes partition the buys and the wins among them.
LEMMA RegimesPartition ==
  ASSUME NEW table, NEW n, Rowed(table, n)
  PROVE  /\ SumFunction([g \in DOMAIN RegimeBreakdown(table) |-> RegimeBreakdown(table)[g].buy])
              = Statistics(table).buy
         /\ SumFunction([g \in DOMAIN RegimeBreakdown(table) |-> RegimeBreakdown(table)[g].main.wins])
              = Cardinality({j \in DOMAIN table : table[j].action = "BUY" /\ Has(table[j].returns[Main])
                                                 /\ table[j].returns[Main] > 0})
<1>. DEFINE B == Acting(table, "BUY")
            W == {j \in DOMAIN table : table[j].action = "BUY" /\ Has(table[j].returns[Main])
                                      /\ table[j].returns[Main] > 0}
            h == [i \in B |-> table[i].regime]
            G == {h[i] : i \in B}
            D == RegimeBreakdown(table)
            own(g) == {i \in B : h[i] = g}
            won(g) == {i \in W : h[i] = g}
<1>1. IsFiniteSet(B)
  BY BuysAreFinite
<1>2. W \subseteq B
  BY DEF Acting
<1>3. DOMAIN D = G
  BY DEF RegimeBreakdown
<1>4. \A g \in G : D[g].buy = Cardinality(own(g))
  <2>. TAKE g \in G
  <2>1. {i \in B : table[i].regime = g} = own(g)
    OBVIOUS
  <2>. QED BY <2>1 DEF RegimeBreakdown
<1>5. \A g \in G : D[g].main.wins = Cardinality(won(g))
  <2>. TAKE g \in G
  <2>. DEFINE values == Returns(table, {i \in B : table[i].regime = g}, Main)
              known == {i \in DOMAIN values : Has(values[i])}
  <2>1. D[g].main = Digest(values)
    BY DEF RegimeBreakdown
  <2>2. Digest(values).wins = Cardinality({i \in known : values[i] > 0})
    BY DEF Digest
  <2>3. {i \in known : values[i] > 0} = won(g)
    BY DEF Returns, Acting
  <2>. QED BY <2>1, <2>2, <2>3
<1>6. IsFiniteSet(G) /\ IsFiniteSet(W)
  <2>. HIDE DEF h, B, W
  <2>. QED BY <1>1, <1>2, ImageFinite, FS_Subset
<1>7. /\ \A i \in B : h[i] \in G
      /\ \A i \in W : h[i] \in G
  <2>. HIDE DEF h, B, W
  <2>. QED BY <1>2
<1>8. /\ [g \in DOMAIN D |-> D[g].buy] = [g \in G |-> Cardinality(own(g))]
      /\ [g \in DOMAIN D |-> D[g].main.wins] = [g \in G |-> Cardinality(won(g))]
  <2>. HIDE DEF D, G, own, won
  <2>. QED BY <1>3, <1>4, <1>5
<1>. HIDE DEF D, G, B, W, h
<1>9. /\ SumFunctionOnSet([g \in G |-> Cardinality(own(g))], G) = Cardinality(B)
      /\ SumFunctionOnSet([g \in G |-> Cardinality(won(g))], G) = Cardinality(W)
  BY <1>1, <1>6, <1>7, SumOfGroups
<1>10. /\ SumFunction([g \in G |-> Cardinality(own(g))]) = Cardinality(B)
       /\ SumFunction([g \in G |-> Cardinality(won(g))]) = Cardinality(W)
  <2>1. \A f : SumFunction(f) = SumFunctionOnSet(f, DOMAIN f)
    BY DEF SumFunction, SumFunctionOnSet, FoldFunction
  <2>. HIDE DEF own, won
  <2>. QED BY <1>9, <2>1
<1>11. Statistics(table).buy = Cardinality(B)
  BY DEF Statistics, B
<1>. QED BY <1>8, <1>10, <1>11 DEF D, W

\* The costs are taken off every BUY that has a return, and off no other row.
LEMMA CostsAreTaken ==
  ASSUME NEW table, NEW n, Rowed(table, n)
  PROVE  Statistics(table).net.sum
           = Statistics(table).horizon[Main].sum - Cost * Statistics(table).horizon[Main].n
<1>. DEFINE B == Acting(table, "BUY")
            values == Returns(table, B, Main)
            nets == [i \in B |-> table[i].net]
            known == {i \in DOMAIN values : Has(values[i])}
            paid == {i \in DOMAIN nets : Has(nets[i])}
            cost == [i \in B |-> 0 - Cost]
<1>1. Statistics(table).net = Digest(nets) /\ Statistics(table).horizon[Main] = Digest(values)
  BY BacktestsAssumption DEF Statistics
<1>2. /\ Digest(values).sum = SumFunctionOnSet(values, known)
      /\ Digest(values).n = Cardinality(known)
      /\ Digest(nets).sum = SumFunctionOnSet(nets, paid)
  BY DEF Digest
<1>3. B \subseteq 1 .. n /\ IsFiniteSet(B)
  BY BuysAreFinite
<1>4. \A i \in B : /\ values[i] = table[i].returns[Main] /\ values[i] \in Int
                   /\ Has(values[i]) => values[i] >= -10000 /\ nets[i] = values[i] - Cost
                   /\ ~Has(values[i]) => nets[i] = Missing
  BY <1>3 DEF Returns, Rowed, Net, Acting
<1>5. DOMAIN values = B /\ DOMAIN nets = B
  BY DEF Returns
<1>6. known \subseteq B /\ paid = known
  <2>1. \A i \in B : Has(values[i]) <=> Has(nets[i])
    BY <1>4 DEF Has, Missing, Cost
  <2>. QED BY <1>5, <2>1
<1>7. \A i \in known : values[i] \in Int /\ cost[i] \in Int /\ nets[i] = values[i] + cost[i] /\ cost[i] = -33
  BY <1>4, <1>6 DEF Cost
<1>. HIDE DEF values, nets, known, paid, cost, B
<1>8. IsFiniteSet(known) /\ Cardinality(known) \in Nat
  BY <1>3, <1>6, PartsAreFinite
<1>9. SumFunctionOnSet(nets, known) = SumFunctionOnSet(values, known) + SumFunctionOnSet(cost, known)
  BY <1>7, <1>8, SumPlus
<1>10. SumFunctionOnSet(cost, known) = -33 * Cardinality(known)
  BY <1>7, <1>8, SumConst
<1>11. SumFunctionOnSet(values, known) \in Int
  BY <1>7, <1>8, SumType
<1>. QED BY <1>1, <1>2, <1>6, <1>8, <1>9, <1>10, <1>11 DEF Cost

\* Returns are numbers, and nobody loses more than everything.
ReturnsInv ==
  \A k \in DOMAIN outcomes :
    outcomes[k].close \in Int /\ (Has(outcomes[k].close) => outcomes[k].close >= -10000)

LEMMA VerdictsReturn ==
  ASSUME BarsInv, NEW s \in Symbols, NEW asOf \in Nat, NEW n \in Nat,
         NEW o, VerdictOf(o, s, asOf, n)
  PROVE  o.close \in Int /\ (Has(o.close) => o.close >= -10000)
<1>1. CASE o.close = Missing
  BY <1>1 DEF Has, Missing
<1>2. CASE Reference(s, asOf) \in References(s, asOf) /\ Judged(o, s, Reference(s, asOf), n)
  <2>1. PICK ref \in DOMAIN bars[s] : ref = Reference(s, asOf)
    BY <1>2 DEF References
  <2>2. ref \in Int /\ bars[s][ref].close \in Price
    BY BarsArePriced
  <2>3. o.on \in DOMAIN bars[s]
    BY <1>2, <2>1, <2>2, WindowsAreFinite DEF Judged
  <2>4. bars[s][o.on].close \in Price
    BY <2>3, BarsArePriced
  <2>5. o.close = Percent(bars[s][o.on].close, bars[s][ref].close)
    BY <1>2, <2>1 DEF Judged
  <2>6. o.close + 10000 \in Nat /\ o.close \in Int
    BY <2>2, <2>4, <2>5, ReturnIs
  <2>. QED BY <2>6
<1>. QED BY <1>1, <1>2 DEF VerdictOf

LEMMA ReturnsInvStep ==
  ASSUME OutcomesStand, ReturnsInv, [DDNext]_ddVars
  PROVE  ReturnsInv'
<1>1. CASE UNCHANGED outcomes
  BY <1>1 DEF ReturnsInv
<1>2. CASE ReviewOutcomes
  <2>1. BarsInv /\ RunsInv
    BY DEF OutcomesStand
  <2>2. /\ DOMAIN outcomes' = Due \cup DOMAIN outcomes
        /\ \A k \in DOMAIN outcomes : k \notin Due => outcomes'[k] = outcomes[k]
        /\ \A k \in Due : VerdictOf(outcomes'[k], runs[k[1]].picks[k[2]].symbol, runs[k[1]].date, k[3])
    BY <1>2, <2>1, ReviewWrites
  <2>3. ASSUME NEW k \in Due
        PROVE  outcomes'[k].close \in Int /\ (Has(outcomes'[k].close) => outcomes'[k].close >= -10000)
    <3>1. k \in (DOMAIN runs) \X (1 .. TopN) \X Horizons /\ k[2] \in DOMAIN runs[k[1]].picks
      BY DEF Due
    <3>2. /\ runs[k[1]].picks[k[2]].symbol \in Symbols
          /\ runs[k[1]].date \in Nat /\ k[3] \in Nat
      BY <2>1, <3>1, AboutARecommendation
    <3>. QED BY <2>1, <2>2, <3>2, VerdictsReturn
  <2>. QED BY <2>2, <2>3 DEF ReturnsInv, Has
<1>3. DDNext \/ UNCHANGED ddVars => UNCHANGED outcomes \/ ReviewOutcomes
  BY DEF DDNext, ddVars, NewDay, BarArrives, IndicatorArrives, CheckHoldings, Recommend
<1>. QED BY <1>1, <1>2, <1>3

\* The rows of a run are such rows, and they are about recommendations of the
\* days asked for.
LEMMA RowsAreRowed ==
  ASSUME RunsInv, BarsInv, ReturnsInv, NEW strategy \in Registry, NEW from, NEW to, NEW limit \in Nat
  PROVE  /\ \E n : /\ Rowed(Rows(strategy, from, to, limit), n)
                   /\ limit = 0 => n = Cardinality(AskedFor(from, to))
         /\ \A j \in DOMAIN Rows(strategy, from, to, limit) :
              Rows(strategy, from, to, limit)[j].key \in AskedFor(from, to)
<1>. DEFINE keys == Fetched(from, to, limit)
            table == Rows(strategy, from, to, limit)
<1>1. PICK n \in Nat : DOMAIN keys = 1 .. n /\ (limit = 0 => n = Cardinality(AskedFor(from, to)))
  BY FetchedWereAsked
<1>2. \A i \in DOMAIN keys : keys[i] \in AskedFor(from, to)
  BY FetchedWereAsked
<1>. HIDE DEF keys
<1>3. table = [i \in 1 .. n |-> Evaluated(strategy, keys[i])]
  BY <1>1 DEF Rows, keys
<1>4. Len(table) = n
  <2>1. table \in Seq({Evaluated(strategy, keys[i]) : i \in 1 .. n})
    BY <1>3
  <2>. QED BY <1>3, <2>1
<1>5. \A pick : Signal(strategy, pick) \in {"BUY", "PASS", "AVOID"}
  BY DEF Signal, Registry, TopGrade, HighScore, MultiSignal
<1>6. \A key : ReturnOf(key, Main) \in Int
               /\ (Has(ReturnOf(key, Main)) => ReturnOf(key, Main) >= -10000)
  BY DEF ReturnOf, ReturnsInv, Has, Missing
<1>7. ASSUME NEW i \in 1 .. n
      PROVE  /\ table[i].action \in {"BUY", "PASS", "AVOID"}
             /\ table[i].returns[Main] \in Int
             /\ Has(table[i].returns[Main]) => table[i].returns[Main] >= -10000
             /\ table[i].net = Net(table[i])
             /\ table[i].key = keys[i]
  <2>1. table[i] = Evaluated(strategy, keys[i])
    BY <1>3
  <2>2. table[i].returns[Main] = ReturnOf(keys[i], Main)
    BY <2>1, BacktestsAssumption DEF Evaluated
  <2>3. table[i].action = Signal(strategy, runs[keys[i][1]].picks[keys[i][2]]) /\ table[i].key = keys[i]
    BY <2>1 DEF Evaluated
  <2>4. table[i].net = IF table[i].action = "BUY" /\ Has(ReturnOf(keys[i], Main))
                      THEN ReturnOf(keys[i], Main) - Cost ELSE Missing
    BY <2>1, <2>3 DEF Evaluated
  <2>. QED BY <1>5, <1>6, <2>2, <2>3, <2>4 DEF Net
<1>8. DOMAIN table = 1 .. n
  BY <1>3
<1>. HIDE DEF table
<1>9. Rowed(table, n)
  BY <1>4, <1>7, <1>8 DEF Rowed
<1>. QED BY <1>1, <1>2, <1>7, <1>8, <1>9 DEF table

----
(* Folds. *)

\* The folds of a walk-forward are finitely many, their validation windows are
\* disjoint and have a day.
Folded(folds) ==
  /\ IsFiniteSet(folds)
  /\ \A x, y \in folds : x # y => x.validate \cap y.validate = {}
  /\ \A x \in folds : \E lo, hi \in Int : x.validate = lo .. hi /\ lo <= hi

\* With windows of at least a day, the validation windows also follow their
\* training windows and lie within the days asked for.
LEMMA FoldsAreDisjoint ==
  ASSUME NEW from \in Nat, NEW to \in Nat, NEW train \in Nat \ {0}, NEW validate \in Nat \ {0},
         NEW gap \in Nat, NEW F, F = Folds(from, to, train, validate, gap)
  PROVE  /\ Folded(F)
         /\ \A x \in F : \A a \in x.train, b \in x.validate : a < b /\ a >= from /\ b <= to
<1>. DEFINE off == from + train + gap
            lo(i) == off + i * validate
            hi(i) == off + i * validate + validate - 1
            trained(i) == (from + i * validate) .. (from + i * validate + train - 1)
            fold(i) == [train |-> trained(i), validate |-> lo(i) .. hi(i)]
            I == {j \in 0 .. (to - from) : hi(j) <= to}
<1>1. ASSUME NEW i \in Nat PROVE i * validate \in Nat
  OBVIOUS
<1>2. F = {fold(i) : i \in I}
  <2>. DEFINE trainEnd(i) == from + i * validate + train - 1
              last(i) == trainEnd(i) + gap + validate
              other(i) == [train |-> (from + i * validate) .. trainEnd(i),
                           validate |-> (trainEnd(i) + gap + 1) .. (trainEnd(i) + gap + validate)]
  <2>1. F = {other(i) : i \in {j \in 0 .. (to - from) : last(j) <= to}}
    BY DEF Folds
  <2>2. ASSUME NEW i \in Nat
        PROVE  /\ trainEnd(i) + gap + 1 = lo(i) /\ last(i) = hi(i)
               /\ trainEnd(i) = from + i * validate + train - 1
               /\ trainEnd(i) + gap + validate = hi(i)
    <3>1. i * validate \in Nat
      BY <1>1
    <3>. QED BY <3>1
  <2>3. \A i \in 0 .. (to - from) : i \in Nat
    OBVIOUS
  <2>4. \A i \in 0 .. (to - from) : other(i) = fold(i) /\ (last(i) <= to <=> hi(i) <= to)
    BY <2>2, <2>3
  <2>. HIDE DEF other, fold, last, hi
  <2>. QED BY <2>1, <2>4
<1>3. IsFiniteSet(I)
  <2>1. IsFiniteSet(0 .. (to - from)) /\ I \subseteq 0 .. (to - from)
    BY FS_Interval
  <2>. HIDE DEF I
  <2>. QED BY <2>1, FS_Subset
<1>4. IsFiniteSet(F)
  <2>. DEFINE h == [i \in I |-> fold(i)]
  <2>1. F = {h[i] : i \in I}
    BY <1>2
  <2>. HIDE DEF h, I
  <2>. QED BY <1>3, <2>1, ImageFinite
<1>5. \A i \in I : i \in Nat
  OBVIOUS
<1>6. ASSUME NEW i \in Nat, NEW j \in Nat, i < j PROVE hi(i) < lo(j)
  <2>1. (i + 1) * validate = i * validate + validate
    OBVIOUS
  <2>2. (i + 1) * validate <= j * validate
    BY <1>6, ProductsCompared
  <2>3. i * validate \in Nat /\ j * validate \in Nat /\ off \in Nat
    BY <1>1
  <2>. HIDE DEF off
  <2>. QED BY <2>1, <2>2, <2>3
<1>7. ASSUME NEW i \in Nat PROVE lo(i) \in Int /\ hi(i) \in Int /\ lo(i) <= hi(i)
  <2>1. i * validate \in Nat /\ off \in Nat
    BY <1>1
  <2>. HIDE DEF off
  <2>. QED BY <2>1
<1>8. ASSUME NEW i \in Nat, NEW j \in Nat, i # j PROVE (lo(i) .. hi(i)) \cap (lo(j) .. hi(j)) = {}
  <2>1. hi(i) < lo(j) \/ hi(j) < lo(i)
    BY <1>6, <1>8
  <2>2. /\ lo(i) \in Int /\ hi(i) \in Int /\ lo(j) \in Int /\ hi(j) \in Int
    BY <1>7
  <2>. HIDE DEF lo, hi
  <2>. QED BY <2>1, <2>2
<1>9. ASSUME NEW x \in F, NEW y \in F, x # y PROVE x.validate \cap y.validate = {}
  <2>1. PICK i \in I, j \in I : x = fold(i) /\ y = fold(j)
    BY <1>2
  <2>2. i \in Nat /\ j \in Nat /\ i # j
    BY <1>5, <1>9, <2>1
  <2>. QED BY <1>8, <2>1, <2>2
<1>10. ASSUME NEW x \in F
       PROVE  /\ \A a \in x.train, b \in x.validate : a < b /\ a >= from /\ b <= to
              /\ \E l, m \in Int : x.validate = l .. m /\ l <= m
  <2>1. PICK i \in I : x = fold(i)
    BY <1>2
  <2>2. i \in Nat /\ hi(i) <= to /\ x.validate = lo(i) .. hi(i) /\ x.train = trained(i)
    BY <1>5, <2>1
  <2>3. i * validate \in Nat /\ off \in Nat /\ lo(i) \in Int /\ hi(i) \in Int /\ lo(i) <= hi(i)
    BY <1>1, <1>7, <2>2
  <2>4. PICK p \in Nat : p = i * validate
    BY <2>3
  <2>5. lo(i) = from + train + gap + p
    BY <2>4
  <2>6. ASSUME NEW a \in trained(i), NEW b \in lo(i) .. hi(i) PROVE a < b /\ a >= from /\ b <= to
    <3>1. a \in (from + p) .. (from + p + train - 1)
      BY <2>4
    <3>2. b \in Int /\ b >= lo(i) /\ b <= hi(i)
      BY <2>3
    <3>3. b >= from + train + gap + p /\ b <= to
      BY <2>2, <2>3, <2>5, <3>2
    <3>. QED BY <3>1, <3>2, <3>3
  <2>. HIDE DEF lo, hi, trained
  <2>. QED BY <2>2, <2>3, <2>6
<1>. QED BY <1>4, <1>9, <1>10 DEF Folded

\* The runs whose day some fold validates, and the recommendations in them.
Validated(folds) == {q \in DOMAIN runs : \E x \in folds : runs[q].date \in x.validate}
Offered(folds) == SumFunction([r \in Validated(folds) |-> Len(runs[r].picks)])

LEMMA RunsAreFinite == RunsInv => IsFiniteSet(DOMAIN runs)
<1>. SUFFICES ASSUME RunsInv PROVE IsFiniteSet(DOMAIN runs)
  OBVIOUS
<1>1. PICK S : runs \in Seq(S)
  BY DEF RunsInv
<1>2. DOMAIN runs = 1 .. Len(runs) /\ Len(runs) \in Nat
  BY <1>1
<1>. QED BY <1>2, FS_Interval

\* The days of a window are those from its first to its last.
LEMMA WindowIsItsEnds ==
  ASSUME NEW lo \in Int, NEW hi \in Int, lo <= hi
  PROVE  First(lo .. hi) = lo /\ Final(lo .. hi) = hi
<1>1. IsFiniteSet(lo .. hi) /\ lo .. hi # {} /\ lo .. hi \subseteq Int
  <2>1. IsFiniteSet(lo .. hi)
    BY FS_Interval
  <2>2. lo \in lo .. hi
    OBVIOUS
  <2>. QED BY <2>1, <2>2
<1>2. /\ Lowest(lo .. hi) \in lo .. hi /\ \A x \in lo .. hi : Lowest(lo .. hi) <= x
      /\ Highest(lo .. hi) \in lo .. hi /\ \A x \in lo .. hi : Highest(lo .. hi) >= x
  BY <1>1, LowestIs, HighestIs
<1>3. lo \in lo .. hi /\ hi \in lo .. hi
  OBVIOUS
<1>. QED BY <1>2, <1>3 DEF First, Final

\* Disjoint windows ask for every recommendation of their days once.
LEMMA WindowsAskOnce ==
  ASSUME RunsInv, BarsInv, NEW folds, Folded(folds)
  PROVE  SumFunctionOnSet([x \in folds |-> Cardinality(AskedFor(First(x.validate), Final(x.validate)))], folds)
           = Offered(folds)
<1>. DEFINE K == {k \in (DOMAIN runs) \X (1 .. TopN) :
                    k[2] \in DOMAIN runs[k[1]].picks /\ \E x \in folds : runs[k[1]].date \in x.validate}
            G == Validated(folds)
            h == [k \in K |-> CHOOSE x \in folds : runs[k[1]].date \in x.validate]
            j == [k \in K |-> k[1]]
            asked(x) == AskedFor(First(x.validate), Final(x.validate))
<1>1. IsFiniteSet(K)
  <2>1. IsFiniteSet((DOMAIN runs) \X (1 .. TopN))
    <3>1. IsFiniteSet(DOMAIN runs)
      BY RunsAreFinite
    <3>2. IsFiniteSet(1 .. TopN)
      BY DailyDecisionsAssumption, FS_Interval
    <3>. QED BY <3>1, <3>2, FS_Product
  <2>2. K \subseteq (DOMAIN runs) \X (1 .. TopN)
    OBVIOUS
  <2>. HIDE DEF K
  <2>. QED BY <2>1, <2>2, FS_Subset
<1>2. IsFiniteSet(G)
  <2>1. G \subseteq DOMAIN runs
    BY DEF Validated
  <2>. HIDE DEF G
  <2>. QED BY <2>1, RunsAreFinite, FS_Subset
<1>3. \A k \in K : h[k] \in folds /\ runs[k[1]].date \in h[k].validate
  OBVIOUS
<1>4. ASSUME NEW x \in folds PROVE {k \in K : h[k] = x} = asked(x)
  <2>1. PICK lo \in Int, hi \in Int : x.validate = lo .. hi /\ lo <= hi
    BY DEF Folded
  <2>2. First(x.validate) = lo /\ Final(x.validate) = hi
    BY <2>1, WindowIsItsEnds
  <2>3. asked(x) = {k \in K : runs[k[1]].date \in x.validate}
    BY <2>1, <2>2 DEF AskedFor
  <2>4. \A k \in K : runs[k[1]].date \in x.validate <=> h[k] = x
    <3>. HIDE DEF h, K
    <3>. QED BY <1>3 DEF Folded
  <2>. HIDE DEF h, K, asked
  <2>. QED BY <2>3, <2>4
<1>5. ASSUME NEW r \in G PROVE Cardinality({k \in K : j[k] = r}) = Len(runs[r].picks)
  <2>. DEFINE n == Len(runs[r].picks)
              T == {k \in K : j[k] = r}
              p == [i \in 1 .. n |-> <<r, i>>]
  <2>1. r \in DOMAIN runs /\ \E x \in folds : runs[r].date \in x.validate
    BY DEF Validated
  <2>2. n \in 0 .. TopN /\ DOMAIN runs[r].picks = 1 .. n
    BY <2>1 DEF RunsInv
  <2>3. TopN \in Nat
    BY DailyDecisionsAssumption
  <2>4. T = {<<r, i>> : i \in 1 .. n}
    BY <2>1, <2>2, <2>3
  <2>. HIDE DEF n, T
  <2>5. p \in Bijection(1 .. n, T)
    BY <2>4 DEF Bijection, Injection, Surjection, IsInjective
  <2>6. ExistsBijection(1 .. n, T)
    BY <2>5 DEF ExistsBijection
  <2>7. n \in Nat
    BY <2>2, <2>3
  <2>8. Cardinality(T) = n
    BY <2>6, <2>7, FS_CountingElements
  <2>. QED BY <2>8 DEF n, T
<1>6. \A k \in K : j[k] \in G
  BY DEF Validated
<1>7. IsFiniteSet(folds)
  BY DEF Folded
<1>8. [x \in folds |-> Cardinality({k \in K : h[k] = x})] = [x \in folds |-> Cardinality(asked(x))]
  <2>. HIDE DEF K, h, asked
  <2>. QED BY <1>4
<1>9. [r \in G |-> Cardinality({k \in K : j[k] = r})] = [r \in G |-> Len(runs[r].picks)]
  <2>. HIDE DEF K, j, G
  <2>. QED BY <1>5
<1>. HIDE DEF K, G, h, j, asked
<1>10. SumFunctionOnSet([x \in folds |-> Cardinality({k \in K : h[k] = x})], folds) = Cardinality(K)
  BY <1>1, <1>3, <1>7, SumOfGroups
<1>11. SumFunctionOnSet([r \in G |-> Cardinality({k \in K : j[k] = r})], G) = Cardinality(K)
  BY <1>1, <1>2, <1>6, SumOfGroups
<1>12. Offered(folds) = SumFunctionOnSet([r \in G |-> Len(runs[r].picks)], G)
  BY SumFunctionIs DEF Offered, G
<1>13. SumFunctionOnSet([x \in folds |-> Cardinality(asked(x))], folds) = Offered(folds)
  BY <1>8, <1>9, <1>10, <1>11, <1>12
<1>. QED BY <1>13 DEF asked

\* The sums a walk-forward stores.
Total(strategy, folds, f) ==
  SumFunctionOnSet(
    [x \in folds |-> Statistics(Rows(strategy, First(x.validate), Final(x.validate), 0))[f]], folds)

LEMMA ValidationsCount ==
  ASSUME RunsInv, BarsInv, ReturnsInv, NEW strategy \in Registry, NEW folds, Folded(folds)
  PROVE  /\ Total(strategy, folds, "signals") = Offered(folds)
         /\ Total(strategy, folds, "signals") =
              Total(strategy, folds, "buy") + Total(strategy, folds, "pass") + Total(strategy, folds, "avoid")
<1>. DEFINE st(x) == Statistics(Rows(strategy, First(x.validate), Final(x.validate), 0))
            asked(x) == Cardinality(AskedFor(First(x.validate), Final(x.validate)))
            sig == [x \in folds |-> st(x).signals]
            buy == [x \in folds |-> st(x).buy]
            pass == [x \in folds |-> st(x).pass]
            avoid == [x \in folds |-> st(x).avoid]
            both == [x \in folds |-> buy[x] + pass[x]]
<1>1. ASSUME NEW x \in folds
      PROVE  /\ st(x).signals = asked(x)
             /\ st(x).buy \in Nat /\ st(x).pass \in Nat /\ st(x).avoid \in Nat
             /\ st(x).buy + st(x).pass + st(x).avoid = st(x).signals
  <2>1. PICK n : /\ Rowed(Rows(strategy, First(x.validate), Final(x.validate), 0), n)
                 /\ n = asked(x)
    BY RowsAreRowed
  <2>. QED BY <2>1, ActionsPartition
<1>2. /\ Total(strategy, folds, "signals") = SumFunctionOnSet(sig, folds)
      /\ Total(strategy, folds, "buy") = SumFunctionOnSet(buy, folds)
      /\ Total(strategy, folds, "pass") = SumFunctionOnSet(pass, folds)
      /\ Total(strategy, folds, "avoid") = SumFunctionOnSet(avoid, folds)
  BY DEF Total
<1>3. sig = [x \in folds |-> asked(x)]
  <2>. HIDE DEF st, asked
  <2>. QED BY <1>1
<1>4. SumFunctionOnSet(sig, folds) = Offered(folds)
  BY <1>3, WindowsAskOnce
<1>5. IsFiniteSet(folds)
  BY DEF Folded
<1>. HIDE DEF st, asked
<1>6. \A x \in folds : /\ buy[x] \in Int /\ pass[x] \in Int /\ avoid[x] \in Int
                       /\ both[x] = buy[x] + pass[x] /\ both[x] \in Int
                       /\ sig[x] = both[x] + avoid[x]
  BY <1>1
<1>. HIDE DEF sig, buy, pass, avoid, both
<1>7. SumFunctionOnSet(both, folds) = SumFunctionOnSet(buy, folds) + SumFunctionOnSet(pass, folds)
  BY <1>5, <1>6, SumPlus
<1>8. SumFunctionOnSet(sig, folds) = SumFunctionOnSet(both, folds) + SumFunctionOnSet(avoid, folds)
  BY <1>5, <1>6, SumPlus
<1>. QED BY <1>2, <1>4, <1>7, <1>8

----
(* The best strategy. *)

\* Rates are compared by products; with counts above zero that is an order.
LEMMA RatesAreOrdered ==
  ASSUME NEW u \in Nat, NEW v \in Nat, NEW w \in Nat,
         NEW l \in Nat \ {0}, NEW m \in Nat \ {0}, NEW n \in Nat \ {0},
         u * m > v * l, v * n > w * m
  PROVE  u * n > w * l
<1>1. SUFFICES ASSUME w * l >= u * n PROVE FALSE
  OBVIOUS
<1>2. (u * m) * n > (v * l) * n
  <2>1. PICK a \in Nat, b \in Nat : a = u * m /\ b = v * l
    OBVIOUS
  <2>2. a * n >= (b + 1) * n /\ (b + 1) * n = b * n + n
    BY <2>1, ProductsCompared
  <2>3. b * n \in Nat /\ a * n \in Nat
    OBVIOUS
  <2>. QED BY <2>1, <2>2, <2>3
<1>3. (v * n) * l >= (w * m) * l
  BY ProductsCompared
<1>4. (w * l) * m >= (u * n) * m
  BY <1>1, ProductsCompared
<1>5. /\ (u * m) * n = (u * n) * m /\ (v * l) * n = (v * n) * l /\ (w * m) * l = (w * l) * m
  OBVIOUS
<1>6. (u * m) * n \in Int /\ (v * n) * l \in Int /\ (w * l) * m \in Int
  OBVIOUS
<1>. QED BY <1>2, <1>3, <1>4, <1>5, <1>6

\* What the comparison has gathered.
Scored(results) ==
  /\ \E S : results \in Seq(S)
  /\ \A i \in DOMAIN results : /\ RateOf(results[i]).n \in Nat /\ RateOf(results[i]).wins \in Nat
                               /\ results[i].name \in Registry
Rated(results) == {i \in DOMAIN results : RateOf(results[i]).n > 0}

\* Somebody is beaten by none.
LEMMA SomeRateIsUnbeaten ==
  ASSUME NEW results, Scored(results), Rated(results) # {}
  PROVE  \E i \in Rated(results) : \A j \in Rated(results) : ~BeatsRate(results[j], results[i])
<1>. DEFINE R == Rated(results)
            over(i) == {j \in R : BeatsRate(results[j], results[i])}
            B == {over(i) : i \in R}
<1>1. IsFiniteSet(R)
  <2>1. PICK S : results \in Seq(S)
    BY DEF Scored
  <2>2. IsFiniteSet(DOMAIN results)
    <3>1. DOMAIN results = 1 .. Len(results) /\ Len(results) \in Nat
      BY <2>1
    <3>. QED BY <3>1, FS_Interval
  <2>3. R \subseteq DOMAIN results
    BY DEF Rated
  <2>. HIDE DEF R
  <2>. QED BY <2>2, <2>3, FS_Subset
<1>2. \A i \in R : RateOf(results[i]).n \in Nat \ {0} /\ RateOf(results[i]).wins \in Nat
  BY DEF Rated, Scored
<1>. HIDE DEF R
<1>3. \A i \in R : ~BeatsRate(results[i], results[i])
  BY <1>2 DEF BeatsRate
<1>4. ASSUME NEW i \in R, NEW j \in R, NEW k \in R,
             BeatsRate(results[i], results[j]), BeatsRate(results[j], results[k])
      PROVE  BeatsRate(results[i], results[k])
  <2>1. PICK u \in Nat, l \in Nat \ {0} : u = RateOf(results[i]).wins /\ l = RateOf(results[i]).n
    BY <1>2
  <2>2. PICK v \in Nat, m \in Nat \ {0} : v = RateOf(results[j]).wins /\ m = RateOf(results[j]).n
    BY <1>2
  <2>3. PICK w \in Nat, n \in Nat \ {0} : w = RateOf(results[k]).wins /\ n = RateOf(results[k]).n
    BY <1>2
  <2>4. u * m > v * l /\ v * n > w * m
    BY <1>4, <2>1, <2>2, <2>3 DEF BeatsRate
  <2>5. u * n > w * l
    BY <2>4, RatesAreOrdered
  <2>. QED BY <2>1, <2>3, <2>5 DEF BeatsRate
<1>5. PICK T \in B : \A U \in B : ~(U \subseteq T /\ U # T)
  <2>1. B \subseteq SUBSET R /\ B # {}
    BY DEF R
  <2>. HIDE DEF B, over
  <2>. QED BY <1>1, <2>1, SmallestSubset
<1>6. PICK i \in R : T = over(i)
  BY <1>5
<1>7. ASSUME NEW j \in R, BeatsRate(results[j], results[i]) PROVE FALSE
  <2>1. over(j) \subseteq over(i) /\ j \in over(i) /\ j \notin over(j)
    BY <1>3, <1>4, <1>7
  <2>2. over(j) \in B
    OBVIOUS
  <2>. HIDE DEF B, over
  <2>. QED BY <1>5, <1>6, <2>1, <2>2
<1>. QED BY <1>7 DEF R

LEMMA BestIsTheTop ==
  ASSUME NEW results, Scored(results)
  PROVE  IF Best(results) = "none" THEN Rated(results) = {}
         ELSE \E j \in Rated(results) : /\ results[j].name = Best(results)
                                        /\ \A k \in Rated(results) : ~BeatsRate(results[k], results[j])
<1>. DEFINE top == {i \in Rated(results) : \A j \in Rated(results) : ~BeatsRate(results[j], results[i])}
<1>1. Best(results) = IF Rated(results) = {} THEN "none" ELSE results[Lowest(top)].name
  BY DEF Best, Rated
<1>2. CASE Rated(results) = {}
  BY <1>1, <1>2
<1>3. CASE Rated(results) # {}
  <2>1. top # {}
    BY <1>3, SomeRateIsUnbeaten
  <2>2. PICK S : results \in Seq(S)
    BY DEF Scored
  <2>3. top \subseteq 1 .. Len(results) /\ Len(results) \in Nat
    BY <2>2 DEF Rated
  <2>4. IsFiniteSet(top) /\ top \subseteq Int
    <3>1. IsFiniteSet(1 .. Len(results))
      BY <2>3, FS_Interval
    <3>2. IsFiniteSet(top)
      <4>. HIDE DEF top
      <4>. QED BY <2>3, <3>1, FS_Subset
    <3>. QED BY <2>3, <3>2
  <2>5. Lowest(top) \in top
    <3>. HIDE DEF top
    <3>. QED BY <2>1, <2>4, LowestIs
  <2>6. results[Lowest(top)].name \in Registry
    BY <2>5 DEF Scored, Rated
  <2>7. results[Lowest(top)].name # "none"
    BY <2>6 DEF Registry
  <2>. QED BY <1>1, <1>3, <2>5, <2>7
<1>. QED BY <1>2, <1>3

----
(* What is stored stays true while the tables grow. *)

Explained(t) ==
  /\ t.stats.buy + t.stats.pass + t.stats.avoid = Len(t.rows)
  /\ SumFunction([g \in DOMAIN t.regimes |-> t.regimes[g].buy]) = t.stats.buy
  /\ SumFunction([g \in DOMAIN t.regimes |-> t.regimes[g].main.wins])
       = Cardinality({j \in DOMAIN t.rows : t.rows[j].action = "BUY" /\ Has(t.rows[j].returns[Main])
                                             /\ t.rows[j].returns[Main] > 0})
  /\ t.stats.net.sum = t.stats.horizon[Main].sum - Cost * t.stats.horizon[Main].n
  /\ \A j \in DOMAIN t.rows :
       t.rows[j].key[1] \in DOMAIN runs /\ runs[t.rows[j].key[1]].date \in t.from..t.to

CountedOnce(t) ==
  /\ \A x, y \in t.folds : x # y => x.validate \cap y.validate = {}
  /\ \A x \in t.folds : \A a \in x.train, b \in x.validate : a < b /\ a >= t.from /\ b <= t.to
  /\ t.signals = t.buy + t.pass + t.avoid
  /\ t.signals \in Int /\ t.signals <= Offered(t.folds)

Unbeaten(t) ==
  IF t.best = "none" THEN Rated(t.results) = {}
  ELSE \E j \in Rated(t.results) : /\ t.results[j].name = t.best
                                   /\ \A k \in Rated(t.results) : ~BeatsRate(t.results[k], t.results[j])

Sound(t) ==
  /\ t.kind \in {"single", "walk_forward", "multi"}
  /\ t.kind = "single" => Explained(t)
  /\ t.kind = "walk_forward" => CountedOnce(t)
  /\ t.kind = "multi" => Unbeaten(t)

LEMMA SoundTestsAddUp == (\A i \in DOMAIN tests : Sound(tests[i])) => BacktestsAddUp
<1>. SUFFICES ASSUME \A i \in DOMAIN tests : Sound(tests[i]) PROVE BacktestsAddUp
  OBVIOUS
<1>1. RowsExplainTheRun
  BY DEF Sound, Explained, RowsExplainTheRun
<1>2. ValidationCountsOnce
  BY DEF Sound, CountedOnce, ValidationCountsOnce, Offered, Validated
<1>3. BestIsUnbeaten
  BY DEF Sound, Unbeaten, BestIsUnbeaten, Rated
<1>. QED BY <1>1, <1>2, <1>3 DEF BacktestsAddUp

LEMMA OfferedCounts ==
  ASSUME RunsInv, NEW folds
  PROVE  IsFiniteSet(Validated(folds)) /\ Offered(folds) \in Nat
<1>1. IsFiniteSet(Validated(folds)) /\ Validated(folds) \subseteq DOMAIN runs
  <2>1. Validated(folds) \subseteq DOMAIN runs
    BY DEF Validated
  <2>. QED BY <2>1, RunsAreFinite, FS_Subset
<1>2. \A r \in Validated(folds) : Len(runs[r].picks) \in Nat
  <2>1. \A n \in 0 .. TopN : n \in Nat
    BY DailyDecisionsAssumption
  <2>. QED BY <1>1, <2>1 DEF RunsInv
<1>3. PICK f : f = [r \in Validated(folds) |-> Len(runs[r].picks)]
  OBVIOUS
<1>4. SumFunctionOnSet(f, Validated(folds)) \in Nat
  BY <1>1, <1>2, <1>3, SumNat
<1>. QED BY <1>1, <1>2, <1>3, <1>4, SumFunctionIs DEF Offered

\* Later runs can only offer more.
LEMMA OfferedGrows ==
  ASSUME RunsInv, RunsInv', RunsGrow, NEW folds
  PROVE  Offered(folds) \in Nat /\ Offered(folds)' \in Nat /\ Offered(folds) <= Offered(folds)'
<1>1. PICK V, f : V = Validated(folds) /\ f = [r \in V |-> Len(runs[r].picks)]
  OBVIOUS
<1>2. PICK W, g : W = Validated(folds)' /\ g = [r \in W |-> Len(runs'[r].picks)]
  OBVIOUS
<1>3. Offered(folds) = SumFunctionOnSet(f, V) /\ IsFiniteSet(V) /\ Offered(folds) \in Nat
  BY <1>1, OfferedCounts, SumFunctionIs DEF Offered
<1>4. /\ Offered(folds)' = SumFunctionOnSet(g, W) /\ IsFiniteSet(W) /\ Offered(folds)' \in Nat
      /\ \A r \in W : g[r] \in Nat
  <2>1. PICK S : runs' \in Seq(S)
    BY DEF RunsInv
  <2>2. IsFiniteSet(DOMAIN runs')
    <3>1. DOMAIN runs' = 1 .. Len(runs') /\ Len(runs') \in Nat
      BY <2>1
    <3>. QED BY <3>1, FS_Interval
  <2>3. W \subseteq DOMAIN runs'
    BY <1>2 DEF Validated
  <2>4. IsFiniteSet(W)
    BY <2>2, <2>3, FS_Subset
  <2>5. \A r \in W : g[r] \in Nat
    <3>1. \A n \in 0 .. TopN : n \in Nat
      BY DailyDecisionsAssumption
    <3>. QED BY <1>2, <2>3, <3>1 DEF RunsInv
  <2>6. SumFunctionOnSet(g, W) \in Nat
    BY <2>4, <2>5, SumNat
  <2>7. Offered(folds)' = SumFunction(g) /\ DOMAIN g = W
    BY <1>2 DEF Offered
  <2>. QED BY <2>4, <2>5, <2>6, <2>7, SumFunctionIs
<1>5. V \subseteq W /\ \A r \in V : f[r] = g[r]
  BY <1>1, <1>2 DEF Validated, RunsGrow
<1>6. SumFunctionOnSet(f, V) = SumFunctionOnSet(g, V)
  BY <1>3, <1>5, SumSame
<1>7. SumFunctionOnSet(g, V) <= SumFunctionOnSet(g, W)
  BY <1>4, <1>5, SumSubset
<1>. QED BY <1>3, <1>4, <1>6, <1>7

LEMMA SoundTestsStay ==
  ASSUME RunsInv, RunsInv', RunsGrow, NEW t, Sound(t)
  PROVE  Sound(t)'
<1>1. CASE t.kind = "single"
  <2>1. Explained(t)
    BY <1>1 DEF Sound
  <2>2. \A j \in DOMAIN t.rows : /\ t.rows[j].key[1] \in DOMAIN runs'
                                 /\ runs'[t.rows[j].key[1]] = runs[t.rows[j].key[1]]
    BY <2>1 DEF Explained, RunsGrow
  <2>3. Explained(t)'
    BY <2>1, <2>2 DEF Explained
  <2>. QED BY <1>1, <2>3 DEF Sound
<1>2. CASE t.kind = "walk_forward"
  <2>1. CountedOnce(t)
    BY <1>2 DEF Sound
  <2>2. PICK F : F = t.folds
    OBVIOUS
  <2>3. Offered(F) \in Nat /\ Offered(F)' \in Nat /\ Offered(F) <= Offered(F)'
    BY OfferedGrows
  <2>4. t.signals \in Int /\ t.signals <= Offered(F)
    BY <2>1, <2>2 DEF CountedOnce
  <2>5. t.signals <= Offered(F)'
    BY <2>3, <2>4
  <2>6. CountedOnce(t)'
    BY <2>1, <2>2, <2>5 DEF CountedOnce
  <2>. QED BY <1>2, <2>6 DEF Sound
<1>3. CASE t.kind = "multi"
  BY <1>3 DEF Sound, Unbeaten
<1>. QED BY <1>1, <1>2, <1>3 DEF Sound

TestsStand ==
  /\ \E S : tests \in Seq(S)
  /\ \A i \in DOMAIN tests : \A t : t = tests[i] => Sound(t)

\* The comparison under way: strategies to do, and counted results.
DeskInv ==
  /\ desk = [todo |-> desk.todo, from |-> desk.from, to |-> desk.to,
             sectors |-> desk.sectors, results |-> desk.results]
  /\ desk.todo \in Seq(Registry)
  /\ Scored(desk.results)

LEMMA TestsStay ==
  ASSUME RunsInv, RunsInv', RunsGrow, TestsStand, UNCHANGED tests
  PROVE  TestsStand'
<1>1. ASSUME NEW i \in DOMAIN tests', NEW t, t = tests'[i] PROVE Sound(t)'
  <2>1. Sound(t)
    BY <1>1 DEF TestsStand
  <2>. QED BY <2>1, SoundTestsStay
<1>. QED BY <1>1 DEF TestsStand

LEMMA OneMoreTest ==
  ASSUME RunsInv, RunsInv', RunsGrow, TestsStand, NEW t, Sound(t), tests' = Append(tests, t)
  PROVE  TestsStand'
<1>1. PICK S : tests \in Seq(S)
  BY DEF TestsStand
<1>2. tests \in Seq(S \cup {t})
  BY <1>1
<1>3. tests' \in Seq(S \cup {t})
  BY <1>2
<1>4. /\ DOMAIN tests' = DOMAIN tests \cup {Len(tests) + 1} /\ tests'[Len(tests) + 1] = t
      /\ \A i \in DOMAIN tests : tests'[i] = tests[i]
  BY <1>2
<1>5. ASSUME NEW i \in DOMAIN tests', NEW u, u = tests'[i] PROVE Sound(u)'
  <2>1. Sound(u)
    BY <1>4, <1>5 DEF TestsStand
  <2>. QED BY <2>1, SoundTestsStay
<1>. QED BY <1>3, <1>5 DEF TestsStand

LEMMA SingleRunsAreSound ==
  ASSUME RunsInv, BarsInv, ReturnsInv, NEW strategy \in Registry, NEW from, NEW to, NEW limit \in Nat,
         NEW t, t = [kind |-> "single", from |-> from, to |-> to,
                     rows |-> Rows(strategy, from, to, limit),
                     stats |-> Statistics(Rows(strategy, from, to, limit)),
                     regimes |-> RegimeBreakdown(Rows(strategy, from, to, limit))]
  PROVE  Sound(t)
<1>1. PICK these : these = Rows(strategy, from, to, limit)
  OBVIOUS
<1>2. PICK n : Rowed(these, n)
  BY <1>1, RowsAreRowed
<1>3. \A j \in DOMAIN these : these[j].key \in AskedFor(from, to)
  BY <1>1, RowsAreRowed
<1>4. \A j \in DOMAIN these : these[j].key[1] \in DOMAIN runs /\ runs[these[j].key[1]].date \in from..to
  BY <1>3, AskedAreFinite
<1>5. /\ t.kind = "single" /\ t.from = from /\ t.to = to /\ t.rows = these
      /\ t.stats = Statistics(these) /\ t.regimes = RegimeBreakdown(these)
  BY <1>1
<1>6. Len(these) = n
  BY <1>2 DEF Rowed
<1>7. t.stats.buy + t.stats.pass + t.stats.avoid = Len(t.rows)
  BY <1>2, <1>5, <1>6, ActionsPartition
<1>8. /\ SumFunction([g \in DOMAIN t.regimes |-> t.regimes[g].buy]) = t.stats.buy
      /\ SumFunction([g \in DOMAIN t.regimes |-> t.regimes[g].main.wins])
           = Cardinality({j \in DOMAIN t.rows : t.rows[j].action = "BUY" /\ Has(t.rows[j].returns[Main])
                                                 /\ t.rows[j].returns[Main] > 0})
  BY <1>2, <1>5, RegimesPartition
<1>9. t.stats.net.sum = t.stats.horizon[Main].sum - Cost * t.stats.horizon[Main].n
  BY <1>2, <1>5, CostsAreTaken
<1>10. Explained(t)
  BY <1>4, <1>5, <1>7, <1>8, <1>9 DEF Explained
<1>. QED BY <1>5, <1>10 DEF Sound

LEMMA WalksAreSound ==
  ASSUME RunsInv, BarsInv, ReturnsInv, NEW strategy \in Registry, NEW from \in Nat, NEW to \in Nat,
         NEW train \in Nat \ {0}, NEW validate \in Nat \ {0}, NEW gap \in Nat,
         NEW folds, folds = Folds(from, to, train, validate, gap),
         NEW t, t.kind = "walk_forward", t.from = from, t.to = to, t.folds = folds,
         t.signals = Total(strategy, folds, "signals"), t.buy = Total(strategy, folds, "buy"),
         t.pass = Total(strategy, folds, "pass"), t.avoid = Total(strategy, folds, "avoid")
  PROVE  Sound(t)
<1>1. /\ Folded(folds)
      /\ \A x \in folds : \A a \in x.train, b \in x.validate : a < b /\ a >= from /\ b <= to
  BY FoldsAreDisjoint
<1>2. \A x, y \in folds : x # y => x.validate \cap y.validate = {}
  BY <1>1 DEF Folded
<1>3. /\ t.signals = Offered(folds) /\ t.signals = t.buy + t.pass + t.avoid
  BY <1>1, ValidationsCount
<1>4. Offered(folds) \in Nat
  BY OfferedCounts
<1>5. t.signals \in Int /\ t.signals <= Offered(folds)
  BY <1>3, <1>4
<1>6. CountedOnce(t)
  BY <1>1, <1>2, <1>3, <1>5 DEF CountedOnce
<1>. QED BY <1>6 DEF Sound

LEMMA ResultsAreScored ==
  ASSUME RunsInv, BarsInv, ReturnsInv, NEW strategy \in Registry, NEW from, NEW to,
         NEW results, Scored(results),
         NEW result, result.name = strategy, result.stats = Statistics(Rows(strategy, from, to, 0))
  PROVE  Scored(Append(results, result))
<1>1. PICK these, n : these = Rows(strategy, from, to, 0) /\ Rowed(these, n)
  BY RowsAreRowed
<1>2. RateOf(result) = Digest(Returns(these, Acting(these, "BUY"), Main))
  BY <1>1, BacktestsAssumption DEF RateOf, Statistics
<1>3. IsFiniteSet(DOMAIN Returns(these, Acting(these, "BUY"), Main))
  BY <1>1, BuysAreFinite DEF Returns
<1>4. RateOf(result).n \in Nat /\ RateOf(result).wins \in Nat
  BY <1>2, <1>3, DigestCounts
<1>5. PICK S : results \in Seq(S)
  BY DEF Scored
<1>6. results \in Seq(S \cup {result})
  BY <1>5
<1>7. /\ Append(results, result) \in Seq(S \cup {result})
      /\ \A i \in DOMAIN Append(results, result) :
           Append(results, result)[i] = result
           \/ (i \in DOMAIN results /\ Append(results, result)[i] = results[i])
  BY <1>6
<1>. QED BY <1>4, <1>7 DEF Scored

BTInv == TestsStand /\ DeskInv

LEMMA BTInvInit == BTInit => BTInv
<1>. SUFFICES ASSUME BTInit PROVE BTInv
  OBVIOUS
<1>1. tests = <<>> /\ desk = Idle
  BY DEF BTInit
<1>2. TestsStand
  <2>1. tests \in Seq({}) /\ DOMAIN tests = {}
    BY <1>1
  <2>. QED BY <2>1 DEF TestsStand
<1>3. <<>> \in Seq({}) /\ <<>> \in Seq(Registry) /\ DOMAIN <<>> = {}
  OBVIOUS
<1>4. DeskInv
  BY <1>1, <1>3 DEF DeskInv, Idle, Scored
<1>. QED BY <1>2, <1>4 DEF BTInv

LEMMA DailySteps == BTNext \/ UNCHANGED btVars => DDNext \/ UNCHANGED ddVars
<1>1. UNCHANGED dailyVars => UNCHANGED ddVars
  BY DEF dailyVars, ddVars
<1>2. UNCHANGED btVars => UNCHANGED dailyVars
  BY DEF dailyVars, btVars
<1>3. ASSUME BTNext PROVE DDNext \/ UNCHANGED dailyVars
  <2>1. CASE DDNext
    BY <2>1
  <2>2. ASSUME NEW d \in 1..MaxDay, NEW g \in Regimes, RegimeArrives(d, g) PROVE UNCHANGED dailyVars
    BY <2>2 DEF RegimeArrives
  <2>3. ASSUME NEW i \in DOMAIN Strategies, NEW from \in 1..MaxDay, NEW limit \in {0, 1},
               RunBacktest(Strategies[i], from, MaxDay, limit)
        PROVE  UNCHANGED dailyVars
    BY <2>3 DEF RunBacktest
  <2>4. ASSUME NEW t \in Trains, NEW v \in Validates, NEW g \in Gaps, NEW to \in {MaxDay, MaxDay + 2},
               WalkForward(Strategies[1], 1, to, t, v, g)
        PROVE  UNCHANGED dailyVars
    BY <2>4 DEF WalkForward
  <2>5. CASE StartComparison(1, MaxDay) \/ CompareNext \/ FinishComparison
    BY <2>5 DEF StartComparison, CompareNext, FinishComparison
  <2>. QED BY <1>3, <2>1, <2>2, <2>3, <2>4, <2>5 DEF BTNext
<1>. QED BY <1>1, <1>2, <1>3

LEMMA BTInvNext ==
  ASSUME OutcomesStand, ReturnsInv, BTInv, [BTNext]_btVars
  PROVE  BTInv'
<1>. USE DEF BTInv
<1>1. BarsInv /\ FactsInv /\ RunsInv
  BY DEF OutcomesStand
<1>2. DDNext \/ UNCHANGED ddVars
  BY DailySteps
<1>3. BarsInv' /\ FactsInv' /\ RunsInv' /\ RunsGrow
  BY <1>1, <1>2, TablesStep
<1>4. UNCHANGED desk => DeskInv'
  BY DEF DeskInv
<1>5. UNCHANGED tests => TestsStand'
  BY <1>1, <1>3, TestsStay
<1>6. \A t : Sound(t) /\ tests' = Append(tests, t) => TestsStand'
  BY <1>1, <1>3, OneMoreTest
<1>7. CASE UNCHANGED <<tests, desk>>
  BY <1>4, <1>5, <1>7
<1>8. ASSUME NEW d \in 1..MaxDay, NEW g \in Regimes, RegimeArrives(d, g) PROVE UNCHANGED <<tests, desk>>
  BY <1>8 DEF RegimeArrives
<1>9. ASSUME NEW i \in DOMAIN Strategies, NEW from \in 1..MaxDay, NEW limit \in {0, 1},
             RunBacktest(Strategies[i], from, MaxDay, limit)
      PROVE  BTInv'
  <2>1. PICK strategy \in Registry : strategy = Strategies[i]
    BY BacktestsAssumption
  <2>2. PICK t : /\ tests' = Append(tests, t)
                 /\ t = [kind |-> "single", from |-> from, to |-> MaxDay,
                         rows |-> Rows(strategy, from, MaxDay, limit),
                         stats |-> Statistics(Rows(strategy, from, MaxDay, limit)),
                         regimes |-> RegimeBreakdown(Rows(strategy, from, MaxDay, limit))]
    BY <1>9, <2>1 DEF RunBacktest
  <2>3. limit \in Nat
    OBVIOUS
  <2>4. Sound(t)
    BY <1>1, <2>2, <2>3, SingleRunsAreSound
  <2>5. UNCHANGED desk
    BY <1>9 DEF RunBacktest
  <2>. QED BY <1>4, <1>6, <2>2, <2>4, <2>5
<1>10. ASSUME NEW train \in Trains, NEW validate \in Validates, NEW gap \in Gaps,
              NEW to \in {MaxDay, MaxDay + 2},
              WalkForward(Strategies[1], 1, to, train, validate, gap)
       PROVE  BTInv'
  <2>. DEFINE strategy == Strategies[1]
  <2>1. strategy \in Registry
    BY BacktestsAssumption
  <2>2. /\ to \in Nat /\ 1 \in Nat
        /\ train \in Nat \ {0} /\ validate \in Nat \ {0} /\ gap \in Nat
    BY BacktestsAssumption, DailyDecisionsAssumption
  <2>3. PICK folds : folds = Folds(1, to, train, validate, gap)
    OBVIOUS
  <2>4. PICK t : /\ tests' = Append(tests, t)
                 /\ t.kind = "walk_forward" /\ t.from = 1 /\ t.to = to /\ t.folds = folds
                 /\ t.signals = Total(strategy, folds, "signals") /\ t.buy = Total(strategy, folds, "buy")
                 /\ t.pass = Total(strategy, folds, "pass") /\ t.avoid = Total(strategy, folds, "avoid")
    <3>1. PICK rated :
            tests' = Append(tests,
              [kind |-> "walk_forward", from |-> 1, to |-> to, folds |-> folds,
               signals |-> Total(strategy, folds, "signals"), buy |-> Total(strategy, folds, "buy"),
               pass |-> Total(strategy, folds, "pass"), avoid |-> Total(strategy, folds, "avoid"),
               rated |-> rated])
      BY <1>10, <2>3 DEF WalkForward, Total
    <3>. QED BY <3>1
  <2>. HIDE DEF strategy
  <2>5. Sound(t)
    BY <1>1, <2>1, <2>2, <2>3, <2>4, WalksAreSound
  <2>6. UNCHANGED desk
    BY <1>10 DEF WalkForward
  <2>. QED BY <1>4, <1>6, <2>4, <2>5, <2>6
<1>11. CASE StartComparison(1, MaxDay)
  <2>1. /\ UNCHANGED tests
        /\ desk' = [todo |-> Strategies, from |-> 1, to |-> MaxDay,
                    sectors |-> Fetched(1, MaxDay, 0), results |-> <<>>]
    BY <1>11 DEF StartComparison
  <2>2. <<>> \in Seq({}) /\ DOMAIN <<>> = {}
    OBVIOUS
  <2>3. Scored(desk'.results)
    BY <2>1, <2>2 DEF Scored
  <2>4. DeskInv'
    BY <2>1, <2>3, BacktestsAssumption DEF DeskInv, Scored
  <2>. QED BY <1>5, <2>1, <2>4
<1>12. CASE CompareNext
  <2>1. PICK strategy \in Registry : strategy = Head(desk.todo)
    BY <1>12 DEF CompareNext, DeskInv
  <2>2. PICK result : /\ result.name = strategy
                      /\ result.stats = Statistics(Rows(strategy, desk.from, desk.to, 0))
                      /\ desk' = [desk EXCEPT !.todo = Tail(@), !.results = Append(@, result)]
    BY <1>12, <2>1 DEF CompareNext
  <2>3. PICK from, to, results : from = desk.from /\ to = desk.to /\ results = desk.results
    OBVIOUS
  <2>4. Scored(Append(results, result))
    BY <1>1, <2>2, <2>3, ResultsAreScored DEF DeskInv
  <2>5. desk' = [todo |-> Tail(desk.todo), from |-> desk.from, to |-> desk.to,
                 sectors |-> desk.sectors, results |-> Append(desk.results, result)]
    BY <2>2 DEF DeskInv
  <2>6. Tail(desk.todo) \in Seq(Registry)
    BY <1>12 DEF CompareNext, DeskInv
  <2>7. DeskInv'
    BY <2>3, <2>4, <2>5, <2>6 DEF DeskInv, Scored
  <2>8. UNCHANGED tests
    BY <1>12 DEF CompareNext
  <2>. QED BY <1>5, <2>7, <2>8
<1>13. CASE FinishComparison
  <2>1. PICK results : results = desk.results /\ Scored(results)
    BY DEF DeskInv
  <2>2. PICK t : /\ tests' = Append(tests, t)
                 /\ t.kind = "multi" /\ t.best = Best(results) /\ t.results = results
    BY <1>13, <2>1 DEF FinishComparison
  <2>3. Unbeaten(t)
    BY <2>1, <2>2, BestIsTheTop DEF Unbeaten
  <2>4. Sound(t)
    BY <2>2, <2>3 DEF Sound
  <2>5. desk' = Idle
    BY <1>13 DEF FinishComparison
  <2>6. <<>> \in Seq({}) /\ <<>> \in Seq(Registry) /\ DOMAIN <<>> = {}
    OBVIOUS
  <2>7. DeskInv'
    BY <2>5, <2>6 DEF DeskInv, Scored, Idle
  <2>. QED BY <1>6, <2>2, <2>4, <2>7
<1>14. DDNext /\ UNCHANGED <<regimes, tests, desk>> => UNCHANGED <<tests, desk>>
  OBVIOUS
<1>15. UNCHANGED btVars => UNCHANGED <<tests, desk>>
  BY DEF btVars
<1>. HIDE DEF BTInv
<1>. QED BY <1>7, <1>8, <1>9, <1>10, <1>11, <1>12, <1>13, <1>14, <1>15 DEF BTNext

\* A backtest works on the tables of the engines.
LEMMA EnginesGoOn == BTSpec => DDSpec
<1>1. BTInit => DDInit
  BY DEF BTInit
<1>2. [BTNext]_btVars => [DDNext]_ddVars
  BY DailySteps
<1>. QED BY <1>1, <1>2, PTL DEF BTSpec, DDSpec

\* What a stored backtest of any kind claims follows from its own rows:
\* BacktestsAddUp, for every set of symbols, days, horizons, strategies and
\* windows, whatever is committed between the steps of a comparison.
THEOREM BacktestsAlwaysAddUp == BTSpec => []BacktestsAddUp
<1>1. DDSpec => []OutcomesStand
  BY OutcomesAlwaysStand
<1>2. BTInit => ReturnsInv
  BY DEF BTInit, DDInit, ReturnsInv
<1>3. OutcomesStand /\ ReturnsInv /\ [BTNext]_btVars => ReturnsInv'
  BY DailySteps, ReturnsInvStep
<1>4. OutcomesStand /\ ReturnsInv /\ BTInv /\ [BTNext]_btVars => BTInv'
  BY BTInvNext
<1>5. BTInv => BacktestsAddUp
  BY SoundTestsAddUp DEF BTInv, TestsStand
<1>. QED BY <1>1, <1>2, <1>3, <1>4, <1>5, BTInvInit, EnginesGoOn, PTL DEF BTSpec

----
(***************************************************************************)
(* Lists, and what is added to their end.                                  *)
(***************************************************************************)
ListedAlone(s) == s \in Seq(ToSet(s))
Distinct(s) == \A i, j \in DOMAIN s : s[i] = s[j] => i = j
OneKey(s) == \A i, j \in DOMAIN s : s[i].key = s[j].key => i = j
Extends(s, t) == \A i \in DOMAIN s : i \in DOMAIN t /\ t[i] = s[i]

LEMMA Listing ==
  ASSUME NEW s, ListedAlone(s)
  PROVE  /\ Len(s) \in Nat /\ DOMAIN s = 1 .. Len(s)
         /\ \A x \in ToSet(s) : \E i \in DOMAIN s : s[i] = x
         /\ \A i \in DOMAIN s : s[i] \in ToSet(s)
BY DEF ListedAlone, ToSet

LEMMA Joined ==
  ASSUME NEW s, ListedAlone(s), NEW t, ListedAlone(t)
  PROVE  /\ ListedAlone(s \o t) /\ Len(s \o t) = Len(s) + Len(t) /\ Extends(s, s \o t)
         /\ \A i \in DOMAIN t : Len(s) + i \in DOMAIN (s \o t) /\ (s \o t)[Len(s) + i] = t[i]
         /\ ToSet(s \o t) = ToSet(s) \cup ToSet(t)
         /\ \A i \in DOMAIN (s \o t) : i \in DOMAIN s \/ \E j \in DOMAIN t : i = Len(s) + j
<1>. DEFINE A == ToSet(s) \cup ToSet(t)
<1>1. /\ Len(s) \in Nat /\ DOMAIN s = 1 .. Len(s) /\ \A i \in DOMAIN s : s[i] \in ToSet(s)
      /\ Len(t) \in Nat /\ DOMAIN t = 1 .. Len(t) /\ \A i \in DOMAIN t : t[i] \in ToSet(t)
  BY Listing
<1>2. s \in Seq(A) /\ t \in Seq(A)
  <2>. DEFINE B == ToSet(s)
              C == ToSet(t)
  <2>1. s \in Seq(B) /\ t \in Seq(C)
    BY DEF ListedAlone
  <2>2. B \subseteq A /\ C \subseteq A
    OBVIOUS
  <2>. HIDE DEF A, B, C
  <2>. QED BY <2>1, <2>2
<1>. HIDE DEF A
<1>3. /\ s \o t \in Seq(A) /\ Len(s \o t) = Len(s) + Len(t) /\ DOMAIN (s \o t) = 1 .. Len(s) + Len(t)
      /\ \A i \in 1 .. Len(s) : (s \o t)[i] = s[i]
      /\ \A i \in 1 .. Len(t) : (s \o t)[Len(s) + i] = t[i]
  BY <1>2
<1>. DEFINE u == s \o t
<1>4. /\ u \in Seq(A) /\ Len(u) = Len(s) + Len(t) /\ DOMAIN u = 1 .. Len(s) + Len(t)
      /\ \A i \in 1 .. Len(s) : u[i] = s[i]
      /\ \A i \in 1 .. Len(t) : u[Len(s) + i] = t[i]
  BY <1>3
<1>. HIDE DEF u
<1>5. \A i \in DOMAIN u : i \in DOMAIN s \/ \E j \in DOMAIN t : i = Len(s) + j
  <2>. SUFFICES ASSUME NEW i \in DOMAIN u, i \notin DOMAIN s PROVE \E j \in DOMAIN t : i = Len(s) + j
    OBVIOUS
  <2>1. i - Len(s) \in 1 .. Len(t) /\ i = Len(s) + (i - Len(s))
    BY <1>1, <1>4
  <2>. QED BY <1>1, <2>1
<1>6. \A i \in DOMAIN t : Len(s) + i \in DOMAIN u
  BY <1>1, <1>4
<1>7. ToSet(u) = ToSet(s) \cup ToSet(t)
  <2>1. \A i \in DOMAIN u : u[i] \in ToSet(s) \cup ToSet(t)
    BY <1>1, <1>4, <1>5
  <2>2. \A i \in DOMAIN s : s[i] \in ToSet(u)
    BY <1>1, <1>4 DEF ToSet
  <2>3. \A i \in DOMAIN t : t[i] \in ToSet(u)
    BY <1>1, <1>4, <1>6 DEF ToSet
  <2>. QED BY <2>1, <2>2, <2>3 DEF ToSet
<1>8. ListedAlone(u)
  BY <1>4, <1>7 DEF ListedAlone, A
<1>9. Extends(s, u)
  BY <1>1, <1>4 DEF Extends
<1>. QED BY <1>1, <1>4, <1>5, <1>6, <1>7, <1>8, <1>9 DEF u

LEMMA Single == \A x : ListedAlone(<<x>>) /\ ToSet(<<x>>) = {x} /\ Len(<<x>>) = 1 /\ DOMAIN <<x>> = {1} /\ <<x>>[1] = x
<1>. TAKE x
<1>1. DOMAIN <<x>> = {1} /\ Len(<<x>>) = 1 /\ <<x>>[1] = x
  OBVIOUS
<1>2. ToSet(<<x>>) = {x}
  BY <1>1 DEF ToSet
<1>3. <<x>> \in Seq({x})
  OBVIOUS
<1>. QED BY <1>1, <1>2, <1>3 DEF ListedAlone

LEMMA Appending ==
  ASSUME NEW s, ListedAlone(s), NEW x
  PROVE  /\ ListedAlone(Append(s, x)) /\ Len(Append(s, x)) = Len(s) + 1 /\ Extends(s, Append(s, x))
         /\ DOMAIN Append(s, x) = DOMAIN s \cup {Len(s) + 1} /\ Append(s, x)[Len(s) + 1] = x
         /\ ToSet(Append(s, x)) = ToSet(s) \cup {x}
<1>1. ListedAlone(<<x>>) /\ ToSet(<<x>>) = {x} /\ Len(<<x>>) = 1 /\ DOMAIN <<x>> = {1} /\ <<x>>[1] = x
  BY Single
<1>2. Append(s, x) = s \o <<x>>
  <2>. DEFINE A == ToSet(s) \cup {x}
              B == ToSet(s)
  <2>1. s \in Seq(B) /\ B \subseteq A /\ x \in A
    BY DEF ListedAlone
  <2>. HIDE DEF A, B
  <2>2. s \in Seq(A)
    BY <2>1
  <2>. QED BY <2>1, <2>2
<1>. DEFINE t == <<x>>
            u == Append(s, x)
<1>3. u = s \o t /\ ListedAlone(t) /\ ToSet(t) = {x} /\ Len(t) = 1 /\ DOMAIN t = {1} /\ t[1] = x
  BY <1>1, <1>2
<1>4. Len(s) \in Nat /\ DOMAIN s = 1 .. Len(s)
  BY Listing
<1>. HIDE DEF t, u
<1>5. /\ ListedAlone(u) /\ Len(u) = Len(s) + Len(t) /\ Extends(s, u) /\ ToSet(u) = ToSet(s) \cup ToSet(t)
      /\ \A i \in DOMAIN t : Len(s) + i \in DOMAIN u /\ u[Len(s) + i] = t[i]
  BY <1>3, Joined
<1>6. DOMAIN u = 1 .. Len(u)
  BY <1>5, Listing
<1>7. DOMAIN u = DOMAIN s \cup {Len(s) + 1}
  BY <1>3, <1>4, <1>5, <1>6
<1>. QED BY <1>3, <1>5, <1>7 DEF u

\* Rows that are not there yet keep a list free of repetitions.
LEMMA JoinedDistinct ==
  ASSUME NEW s, ListedAlone(s), Distinct(s), NEW t, ListedAlone(t), Distinct(t), ToSet(s) \cap ToSet(t) = {}
  PROVE  Distinct(s \o t)
<1>. DEFINE u == s \o t
<1>1. /\ Extends(s, u)
      /\ \A i \in DOMAIN t : u[Len(s) + i] = t[i]
      /\ \A i \in DOMAIN u : i \in DOMAIN s \/ \E j \in DOMAIN t : i = Len(s) + j
  BY Joined
<1>2. /\ \A i \in DOMAIN s : s[i] \in ToSet(s)
      /\ \A i \in DOMAIN t : t[i] \in ToSet(t)
  BY Listing
<1>. HIDE DEF u
<1>3. SUFFICES ASSUME NEW i \in DOMAIN u, NEW j \in DOMAIN u, u[i] = u[j] PROVE i = j
  BY DEF Distinct, u
<1>4. CASE i \in DOMAIN s /\ j \in DOMAIN s
  BY <1>1, <1>3, <1>4 DEF Distinct, Extends
<1>5. ASSUME NEW p \in DOMAIN s, NEW q \in DOMAIN t, u[p] = u[Len(s) + q] PROVE FALSE
  BY <1>1, <1>2, <1>5 DEF Extends
<1>6. CASE i \notin DOMAIN s /\ j \notin DOMAIN s
  <2>1. PICK p \in DOMAIN t : i = Len(s) + p
    BY <1>1, <1>6
  <2>2. PICK q \in DOMAIN t : j = Len(s) + q
    BY <1>1, <1>6
  <2>3. t[p] = t[q]
    BY <1>1, <1>3, <2>1, <2>2
  <2>. QED BY <2>1, <2>2, <2>3 DEF Distinct
<1>. QED BY <1>1, <1>3, <1>4, <1>5, <1>6

LEMMA CountOfDistinct ==
  ASSUME NEW s, ListedAlone(s), Distinct(s)
  PROVE  Cardinality(ToSet(s)) = Len(s)
<1>1. Len(s) \in Nat /\ DOMAIN s = 1 .. Len(s)
  BY Listing
<1>2. s \in Bijection(1 .. Len(s), ToSet(s))
  <2>1. s \in [1 .. Len(s) -> ToSet(s)]
    BY <1>1 DEF ListedAlone
  <2>2. \A x \in ToSet(s) : \E i \in 1 .. Len(s) : s[i] = x
    BY <1>1 DEF ToSet
  <2>. QED BY <1>1, <2>1, <2>2 DEF Bijection, Injection, Surjection, IsInjective, Distinct
<1>3. ExistsBijection(1 .. Len(s), ToSet(s))
  BY <1>2 DEF ExistsBijection
<1>. QED BY <1>1, <1>3, FS_CountingElements

\* A finite set as a list.
LEMMA SetListed ==
  ASSUME NEW S, IsFiniteSet(S)
  PROVE  ListedAlone(SetToSeq(S)) /\ Distinct(SetToSeq(S)) /\ ToSet(SetToSeq(S)) = S
<1>. DEFINE n == Cardinality(S)
<1>1. n \in Nat /\ ExistsBijection(1 .. n, S)
  BY FS_CardinalityType
<1>3. PICK g : g \in Bijection(1 .. n, S)
  BY <1>1 DEF ExistsBijection
<1>4. g \in [1 .. n -> S] /\ IsInjective(g)
  BY <1>3 DEF Bijection, Injection, IsInjective
<1>. DEFINE s == SetToSeq(S)
<1>5. s \in [1 .. n -> S] /\ IsInjective(s)
  BY <1>4 DEF SetToSeq
<1>6. n \in Nat
  BY <1>1
<1>. HIDE DEF s, n
<1>7. s \in Seq(S) /\ DOMAIN s = 1 .. n /\ Distinct(s)
  BY <1>5, <1>6 DEF Distinct, IsInjective
<1>8. ToSet(s) \subseteq S
  BY <1>5, <1>7 DEF ToSet
<1>9. ToSet(s) = S
  <2>1. ListedAlone(s)
    BY <1>5, <1>6, <1>7 DEF ListedAlone, ToSet
  <2>2. Cardinality(ToSet(s)) = Len(s) /\ Len(s) = n
    BY <1>6, <1>7, <2>1, CountOfDistinct
  <2>3. Cardinality(ToSet(s)) = Cardinality(S)
    BY <2>2 DEF n
  <2>. QED BY <1>8, <2>3, FS_Subset
<1>10. ListedAlone(s)
  BY <1>7, <1>9 DEF ListedAlone
<1>. QED BY <1>7, <1>9, <1>10 DEF s

\* Nothing to list is an empty list.
LEMMA NothingListed ==
  ASSUME NEW s, ListedAlone(s)
  PROVE  s \o SetToSeq({}) = s
<1>1. ListedAlone(SetToSeq({})) /\ ToSet(SetToSeq({})) = {}
  BY FS_EmptySet, SetListed
<1>. DEFINE e == SetToSeq({})
<1>2. Len(e) = 0 /\ e \in Seq(ToSet(s))
  BY <1>1 DEF ListedAlone
<1>. HIDE DEF e
<1>. QED BY <1>2 DEF ListedAlone, e

----
(***************************************************************************)
(* The tables: what every row of a file keeps.                             *)
(***************************************************************************)
TableNames == {"reports", "themes", "mappings", "signals", "earnings", "fundamentals"}
Shaped(T) ==
  /\ T = [reports |-> T.reports, themes |-> T.themes, mappings |-> T.mappings, signals |-> T.signals,
          earnings |-> T.earnings, fundamentals |-> T.fundamentals]
  /\ ListedAlone(T.reports) /\ ListedAlone(T.themes) /\ ListedAlone(T.mappings) /\ ListedAlone(T.signals)
  /\ ListedAlone(T.earnings) /\ ListedAlone(T.fundamentals)
SingleRows(T) ==
  /\ OneKey(T.reports) /\ OneKey(T.earnings) /\ OneKey(T.fundamentals)
  /\ Distinct(T.themes) /\ Distinct(T.mappings) /\ Distinct(T.signals)
RefersToKnown(T) ==
  /\ \A th \in ToSet(T.themes) : KnownReport(T.reports, th[1])
  /\ \A m \in ToSet(T.mappings) : <<m[1], m[2]>> \in ToSet(T.themes)
  /\ \A s \in ToSet(T.signals) :
       /\ KnownReport(T.reports, s.report)
       /\ s.theme # Absent => <<s.report, s.theme>> \in ToSet(T.themes)
Figures(T) == \A i \in DOMAIN T.reports : T.reports[i].day \in Int /\ T.reports[i].target \in Int
Whole(T) == Shaped(T) /\ SingleRows(T) /\ RefersToKnown(T) /\ Figures(T)

\* Rows of a report file are added, and no other table is touched.
Grows(T, U) ==
  /\ Extends(T.reports, U.reports)
  /\ ToSet(T.themes) \subseteq ToSet(U.themes)
  /\ ToSet(T.mappings) \subseteq ToSet(U.mappings)
  /\ ToSet(T.signals) \subseteq ToSet(U.signals)

LEMMA EmptyTables == Whole(NoTables)
<1>1. ToSet(<<>>) = {} /\ ListedAlone(<<>>) /\ DOMAIN <<>> = {}
  BY DEF ToSet, ListedAlone
<1>. QED BY <1>1 DEF Whole, Shaped, SingleRows, RefersToKnown, Figures, NoTables, OneKey, Distinct

LEMMA GrowsFrom == ASSUME NEW T, NEW U, NEW V, Grows(T, U), Grows(U, V) PROVE Grows(T, V)
BY DEF Grows, Extends

LEMMA GrowsSame == \A T : Grows(T, T)
BY DEF Grows, Extends

LEMMA HeldIsMember == \A table, row : Holds(table, row) <=> row \in ToSet(table)
BY DEF Holds, ToSet

LEMMA KnownStays ==
  ASSUME NEW s, NEW t, Extends(s, t), NEW key, KnownReport(s, key)
  PROVE  KnownReport(t, key)
BY DEF Extends, KnownReport

\* One row is added unless it is there.
LEMMA AddedDistinct ==
  ASSUME NEW table, ListedAlone(table), Distinct(table), NEW row
  PROVE  /\ ListedAlone(Added(table, row, Holds(table, row))) /\ Distinct(Added(table, row, Holds(table, row)))
         /\ ToSet(Added(table, row, Holds(table, row))) = ToSet(table) \cup {row}
<1>1. CASE Holds(table, row)
  BY <1>1, HeldIsMember DEF Added
<1>2. CASE ~Holds(table, row)
  <2>1. Added(table, row, Holds(table, row)) = Append(table, row)
    BY <1>2 DEF Added
  <2>2. row \notin ToSet(table)
    BY <1>2, HeldIsMember
  <2>. DEFINE u == Append(table, row)
  <2>3. /\ ListedAlone(u) /\ Extends(table, u) /\ DOMAIN u = DOMAIN table \cup {Len(table) + 1}
        /\ u[Len(table) + 1] = row /\ ToSet(u) = ToSet(table) \cup {row}
    BY Appending
  <2>4. \A i \in DOMAIN table : table[i] \in ToSet(table)
    BY Listing
  <2>. HIDE DEF u
  <2>5. Distinct(u)
    BY <2>2, <2>3, <2>4 DEF Distinct, Extends
  <2>. QED BY <2>1, <2>3, <2>5 DEF u
<1>. QED BY <1>1, <1>2

LEMMA AddedReport ==
  ASSUME NEW table, ListedAlone(table), OneKey(table), NEW row
  PROVE  /\ ListedAlone(Added(table, row, KnownReport(table, row.key)))
         /\ OneKey(Added(table, row, KnownReport(table, row.key)))
         /\ Extends(table, Added(table, row, KnownReport(table, row.key)))
         /\ KnownReport(Added(table, row, KnownReport(table, row.key)), row.key)
         /\ \A i \in DOMAIN Added(table, row, KnownReport(table, row.key)) :
              \/ i \in DOMAIN table
              \/ Added(table, row, KnownReport(table, row.key))[i] = row
<1>1. CASE KnownReport(table, row.key)
  BY <1>1 DEF Added, Extends
<1>2. CASE ~KnownReport(table, row.key)
  <2>1. Added(table, row, KnownReport(table, row.key)) = Append(table, row)
    BY <1>2 DEF Added
  <2>. DEFINE u == Append(table, row)
  <2>2. /\ ListedAlone(u) /\ Extends(table, u) /\ DOMAIN u = DOMAIN table \cup {Len(table) + 1}
        /\ u[Len(table) + 1] = row
    BY Appending
  <2>. HIDE DEF u
  <2>3. \A i \in DOMAIN table : table[i].key # row.key
    BY <1>2 DEF KnownReport
  <2>4. OneKey(u)
    BY <2>2, <2>3 DEF OneKey, Extends
  <2>5. KnownReport(u, row.key)
    BY <2>2 DEF KnownReport
  <2>6. \A i \in DOMAIN u : i \in DOMAIN table \/ u[i] = row
    BY <2>2
  <2>. QED BY <2>1, <2>2, <2>4, <2>5, <2>6 DEF u
<1>. QED BY <1>1, <1>2

\* A list of rows, those that are there left out.
LEMMA AddedAll ==
  ASSUME NEW table, ListedAlone(table), Distinct(table), NEW S, IsFiniteSet(S)
  PROVE  /\ ListedAlone(table \o SetToSeq({m \in S : ~Holds(table, m)}))
         /\ Distinct(table \o SetToSeq({m \in S : ~Holds(table, m)}))
         /\ ToSet(table \o SetToSeq({m \in S : ~Holds(table, m)})) = ToSet(table) \cup S
<1>. DEFINE N == {m \in S : ~Holds(table, m)}
            t == SetToSeq(N)
<1>1. IsFiniteSet(N)
  BY FS_Subset
<1>2. N = S \ ToSet(table)
  BY HeldIsMember
<1>. HIDE DEF N
<1>3. ListedAlone(t) /\ Distinct(t) /\ ToSet(t) = N
  BY <1>1, SetListed
<1>. HIDE DEF t
<1>4. ListedAlone(table \o t) /\ ToSet(table \o t) = ToSet(table) \cup ToSet(t)
  BY <1>3, Joined
<1>5. ToSet(table) \cap ToSet(t) = {}
  BY <1>2, <1>3
<1>6. Distinct(table \o t)
  BY <1>3, <1>5, JoinedDistinct
<1>7. ToSet(table \o t) = ToSet(table) \cup S
  BY <1>2, <1>3, <1>4
<1>. QED BY <1>4, <1>6, <1>7 DEF t, N

----
(***************************************************************************)
(* A row of a report file.                                                 *)
(***************************************************************************)
GetsTo(T, row, stage) == StageNumber(stage) < StageNumber(StopsAt(T, row))
Themed(T, row) == GetsTo(T, row, "theme") /\ row.theme # Absent
ThemeOf(row) == <<row.key, row.theme>>
MappingsOf(row) == {<<row.key, row.theme, symbol>> : symbol \in ToSet(row.related)}

\* The row is in the tables, as far as its fault lets it.
RowIn(T, row) ==
  /\ GetsTo(T, row, "report") => KnownReport(T.reports, row.key)
  /\ Themed(T, row) => ThemeOf(row) \in ToSet(T.themes)
  /\ Themed(T, row) /\ GetsTo(T, row, "mapping") => MappingsOf(row) \subseteq ToSet(T.mappings)
  /\ GetsTo(T, row, "signal") /\ row.signal # Absent => SignalOf(row) \in ToSet(T.signals)

LEMMA StagesInOrder ==
  /\ StageNumber("head") = 1 /\ StageNumber("report") = 2 /\ StageNumber("theme") = 3
  /\ StageNumber("mapping") = 4 /\ StageNumber("signal") = 5 /\ StageNumber("none") = 6
<1>1. DOMAIN Stages = 1 .. 6
  BY DEF Stages
<1>2. /\ Stages[1] = "head" /\ Stages[2] = "report" /\ Stages[3] = "theme"
      /\ Stages[4] = "mapping" /\ Stages[5] = "signal" /\ Stages[6] = "none"
  BY DEF Stages
<1>3. \A i \in 1 .. 6 : i = 1 \/ i = 2 \/ i = 3 \/ i = 4 \/ i = 5 \/ i = 6
  OBVIOUS
<1>4. \A i \in 1 .. 6, j \in 1 .. 6 : Stages[i] = Stages[j] => i = j
  BY <1>2, <1>3
<1>5. \A i \in 1 .. 6 : StageNumber(Stages[i]) = i
  BY <1>1, <1>4 DEF StageNumber
<1>. QED BY <1>2, <1>5

LEMMA StopsSomewhere ==
  ASSUME NEW T, NEW row \in ReportLines
  PROVE  /\ StageNumber(StopsAt(T, row)) \in 1 .. 6
         /\ GetsTo(T, row, "theme") => GetsTo(T, row, "report")
         /\ GetsTo(T, row, "mapping") => GetsTo(T, row, "theme")
         /\ GetsTo(T, row, "signal") => GetsTo(T, row, "theme")
<1>1. ToSet(Stages) = {"head", "report", "theme", "mapping", "signal", "none"}
  <2>1. DOMAIN Stages = {1, 2, 3, 4, 5, 6}
    BY DEF Stages
  <2>2. /\ Stages[1] = "head" /\ Stages[2] = "report" /\ Stages[3] = "theme"
        /\ Stages[4] = "mapping" /\ Stages[5] = "signal" /\ Stages[6] = "none"
    BY DEF Stages
  <2>. QED BY <2>1, <2>2 DEF ToSet
<1>2. row.fault \in {"head", "report", "theme", "mapping", "signal", "none", "database"}
  BY <1>1 DEF ReportLines
<1>3. StopsAt(T, row) \in {"head", "report", "theme", "mapping", "signal", "none"}
  BY <1>2 DEF StopsAt
<1>4. StageNumber(StopsAt(T, row)) \in 1 .. 6
  BY <1>3, StagesInOrder
<1>. QED BY <1>4, StagesInOrder DEF GetsTo

LEMMA RowWritten ==
  ASSUME NEW T, Shaped(T), NEW row
  PROVE  WithReportRow(T, row) =
           [reports |-> IF GetsTo(T, row, "report")
                        THEN Added(T.reports, ReportOf(row), KnownReport(T.reports, row.key)) ELSE T.reports,
            themes |-> IF Themed(T, row)
                       THEN Added(T.themes, ThemeOf(row), KnownTheme(T.themes, ThemeOf(row))) ELSE T.themes,
            mappings |-> IF Themed(T, row) /\ GetsTo(T, row, "mapping")
                         THEN T.mappings \o SetToSeq({m \in MappingsOf(row) : ~KnownMapping(T.mappings, m)})
                         ELSE T.mappings,
            signals |-> IF GetsTo(T, row, "signal") /\ row.signal # Absent
                        THEN Added(T.signals, SignalOf(row), KnownSignal(T.signals, SignalOf(row)))
                        ELSE T.signals,
            earnings |-> T.earnings, fundamentals |-> T.fundamentals]
<1>. DEFINE R == IF GetsTo(T, row, "report")
                 THEN Added(T.reports, ReportOf(row), KnownReport(T.reports, row.key)) ELSE T.reports
            H == IF Themed(T, row)
                 THEN Added(T.themes, ThemeOf(row), KnownTheme(T.themes, ThemeOf(row))) ELSE T.themes
            M == IF Themed(T, row) /\ GetsTo(T, row, "mapping")
                 THEN T.mappings \o SetToSeq({m \in MappingsOf(row) : ~KnownMapping(T.mappings, m)})
                 ELSE T.mappings
            S == IF GetsTo(T, row, "signal") /\ row.signal # Absent
                 THEN Added(T.signals, SignalOf(row), KnownSignal(T.signals, SignalOf(row)))
                 ELSE T.signals
<1>1. WithReportRow(T, row) = [T EXCEPT !.reports = R, !.themes = H, !.mappings = M, !.signals = S]
  BY DEF WithReportRow, GetsTo, Themed, ThemeOf, MappingsOf
<1>. HIDE DEF R, H, M, S
<1>. DEFINE a == T.reports
            b == T.themes
            c == T.mappings
            d == T.signals
            e == T.earnings
            f == T.fundamentals
            all == [reports |-> a, themes |-> b, mappings |-> c, signals |-> d, earnings |-> e,
                    fundamentals |-> f]
<1>2. T = all
  BY DEF Shaped
<1>3. [T EXCEPT !.reports = R, !.themes = H, !.mappings = M, !.signals = S] =
        [reports |-> R, themes |-> H, mappings |-> M, signals |-> S, earnings |-> e, fundamentals |-> f]
  <2>. HIDE DEF a, b, c, d, e, f
  <2>. DEFINE one == [all EXCEPT !.reports = R]
              two == [one EXCEPT !.themes = H]
              three == [two EXCEPT !.mappings = M]
              four == [three EXCEPT !.signals = S]
  <2>2. one = [reports |-> R, themes |-> b, mappings |-> c, signals |-> d, earnings |-> e, fundamentals |-> f]
    OBVIOUS
  <2>. HIDE DEF one
  <2>3. two = [reports |-> R, themes |-> H, mappings |-> c, signals |-> d, earnings |-> e, fundamentals |-> f]
    BY <2>2
  <2>. HIDE DEF two
  <2>4. three = [reports |-> R, themes |-> H, mappings |-> M, signals |-> d, earnings |-> e, fundamentals |-> f]
    BY <2>3
  <2>. HIDE DEF three
  <2>5. four = [reports |-> R, themes |-> H, mappings |-> M, signals |-> S, earnings |-> e, fundamentals |-> f]
    BY <2>4
  <2>. HIDE DEF four
  <2>1. [all EXCEPT !.reports = R, !.themes = H, !.mappings = M, !.signals = S] =
          [reports |-> R, themes |-> H, mappings |-> M, signals |-> S, earnings |-> e, fundamentals |-> f]
    BY <2>5, Zenon DEF one, two, three, four
  <2>. HIDE DEF all
  <2>. QED BY <1>2, <2>1, Zenon
<1>. QED BY <1>1, <1>3 DEF R, H, M, S

LEMMA SameStop ==
  ASSUME NEW T, NEW U, NEW row, row.fault # "report"
  PROVE  \A stage : GetsTo(T, row, stage) <=> GetsTo(U, row, stage)
BY DEF GetsTo, StopsAt

LEMMA RowStaysIn ==
  ASSUME NEW T, NEW U, Grows(T, U), NEW row, row.fault # "report", RowIn(T, row)
  PROVE  RowIn(U, row)
<1>1. \A stage : GetsTo(T, row, stage) <=> GetsTo(U, row, stage)
  BY SameStop
<1>2. KnownReport(T.reports, row.key) => KnownReport(U.reports, row.key)
  BY KnownStays DEF Grows
<1>. QED BY <1>1, <1>2 DEF RowIn, Themed, Grows

LEMMA RelatedFinite ==
  ASSUME NEW row \in ReportLines
  PROVE  IsFiniteSet(MappingsOf(row))
<1>1. row.related \in Seq(STRING)
  BY DEF ReportLines
<1>2. DOMAIN row.related = 1 .. Len(row.related) /\ Len(row.related) \in Nat
  BY <1>1
<1>3. IsFiniteSet(DOMAIN row.related)
  BY <1>2, FS_Interval
<1>. DEFINE f == [i \in DOMAIN row.related |-> <<row.key, row.theme, row.related[i]>>]
<1>4. IsFiniteSet({f[i] : i \in DOMAIN row.related})
  <2>. HIDE DEF f
  <2>. QED BY <1>3, ImageFinite
<1>5. {f[i] : i \in DOMAIN row.related} = MappingsOf(row)
  BY DEF MappingsOf, ToSet
<1>. QED BY <1>4, <1>5

\* What a row of a report file does to tables that are whole.
LEMMA ReportRowKeeps ==
  ASSUME NEW T, Whole(T), NEW row \in ReportLines
  PROVE  /\ Whole(WithReportRow(T, row)) /\ Grows(T, WithReportRow(T, row))
         /\ row.fault # "report" => RowIn(WithReportRow(T, row), row)
         /\ WithReportRow(T, row).earnings = T.earnings
         /\ WithReportRow(T, row).fundamentals = T.fundamentals
<1>. DEFINE U == WithReportRow(T, row)
            mine == MappingsOf(row)
<1>1. Shaped(T) /\ SingleRows(T) /\ RefersToKnown(T) /\ Figures(T)
  BY DEF Whole
<1>2. /\ U = [reports |-> U.reports, themes |-> U.themes, mappings |-> U.mappings, signals |-> U.signals,
              earnings |-> U.earnings, fundamentals |-> U.fundamentals]
      /\ U.reports = IF GetsTo(T, row, "report")
                     THEN Added(T.reports, ReportOf(row), KnownReport(T.reports, row.key)) ELSE T.reports
      /\ U.themes = IF Themed(T, row)
                    THEN Added(T.themes, ThemeOf(row), KnownTheme(T.themes, ThemeOf(row))) ELSE T.themes
      /\ U.mappings = IF Themed(T, row) /\ GetsTo(T, row, "mapping")
                      THEN T.mappings \o SetToSeq({m \in mine : ~KnownMapping(T.mappings, m)})
                      ELSE T.mappings
      /\ U.signals = IF GetsTo(T, row, "signal") /\ row.signal # Absent
                     THEN Added(T.signals, SignalOf(row), KnownSignal(T.signals, SignalOf(row)))
                     ELSE T.signals
      /\ U.earnings = T.earnings /\ U.fundamentals = T.fundamentals
  <2>. DEFINE R == IF GetsTo(T, row, "report")
                   THEN Added(T.reports, ReportOf(row), KnownReport(T.reports, row.key)) ELSE T.reports
              H == IF Themed(T, row)
                   THEN Added(T.themes, ThemeOf(row), KnownTheme(T.themes, ThemeOf(row))) ELSE T.themes
              M == IF Themed(T, row) /\ GetsTo(T, row, "mapping")
                   THEN T.mappings \o SetToSeq({m \in mine : ~KnownMapping(T.mappings, m)})
                   ELSE T.mappings
              S == IF GetsTo(T, row, "signal") /\ row.signal # Absent
                   THEN Added(T.signals, SignalOf(row), KnownSignal(T.signals, SignalOf(row)))
                   ELSE T.signals
  <2>1. U = [reports |-> R, themes |-> H, mappings |-> M, signals |-> S,
             earnings |-> T.earnings, fundamentals |-> T.fundamentals]
    BY <1>1, RowWritten
  <2>. HIDE DEF R, H, M, S, U
  <2>2. /\ U = [reports |-> U.reports, themes |-> U.themes, mappings |-> U.mappings, signals |-> U.signals,
                earnings |-> U.earnings, fundamentals |-> U.fundamentals]
        /\ U.reports = R /\ U.themes = H /\ U.mappings = M /\ U.signals = S
        /\ U.earnings = T.earnings /\ U.fundamentals = T.fundamentals
    BY <2>1
  <2>. QED BY <2>2 DEF R, H, M, S
<1>. HIDE DEF U
<1>3. ReportOf(row).key = row.key /\ ReportOf(row).day \in Int /\ ReportOf(row).target \in Int
  BY DEF ReportOf, ReportLines
<1>4. /\ ListedAlone(U.reports) /\ OneKey(U.reports) /\ Extends(T.reports, U.reports)
      /\ GetsTo(T, row, "report") => KnownReport(U.reports, row.key)
      /\ \A i \in DOMAIN U.reports : i \in DOMAIN T.reports \/ U.reports[i] = ReportOf(row)
  <2>1. ListedAlone(T.reports) /\ OneKey(T.reports)
    BY <1>1 DEF Shaped, SingleRows
  <2>2. CASE GetsTo(T, row, "report")
    <3>. DEFINE added == Added(T.reports, ReportOf(row), KnownReport(T.reports, ReportOf(row).key))
    <3>1. /\ ListedAlone(added) /\ OneKey(added) /\ Extends(T.reports, added)
          /\ KnownReport(added, ReportOf(row).key)
          /\ \A i \in DOMAIN added : i \in DOMAIN T.reports \/ added[i] = ReportOf(row)
      BY <2>1, AddedReport
    <3>2. U.reports = added
      BY <1>2, <1>3, <2>2
    <3>. HIDE DEF added
    <3>. QED BY <1>3, <3>1, <3>2
  <2>3. CASE ~GetsTo(T, row, "report")
    BY <1>2, <2>1, <2>3 DEF Extends
  <2>. QED BY <2>2, <2>3
<1>5. /\ ListedAlone(U.themes) /\ Distinct(U.themes)
      /\ ToSet(U.themes) = ToSet(T.themes) \cup (IF Themed(T, row) THEN {ThemeOf(row)} ELSE {})
  <2>1. ListedAlone(T.themes) /\ Distinct(T.themes)
    BY <1>1 DEF Shaped, SingleRows
  <2>. QED BY <1>2, <2>1, AddedDistinct DEF KnownTheme
<1>6. /\ ListedAlone(U.mappings) /\ Distinct(U.mappings)
      /\ ToSet(U.mappings) = ToSet(T.mappings)
                               \cup (IF Themed(T, row) /\ GetsTo(T, row, "mapping") THEN mine ELSE {})
  <2>1. ListedAlone(T.mappings) /\ Distinct(T.mappings)
    BY <1>1 DEF Shaped, SingleRows
  <2>2. IsFiniteSet(mine)
    BY RelatedFinite
  <2>. HIDE DEF mine
  <2>3. CASE Themed(T, row) /\ GetsTo(T, row, "mapping")
    <3>. DEFINE all == T.mappings \o SetToSeq({m \in mine : ~Holds(T.mappings, m)})
    <3>1. ListedAlone(all) /\ Distinct(all) /\ ToSet(all) = ToSet(T.mappings) \cup mine
      BY <2>1, <2>2, AddedAll
    <3>2. U.mappings = all
      BY <1>2, <2>3 DEF KnownMapping
    <3>. HIDE DEF all
    <3>. QED BY <2>3, <3>1, <3>2
  <2>4. CASE ~(Themed(T, row) /\ GetsTo(T, row, "mapping"))
    BY <1>2, <2>1, <2>4
  <2>. QED BY <2>3, <2>4
<1>7. /\ ListedAlone(U.signals) /\ Distinct(U.signals)
      /\ ToSet(U.signals) = ToSet(T.signals)
           \cup (IF GetsTo(T, row, "signal") /\ row.signal # Absent THEN {SignalOf(row)} ELSE {})
  <2>1. ListedAlone(T.signals) /\ Distinct(T.signals)
    BY <1>1 DEF Shaped, SingleRows
  <2>. QED BY <1>2, <2>1, AddedDistinct DEF KnownSignal
<1>8. Shaped(U)
  <2>1. ListedAlone(U.earnings) /\ ListedAlone(U.fundamentals)
    BY <1>1, <1>2 DEF Shaped
  <2>. QED BY <1>2, <1>4, <1>5, <1>6, <1>7, <2>1 DEF Shaped
<1>9. SingleRows(U)
  <2>1. OneKey(U.earnings) /\ OneKey(U.fundamentals)
    BY <1>1, <1>2 DEF SingleRows
  <2>. QED BY <1>4, <1>5, <1>6, <1>7, <2>1 DEF SingleRows
<1>10. Grows(T, U)
  BY <1>4, <1>5, <1>6, <1>7 DEF Grows
<1>11. /\ GetsTo(T, row, "theme") => GetsTo(T, row, "report")
       /\ GetsTo(T, row, "signal") => GetsTo(T, row, "theme")
  BY StopsSomewhere
<1>12. RefersToKnown(U)
  <2>1. ASSUME NEW th \in ToSet(U.themes) PROVE KnownReport(U.reports, th[1])
    <3>1. CASE th \in ToSet(T.themes)
      <4>1. KnownReport(T.reports, th[1])
        BY <1>1, <3>1 DEF RefersToKnown
      <4>. QED BY <1>4, <4>1, KnownStays
    <3>2. CASE Themed(T, row) /\ th = ThemeOf(row)
      <4>1. th[1] = row.key
        BY <3>2 DEF ThemeOf
      <4>. QED BY <1>4, <1>11, <3>2, <4>1 DEF Themed
    <3>. QED BY <1>5, <2>1, <3>1, <3>2
  <2>2. ASSUME NEW m \in ToSet(U.mappings) PROVE <<m[1], m[2]>> \in ToSet(U.themes)
    <3>1. CASE m \in ToSet(T.mappings)
      BY <1>1, <1>5, <3>1 DEF RefersToKnown
    <3>2. CASE Themed(T, row) /\ m \in mine
      <4>1. <<m[1], m[2]>> = ThemeOf(row)
        BY <3>2 DEF ThemeOf, MappingsOf
      <4>. QED BY <1>5, <3>2, <4>1
    <3>. QED BY <1>6, <2>2, <3>1, <3>2
  <2>3. ASSUME NEW s \in ToSet(U.signals)
        PROVE  /\ KnownReport(U.reports, s.report)
               /\ s.theme # Absent => <<s.report, s.theme>> \in ToSet(U.themes)
    <3>1. CASE s \in ToSet(T.signals)
      <4>1. /\ KnownReport(T.reports, s.report)
            /\ s.theme # Absent => <<s.report, s.theme>> \in ToSet(T.themes)
        BY <1>1, <3>1 DEF RefersToKnown
      <4>2. KnownReport(U.reports, s.report)
        BY <1>4, <4>1, KnownStays
      <4>. QED BY <1>5, <4>1, <4>2
    <3>2. CASE GetsTo(T, row, "signal") /\ s = SignalOf(row)
      <4>1. s.report = row.key /\ s.theme = row.theme
        BY <3>2 DEF SignalOf
      <4>2. s.theme # Absent => <<s.report, s.theme>> = ThemeOf(row) /\ Themed(T, row)
        BY <1>11, <3>2, <4>1 DEF ThemeOf, Themed
      <4>. QED BY <1>4, <1>5, <1>11, <3>2, <4>1, <4>2
    <3>. QED BY <1>7, <2>3, <3>1, <3>2
  <2>. QED BY <2>1, <2>2, <2>3 DEF RefersToKnown
<1>13. Figures(U)
  <2>. SUFFICES ASSUME NEW i \in DOMAIN U.reports
                PROVE  U.reports[i].day \in Int /\ U.reports[i].target \in Int
    BY DEF Figures
  <2>1. CASE i \in DOMAIN T.reports
    BY <1>1, <1>4, <2>1 DEF Figures, Extends
  <2>2. CASE U.reports[i] = ReportOf(row)
    BY <1>3, <2>2
  <2>. QED BY <1>4, <2>1, <2>2
<1>14. ASSUME row.fault # "report" PROVE RowIn(U, row)
  <2>1. \A stage : GetsTo(T, row, stage) <=> GetsTo(U, row, stage)
    BY <1>14, SameStop
  <2>2. Themed(T, row) <=> Themed(U, row)
    BY <2>1 DEF Themed
  <2>. QED BY <1>4, <1>5, <1>6, <1>7, <2>1, <2>2 DEF RowIn
<1>. QED BY <1>2, <1>8, <1>9, <1>10, <1>12, <1>13, <1>14 DEF Whole, U

Counting(c) == c = [inserted |-> c.inserted, updated |-> c.updated, same |-> c.same, errors |-> c.errors]

\* A row that is in the tables adds nothing to them and counts as no insertion.
LEMMA RowInAddsNothing ==
  ASSUME NEW T, Whole(T), NEW row \in ReportLines, RowIn(T, row), NEW c, Counting(c)
  PROVE  /\ WithReportRow(T, row) = T
         /\ Counting(ReportCounts(c, T, row)) /\ ReportCounts(c, T, row).inserted = c.inserted
<1>1. Shaped(T)
  BY DEF Whole
<1>2. GetsTo(T, row, "report") => Added(T.reports, ReportOf(row), KnownReport(T.reports, row.key)) = T.reports
  BY DEF RowIn, Added
<1>3. Themed(T, row) => Added(T.themes, ThemeOf(row), KnownTheme(T.themes, ThemeOf(row))) = T.themes
  BY HeldIsMember DEF RowIn, Added, KnownTheme
<1>4. Themed(T, row) /\ GetsTo(T, row, "mapping") =>
        T.mappings \o SetToSeq({m \in MappingsOf(row) : ~KnownMapping(T.mappings, m)}) = T.mappings
  <2>. SUFFICES ASSUME Themed(T, row), GetsTo(T, row, "mapping")
                PROVE  T.mappings \o SetToSeq({m \in MappingsOf(row) : ~KnownMapping(T.mappings, m)}) = T.mappings
    OBVIOUS
  <2>1. {m \in MappingsOf(row) : ~KnownMapping(T.mappings, m)} = {}
    BY HeldIsMember DEF RowIn, KnownMapping
  <2>2. ListedAlone(T.mappings)
    BY <1>1 DEF Shaped
  <2>. QED BY <2>1, <2>2, NothingListed
<1>5. GetsTo(T, row, "signal") /\ row.signal # Absent =>
        Added(T.signals, SignalOf(row), KnownSignal(T.signals, SignalOf(row))) = T.signals
  BY HeldIsMember DEF RowIn, Added, KnownSignal
<1>6. WithReportRow(T, row) = T
  <2>1. WithReportRow(T, row) =
          [reports |-> T.reports, themes |-> T.themes, mappings |-> T.mappings, signals |-> T.signals,
           earnings |-> T.earnings, fundamentals |-> T.fundamentals]
    BY <1>1, <1>2, <1>3, <1>4, <1>5, RowWritten
  <2>. QED BY <1>1, <2>1 DEF Shaped
<1>7. StageNumber(StopsAt(T, row)) > StageNumber("report") => KnownReport(T.reports, row.key)
  <2>1. StageNumber(StopsAt(T, row)) \in 1 .. 6 /\ StageNumber("report") = 2
    BY StopsSomewhere, StagesInOrder
  <2>. QED BY <2>1 DEF RowIn, GetsTo
<1>8. Counting(ReportCounts(c, T, row)) /\ ReportCounts(c, T, row).inserted = c.inserted
  <2>. DEFINE stop == StageNumber(StopsAt(T, row))
              known == KnownReport(T.reports, row.key)
              inserted == IF stop > StageNumber("report") /\ ~known THEN c.inserted + 1 ELSE c.inserted
              same == IF stop > StageNumber("report") /\ known THEN c.same + 1 ELSE c.same
              errors == IF StopsAt(T, row) # "none" THEN c.errors + 1 ELSE c.errors
  <2>1. ReportCounts(c, T, row) = [c EXCEPT !.inserted = inserted, !.same = same, !.errors = errors]
    BY DEF ReportCounts
  <2>2. inserted = c.inserted
    BY <1>7
  <2>. HIDE DEF inserted, same, errors
  <2>. QED BY <2>1, <2>2 DEF Counting
<1>. QED BY <1>6, <1>8

----
(***************************************************************************)
(* A row of an earnings or a fundamentals file.                            *)
(***************************************************************************)
Metrics == {"earnings", "fundamentals"}

\* What the first n rows of a file come to: every key is there, with the last row of that key.
Later(lines, i, n, key) == \E j \in (i + 1) .. n : lines[j].fault # "head" /\ lines[j].key = key
Latest(table, kind, lines, n) ==
  \A i \in 1 .. n : lines[i].fault # "head" =>
    \E p \in DOMAIN table : /\ table[p].key = lines[i].key
                            /\ Later(lines, i, n, lines[i].key) \/ table[p] = MetricRow(kind, lines[i])

LEMMA Placed ==
  ASSUME NEW table, ListedAlone(table), NEW key
  PROVE  /\ Position(table, key) = 0 <=> \A i \in DOMAIN table : table[i].key # key
         /\ Position(table, key) # 0 => /\ Position(table, key) \in DOMAIN table
                                        /\ table[Position(table, key)].key = key
<1>1. DOMAIN table = 1 .. Len(table) /\ Len(table) \in Nat
  BY Listing
<1>. QED BY <1>1 DEF Position

Overwritten(table, u, row) ==
  \A i \in DOMAIN table : i \in DOMAIN u /\ u[i] = IF table[i].key = row.key THEN row ELSE table[i]

LEMMA PersistedTable ==
  ASSUME NEW table, ListedAlone(table), OneKey(table), NEW row
  PROVE  /\ ListedAlone(Persisted(table, row)) /\ OneKey(Persisted(table, row))
         /\ Overwritten(table, Persisted(table, row), row)
         /\ Holds(Persisted(table, row), row)
         /\ Position(table, row.key) # 0 => DOMAIN Persisted(table, row) = DOMAIN table
<1>. DEFINE at == Position(table, row.key)
            u == Persisted(table, row)
<1>1. DOMAIN table = 1 .. Len(table) /\ Len(table) \in Nat
  BY Listing
<1>2. /\ at = 0 <=> \A i \in DOMAIN table : table[i].key # row.key
      /\ at # 0 => at \in DOMAIN table /\ table[at].key = row.key
  BY Placed
<1>3. u = IF at = 0 THEN Append(table, row) ELSE [table EXCEPT ![at] = row]
  BY DEF Persisted
<1>. HIDE DEF at, u
<1>4. CASE at = 0
  <2>. DEFINE a == Append(table, row)
  <2>1. /\ ListedAlone(a) /\ Extends(table, a) /\ DOMAIN a = DOMAIN table \cup {Len(table) + 1}
        /\ a[Len(table) + 1] = row
    BY Appending
  <2>2. u = a
    BY <1>3, <1>4
  <2>. HIDE DEF a
  <2>3. OneKey(u)
    BY <1>2, <1>4, <2>1, <2>2 DEF OneKey, Extends
  <2>4. \A i \in DOMAIN table : i \in DOMAIN u /\ u[i] = IF table[i].key = row.key THEN row ELSE table[i]
    BY <1>2, <1>4, <2>1, <2>2 DEF Extends
  <2>5. Holds(u, row)
    BY <2>1, <2>2 DEF Holds
  <2>. QED BY <1>4, <2>1, <2>2, <2>3, <2>4, <2>5 DEF u, at, Overwritten
<1>5. CASE at # 0
  <2>1. DOMAIN u = DOMAIN table /\ u[at] = row /\ \A i \in DOMAIN table : i # at => u[i] = table[i]
    BY <1>2, <1>3, <1>5
  <2>2. \A i \in DOMAIN table : table[i].key = row.key <=> i = at
    BY <1>2, <1>5 DEF OneKey
  <2>3. \A i \in DOMAIN table : i \in DOMAIN u /\ u[i] = IF table[i].key = row.key THEN row ELSE table[i]
    BY <2>1, <2>2
  <2>4. OneKey(u)
    <3>1. \A i \in DOMAIN table : u[i].key = table[i].key
      BY <2>3
    <3>. QED BY <2>1, <3>1 DEF OneKey
  <2>5. ListedAlone(u)
    <3>1. u \in Seq(ToSet(u))
      <4>1. u = [i \in 1 .. Len(table) |-> u[i]]
        BY <1>1, <1>3, <1>5, <2>1
      <4>2. \A i \in 1 .. Len(table) : u[i] \in ToSet(u)
        BY <1>1, <2>1 DEF ToSet
      <4>3. u \in [1 .. Len(table) -> ToSet(u)]
        BY <4>1, <4>2
      <4>. QED BY <1>1, <4>3
    <3>. QED BY <3>1 DEF ListedAlone
  <2>6. Holds(u, row)
    BY <1>2, <1>5, <2>1 DEF Holds
  <2>. QED BY <2>1, <2>3, <2>4, <2>5, <2>6 DEF u, Overwritten
<1>. QED BY <1>4, <1>5

LEMMA LatestNext ==
  ASSUME NEW table, ListedAlone(table), OneKey(table), NEW kind, NEW lines, NEW n \in Nat,
         Latest(table, kind, lines, n), lines[n + 1].fault # "head"
  PROVE  Latest(Persisted(table, MetricRow(kind, lines[n + 1])), kind, lines, n + 1)
<1>. DEFINE row == MetricRow(kind, lines[n + 1])
            u == Persisted(table, row)
<1>1. row.key = lines[n + 1].key
  BY DEF MetricRow
<1>2. /\ \A i \in DOMAIN table : i \in DOMAIN u /\ u[i] = IF table[i].key = row.key THEN row ELSE table[i]
      /\ \E p \in DOMAIN u : u[p] = row
  <2>. HIDE DEF row
  <2>1. Overwritten(table, Persisted(table, row), row)
    BY PersistedTable
  <2>2. Holds(Persisted(table, row), row)
    BY PersistedTable
  <2>. QED BY <2>1, <2>2 DEF Holds, Overwritten
<1>. HIDE DEF u
<1>3. SUFFICES ASSUME NEW i \in 1 .. (n + 1), lines[i].fault # "head"
      PROVE  \E p \in DOMAIN u : /\ u[p].key = lines[i].key
                                 /\ Later(lines, i, n + 1, lines[i].key) \/ u[p] = MetricRow(kind, lines[i])
  BY DEF Latest, u
<1>4. CASE i = n + 1
  BY <1>1, <1>2, <1>4
<1>5. CASE i # n + 1
  <2>1. i \in 1 .. n
    BY <1>5
  <2>2. PICK p \in DOMAIN table : /\ table[p].key = lines[i].key
                                  /\ Later(lines, i, n, lines[i].key) \/ table[p] = MetricRow(kind, lines[i])
    BY <1>3, <2>1 DEF Latest
  <2>3. CASE lines[i].key = lines[n + 1].key
    <3>1. n + 1 \in (i + 1) .. (n + 1)
      BY <2>1
    <3>2. Later(lines, i, n + 1, lines[i].key)
      BY <2>3, <3>1 DEF Later
    <3>3. p \in DOMAIN u /\ u[p] = row
      BY <1>1, <1>2, <2>2, <2>3
    <3>. QED BY <1>1, <2>3, <3>2, <3>3
  <2>4. CASE lines[i].key # lines[n + 1].key
    <3>1. p \in DOMAIN u /\ u[p] = table[p]
      BY <1>1, <1>2, <2>2, <2>4
    <3>2. (i + 1) .. n \subseteq (i + 1) .. (n + 1)
      BY <2>1
    <3>3. Later(lines, i, n, lines[i].key) => Later(lines, i, n + 1, lines[i].key)
      BY <3>2 DEF Later
    <3>. QED BY <2>2, <3>1, <3>3
  <2>. QED BY <2>3, <2>4
<1>. QED BY <1>4, <1>5

LEMMA LatestPassesOver ==
  ASSUME NEW table, NEW kind, NEW lines, NEW n \in Nat, Latest(table, kind, lines, n), lines[n + 1].fault = "head"
  PROVE  Latest(table, kind, lines, n + 1)
<1>1. SUFFICES ASSUME NEW i \in 1 .. (n + 1), lines[i].fault # "head"
      PROVE  \E p \in DOMAIN table : /\ table[p].key = lines[i].key
                                     /\ Later(lines, i, n + 1, lines[i].key) \/ table[p] = MetricRow(kind, lines[i])
  BY DEF Latest
<1>2. i \in 1 .. n
  BY <1>1
<1>3. PICK p \in DOMAIN table : /\ table[p].key = lines[i].key
                                /\ Later(lines, i, n, lines[i].key) \/ table[p] = MetricRow(kind, lines[i])
  BY <1>1, <1>2 DEF Latest
<1>4. (i + 1) .. n \subseteq (i + 1) .. (n + 1)
  BY <1>2
<1>5. Later(lines, i, n, lines[i].key) => Later(lines, i, n + 1, lines[i].key)
  BY <1>4 DEF Later
<1>. QED BY <1>3, <1>5

\* A table that is read again, up to row n: what differs is going to be overwritten.
Catching(table, t, lines, n, m) ==
  /\ ListedAlone(t) /\ OneKey(t) /\ DOMAIN t = DOMAIN table
  /\ \A p \in DOMAIN table : /\ t[p].key = table[p].key
                             /\ Later(lines, n, m, table[p].key) \/ t[p] = table[p]

LEMMA CatchesUp ==
  ASSUME NEW table, ListedAlone(table), OneKey(table), NEW kind, NEW lines, NEW m \in Nat, Latest(table, kind, lines, m),
         NEW n \in Nat, n < m, NEW t, Catching(table, t, lines, n, m), lines[n + 1].fault # "head"
  PROVE  /\ Catching(table, Persisted(t, MetricRow(kind, lines[n + 1])), lines, n + 1, m)
         /\ Position(t, lines[n + 1].key) # 0
<1>. DEFINE row == MetricRow(kind, lines[n + 1])
            u == Persisted(t, row)
<1>1. row.key = lines[n + 1].key
  BY DEF MetricRow
<1>2. n + 1 \in 1 .. m
  OBVIOUS
<1>3. PICK q \in DOMAIN table : /\ table[q].key = row.key
                                /\ Later(lines, n + 1, m, row.key) \/ table[q] = row
  <2>. HIDE DEF row
  <2>1. \E p \in DOMAIN table :
          /\ table[p].key = lines[n + 1].key
          /\ Later(lines, n + 1, m, lines[n + 1].key) \/ table[p] = MetricRow(kind, lines[n + 1])
    BY <1>2 DEF Latest
  <2>. QED BY <1>1, <2>1 DEF row
<1>4. /\ ListedAlone(t) /\ OneKey(t) /\ DOMAIN t = DOMAIN table
      /\ \A p \in DOMAIN table : t[p].key = table[p].key
  BY DEF Catching
<1>5. Position(t, row.key) # 0
  <2>. HIDE DEF row
  <2>. QED BY <1>3, <1>4, Placed
<1>6. /\ ListedAlone(u) /\ OneKey(u) /\ DOMAIN u = DOMAIN t
      /\ \A i \in DOMAIN t : u[i] = IF t[i].key = row.key THEN row ELSE t[i]
  <2>. HIDE DEF row
  <2>. QED BY <1>4, <1>5, PersistedTable DEF Overwritten
<1>. HIDE DEF u
<1>7. ASSUME NEW p \in DOMAIN table
      PROVE  u[p].key = table[p].key /\ (Later(lines, n + 1, m, table[p].key) \/ u[p] = table[p])
  <2>1. CASE table[p].key = row.key
    <3>1. p = q
      BY <1>3, <2>1 DEF OneKey
    <3>2. u[p] = row
      BY <1>4, <1>6, <2>1
    <3>. QED BY <1>3, <2>1, <3>1, <3>2
  <2>2. CASE table[p].key # row.key
    <3>1. u[p] = t[p]
      BY <1>4, <1>6, <2>2
    <3>2. Later(lines, n, m, table[p].key) => Later(lines, n + 1, m, table[p].key)
      <4>1. SUFFICES ASSUME NEW j \in (n + 1) .. m, lines[j].fault # "head", lines[j].key = table[p].key
            PROVE Later(lines, n + 1, m, table[p].key)
        BY DEF Later
      <4>2. j # n + 1
        BY <1>1, <2>2, <4>1
      <4>3. j \in (n + 2) .. m /\ n + 2 = (n + 1) + 1
        BY <4>2
      <4>. QED BY <4>1, <4>3 DEF Later
    <3>. QED BY <1>4, <3>1, <3>2 DEF Catching
  <2>. QED BY <2>1, <2>2
<1>8. Catching(table, u, lines, n + 1, m)
  BY <1>4, <1>6, <1>7 DEF Catching
<1>. QED BY <1>1, <1>5, <1>8 DEF u

LEMMA CatchingOn ==
  ASSUME NEW table, NEW lines, NEW m \in Nat, NEW n \in Nat, n < m, NEW t, Catching(table, t, lines, n, m),
         lines[n + 1].fault = "head"
  PROVE  Catching(table, t, lines, n + 1, m)
<1>1. \A key : Later(lines, n, m, key) => Later(lines, n + 1, m, key)
  <2>1. SUFFICES ASSUME NEW key, NEW j \in (n + 1) .. m, lines[j].fault # "head", lines[j].key = key
        PROVE Later(lines, n + 1, m, key)
    BY DEF Later
  <2>2. j \in (n + 2) .. m /\ n + 2 = (n + 1) + 1
    BY <2>1
  <2>. QED BY <2>1, <2>2 DEF Later
<1>. QED BY <1>1 DEF Catching

LEMMA CaughtUp ==
  ASSUME NEW table, ListedAlone(table), NEW lines, NEW m \in Nat, NEW t, Catching(table, t, lines, m, m)
  PROVE  t = table
<1>1. \A p \in DOMAIN table : t[p] = table[p]
  <2>1. \A key : ~Later(lines, m, m, key)
    BY DEF Later
  <2>. QED BY <2>1 DEF Catching
<1>2. ListedAlone(t) /\ DOMAIN t = DOMAIN table
  BY DEF Catching
<1>3. /\ DOMAIN table = 1 .. Len(table) /\ table \in Seq(ToSet(table))
      /\ DOMAIN t = 1 .. Len(t) /\ t \in Seq(ToSet(t))
  BY <1>2, Listing DEF ListedAlone
<1>. QED BY <1>1, <1>2, <1>3

LEMMA BeginsCatching ==
  ASSUME NEW table, ListedAlone(table), OneKey(table), NEW lines, NEW m
  PROVE  Catching(table, table, lines, 0, m)
BY DEF Catching

----
(***************************************************************************)
(* A whole file, row by row.                                               *)
(***************************************************************************)
Starts(T) == [tables |-> T, counts |-> NoCounts]
\* The states that reading n rows of a file goes through.
Readings(file, T, n, r) ==
  /\ r = [k \in 0 .. n |-> r[k]] /\ r[0] = Starts(T)
  /\ \A k \in 1 .. n : r[k] = RowRead(file.kind, r[k - 1], file.rows[k])

LEMMA ReadingsExist ==
  ASSUME NEW file, NEW T, NEW N \in Nat
  PROVE  \E r : Readings(file, T, N, r)
<1>. DEFINE S == {n \in 0 .. N : \E r : Readings(file, T, n, r)}
<1>1. 0 \in S
  <2>. DEFINE r == [k \in 0 .. 0 |-> Starts(T)]
  <2>1. r = [k \in 0 .. 0 |-> r[k]] /\ r[0] = Starts(T) /\ \A k \in 1 .. 0 : FALSE
    OBVIOUS
  <2>2. Readings(file, T, 0, r)
    <3>. HIDE DEF r
    <3>. QED BY <2>1 DEF Readings
  <2>. QED BY <2>2
<1>2. ASSUME NEW n \in 0 .. N - 1, n \in S PROVE n + 1 \in S
  <2>1. PICK r : Readings(file, T, n, r)
    BY <1>2
  <2>. DEFINE next == RowRead(file.kind, r[n], file.rows[n + 1])
              s == [k \in 0 .. n + 1 |-> IF k = n + 1 THEN next ELSE r[k]]
  <2>. HIDE DEF next
  <2>2. /\ s = [k \in 0 .. n + 1 |-> s[k]] /\ s[n + 1] = next
        /\ \A k \in 0 .. n : k \in 0 .. n + 1 /\ s[k] = r[k]
    OBVIOUS
  <2>. HIDE DEF s
  <2>0. n \in Nat /\ 0 \in 0 .. n /\ n \in 0 .. n
    OBVIOUS
  <2>3. s[0] = Starts(T)
    <3>1. r[0] = Starts(T)
      BY <2>1 DEF Readings
    <3>2. s[0] = r[0]
      BY <2>0, <2>2
    <3>. QED BY <3>1, <3>2
  <2>4. ASSUME NEW k \in 1 .. n + 1 PROVE s[k] = RowRead(file.kind, s[k - 1], file.rows[k])
    <3>1. CASE k = n + 1
      <4>1. k - 1 = n /\ s[k - 1] = r[n] /\ s[k] = next
        <5>1. s[n] = r[n]
          BY <2>0, <2>2
        <5>2. k - 1 = n
          BY <2>0, <3>1
        <5>. QED BY <2>2, <3>1, <5>1, <5>2
      <4>. QED BY <3>1, <4>1 DEF next
    <3>2. CASE k # n + 1
      <4>1. k \in 1 .. n /\ k - 1 \in 0 .. n /\ k \in 0 .. n
        BY <3>2
      <4>2. r[k] = RowRead(file.kind, r[k - 1], file.rows[k])
        BY <2>1, <4>1 DEF Readings
      <4>3. s[k] = r[k] /\ s[k - 1] = r[k - 1]
        BY <2>2, <4>1
      <4>. QED BY <4>2, <4>3
    <3>. QED BY <3>1, <3>2
  <2>5. Readings(file, T, n + 1, s)
    BY <2>2, <2>3, <2>4 DEF Readings
  <2>. QED BY <2>5
<1>. HIDE DEF S
<1>3. 0 .. N \subseteq S
  BY <1>1, <1>2, CountsUpwards
<1>4. N \in S
  BY <1>3
<1>. QED BY <1>4 DEF S

LEMMA FileIsRead ==
  ASSUME NEW file, NEW T, Len(file.rows) \in Nat
  PROVE  \E r : Readings(file, T, Len(file.rows), r) /\ FileRead(file, T) = r[Len(file.rows)]
<1>. DEFINE N == Len(file.rows)
            Step(r) == [n \in 0 .. N |-> IF n = 0 THEN [tables |-> T, counts |-> NoCounts]
                                         ELSE RowRead(file.kind, r[n - 1], file.rows[n])]
            seen == CHOOSE r : r = Step(r)
<1>1. PICK r : Readings(file, T, N, r)
  BY ReadingsExist
<1>2. r = Step(r)
  <2>1. DOMAIN r = 0 .. N /\ r = [k \in 0 .. N |-> r[k]]
    BY <1>1 DEF Readings
  <2>2. ASSUME NEW n \in 0 .. N PROVE r[n] = Step(r)[n]
    <3>1. CASE n = 0
      BY <1>1, <3>1 DEF Readings, Starts
    <3>2. CASE n # 0
      <4>1. n \in 1 .. N
        BY <3>2
      <4>. QED BY <1>1, <3>2, <4>1 DEF Readings
    <3>. QED BY <3>1, <3>2
  <2>. QED BY <2>1, <2>2
<1>3. seen = Step(seen)
  <2>. HIDE DEF Step
  <2>. QED BY <1>2
<1>4. FileRead(file, T) = seen[N]
  BY DEF FileRead
<1>. HIDE DEF seen
<1>5. Readings(file, T, N, seen)
  <2>1. DOMAIN seen = 0 .. N /\ seen = [k \in 0 .. N |-> seen[k]]
    BY <1>3
  <2>2. seen[0] = Starts(T)
    BY <1>3 DEF Starts
  <2>3. ASSUME NEW k \in 1 .. N PROVE seen[k] = RowRead(file.kind, seen[k - 1], file.rows[k])
    BY <1>3
  <2>. QED BY <2>1, <2>2, <2>3 DEF Readings
<1>. QED BY <1>4, <1>5

\* What a reading came to keeps its two parts and counts no insertion.
Quiet(seen) ==
  seen = [tables |-> seen.tables, counts |-> seen.counts] /\ Counting(seen.counts) /\ seen.counts.inserted = 0

LEMMA StartsQuietly == \A T : Quiet(Starts(T)) /\ Starts(T).tables = T
BY DEF Quiet, Starts, Counting, NoCounts

\* A report file whose rows are all in the tables adds nothing.
LEMMA AgainAddsNoReports ==
  ASSUME NEW file, file.kind = "reports", file.rows \in Seq(ReportLines), NEW T, Whole(T),
         \A i \in DOMAIN file.rows : RowIn(T, file.rows[i])
  PROVE  FileRead(file, T).tables = T /\ FileRead(file, T).counts.inserted = 0
<1>. DEFINE N == Len(file.rows)
<1>1. N \in Nat /\ DOMAIN file.rows = 1 .. N /\ \A i \in 1 .. N : file.rows[i] \in ReportLines
  OBVIOUS
<1>2. PICK r : Readings(file, T, N, r) /\ FileRead(file, T) = r[N]
  BY <1>1, FileIsRead
<1>. DEFINE S == {n \in 0 .. N : r[n].tables = T /\ Quiet(r[n])}
<1>3. 0 \in S
  <2>1. r[0] = Starts(T) /\ 0 \in 0 .. N
    BY <1>1, <1>2 DEF Readings
  <2>. QED BY <2>1, StartsQuietly
<1>4. ASSUME NEW n \in 0 .. N - 1, n \in S PROVE n + 1 \in S
  <2>1. n + 1 \in 1 .. N /\ n + 1 \in 0 .. N /\ (n + 1) - 1 = n
    BY <1>1
  <2>. DEFINE row == file.rows[n + 1]
  <2>2. row \in ReportLines /\ RowIn(T, row)
    BY <1>1, <2>1
  <2>3. r[n + 1] = RowRead("reports", r[n], row)
    BY <1>2, <2>1 DEF Readings
  <2>. HIDE DEF row
  <2>4. r[n + 1] = [tables |-> WithReportRow(r[n].tables, row),
                    counts |-> ReportCounts(r[n].counts, r[n].tables, row)]
    BY <2>3 DEF RowRead
  <2>5. r[n].tables = T /\ Counting(r[n].counts) /\ r[n].counts.inserted = 0
    BY <1>4 DEF Quiet
  <2>6. /\ WithReportRow(T, row) = T
        /\ Counting(ReportCounts(r[n].counts, T, row))
        /\ ReportCounts(r[n].counts, T, row).inserted = r[n].counts.inserted
    BY <2>2, <2>5, RowInAddsNothing
  <2>7. r[n + 1].tables = T /\ Quiet(r[n + 1])
    BY <2>4, <2>5, <2>6 DEF Quiet
  <2>. QED BY <2>1, <2>7
<1>. HIDE DEF S
<1>5. N \in S
  <2>1. 0 .. N \subseteq S
    BY <1>1, <1>3, <1>4, CountsUpwards
  <2>. QED BY <1>1, <2>1
<1>. QED BY <1>2, <1>5 DEF S, Quiet

\* One table of the metrics is put in the place of another.
WithTable(T, kind, table) ==
  [reports |-> T.reports, themes |-> T.themes, mappings |-> T.mappings, signals |-> T.signals,
   earnings |-> IF kind = "earnings" THEN table ELSE T.earnings,
   fundamentals |-> IF kind = "fundamentals" THEN table ELSE T.fundamentals]
TableOf(T, kind) == IF kind = "earnings" THEN T.earnings ELSE T.fundamentals

LEMMA TableReplaced ==
  ASSUME NEW T, Shaped(T), NEW kind \in Metrics, NEW table
  PROVE  [T EXCEPT ![kind] = table] = WithTable(T, kind, table) /\ T[kind] = TableOf(T, kind)
<1>. DEFINE a == T.reports
            b == T.themes
            c == T.mappings
            d == T.signals
            e == T.earnings
            f == T.fundamentals
<1>1. T = [reports |-> a, themes |-> b, mappings |-> c, signals |-> d, earnings |-> e, fundamentals |-> f]
  BY DEF Shaped
<1>2. kind = "earnings" \/ kind = "fundamentals"
  BY DEF Metrics
<1>3. [T EXCEPT ![kind] = table] =
        [reports |-> a, themes |-> b, mappings |-> c, signals |-> d,
         earnings |-> IF kind = "earnings" THEN table ELSE e,
         fundamentals |-> IF kind = "fundamentals" THEN table ELSE f]
  <2>. HIDE DEF a, b, c, d, e, f
  <2>. QED BY <1>1, <1>2
<1>. QED BY <1>2, <1>3 DEF WithTable, TableOf

LEMMA ReplacedOnce ==
  ASSUME NEW T, Shaped(T), NEW kind \in Metrics, NEW t, ListedAlone(t)
  PROVE  /\ Shaped(WithTable(T, kind, t)) /\ TableOf(WithTable(T, kind, t), kind) = t
         /\ \A u : WithTable(WithTable(T, kind, t), kind, u) = WithTable(T, kind, u)
         /\ WithTable(T, kind, TableOf(T, kind)) = T
BY DEF Shaped, WithTable, TableOf, Metrics

LEMMA MetricRowRead ==
  ASSUME NEW seen, seen = [tables |-> seen.tables, counts |-> seen.counts], Shaped(seen.tables),
         Counting(seen.counts), NEW kind \in Metrics, NEW row
  PROVE  RowRead(kind, seen, row) =
           IF row.fault = "head"
           THEN [tables |-> seen.tables,
                 counts |-> [inserted |-> seen.counts.inserted, updated |-> seen.counts.updated,
                             same |-> seen.counts.same, errors |-> seen.counts.errors + 1]]
           ELSE [tables |-> WithTable(seen.tables, kind,
                                      Persisted(TableOf(seen.tables, kind), MetricRow(kind, row))),
                 counts |-> Counted(seen.counts, TableOf(seen.tables, kind), MetricRow(kind, row))]
<1>1. kind # "reports"
  BY DEF Metrics
<1>2. CASE row.fault = "head"
  <2>1. RowRead(kind, seen, row) = [seen EXCEPT !.counts.errors = @ + 1]
    BY <1>1, <1>2 DEF RowRead
  <2>. QED BY <1>2, <2>1 DEF Counting
<1>3. CASE row.fault # "head"
  <2>. DEFINE T == seen.tables
              u == Persisted(T[kind], MetricRow(kind, row))
  <2>1. RowRead(kind, seen, row) = [tables |-> [T EXCEPT ![kind] = u],
                                    counts |-> Counted(seen.counts, T[kind], MetricRow(kind, row))]
    BY <1>1, <1>3 DEF RowRead
  <2>2. T[kind] = TableOf(T, kind)
    BY TableReplaced
  <2>3. [T EXCEPT ![kind] = u] = WithTable(T, kind, u)
    <3>. HIDE DEF u
    <3>. QED BY TableReplaced
  <2>. QED BY <1>3, <2>1, <2>2, <2>3
<1>. QED BY <1>2, <1>3

\* A row whose key is there is counted as no insertion.
LEMMA NotInserted ==
  ASSUME NEW c, Counting(c), NEW table, NEW row, Position(table, row.key) # 0
  PROVE  Counting(Counted(c, table, row)) /\ Counted(c, table, row).inserted = c.inserted
BY DEF Counting, Counted

\* The last file of a kind, read again, leaves its table as it was.
LEMMA AgainChangesNoMetrics ==
  ASSUME NEW file, file.kind \in Metrics, file.rows \in Seq(MetricLines), NEW T, Shaped(T), SingleRows(T),
         Latest(TableOf(T, file.kind), file.kind, file.rows, Len(file.rows))
  PROVE  FileRead(file, T).tables = T /\ FileRead(file, T).counts.inserted = 0
<1>. DEFINE N == Len(file.rows)
            kind == file.kind
            table == TableOf(T, kind)
            Now(n, seen) == /\ Quiet(seen) /\ Shaped(seen.tables)
                            /\ seen.tables = WithTable(T, kind, TableOf(seen.tables, kind))
                            /\ Catching(table, TableOf(seen.tables, kind), file.rows, n, N)
<1>1. N \in Nat
  OBVIOUS
<1>2. PICK r : Readings(file, T, N, r) /\ FileRead(file, T) = r[N]
  BY <1>1, FileIsRead
<1>3. ListedAlone(table) /\ OneKey(table)
  BY DEF Shaped, SingleRows, TableOf
<1>. DEFINE S == {n \in 0 .. N : Now(n, r[n])}
<1>4. 0 \in S
  <2>1. r[0] = Starts(T) /\ 0 \in 0 .. N
    BY <1>1, <1>2 DEF Readings
  <2>2. Quiet(r[0]) /\ r[0].tables = T
    BY <2>1, StartsQuietly
  <2>3. T = WithTable(T, kind, table)
    BY ReplacedOnce, <1>3
  <2>4. Catching(table, table, file.rows, 0, N)
    BY <1>3, BeginsCatching
  <2>. QED BY <2>1, <2>2, <2>3, <2>4
<1>5. ASSUME NEW n \in 0 .. N - 1, n \in S PROVE n + 1 \in S
  <2>1. n + 1 \in 1 .. N /\ n + 1 \in 0 .. N /\ (n + 1) - 1 = n /\ n \in Nat /\ n < N
    BY <1>1
  <2>. DEFINE row == file.rows[n + 1]
              t == TableOf(r[n].tables, kind)
              u == Persisted(t, MetricRow(kind, row))
  <2>2. r[n + 1] = RowRead(kind, r[n], row)
    BY <1>2, <2>1 DEF Readings
  <2>3. /\ r[n] = [tables |-> r[n].tables, counts |-> r[n].counts] /\ Counting(r[n].counts)
        /\ r[n].counts.inserted = 0 /\ Shaped(r[n].tables)
        /\ r[n].tables = WithTable(T, kind, t) /\ Catching(table, t, file.rows, n, N)
    BY <1>5 DEF Quiet
  <2>4. Latest(table, kind, file.rows, N)
    OBVIOUS
  <2>. HIDE DEF kind, table, N, S, t
  <2>5. kind \in Metrics
    BY DEF kind
  <2>6. CASE row.fault = "head"
    <3>1. r[n + 1] = [tables |-> r[n].tables,
                      counts |-> [inserted |-> r[n].counts.inserted, updated |-> r[n].counts.updated,
                                  same |-> r[n].counts.same, errors |-> r[n].counts.errors + 1]]
      BY <2>2, <2>3, <2>5, <2>6, MetricRowRead
    <3>2. r[n + 1].tables = r[n].tables /\ Quiet(r[n + 1])
      BY <2>3, <3>1 DEF Quiet, Counting
    <3>3. Catching(table, t, file.rows, n + 1, N)
      BY <1>1, <2>1, <2>3, <2>6, CatchingOn
    <3>4. Now(n + 1, r[n + 1])
      BY <2>3, <3>2, <3>3 DEF t
    <3>. QED BY <2>1, <3>4 DEF S
  <2>7. CASE row.fault # "head"
    <3>1. r[n + 1] = [tables |-> WithTable(r[n].tables, kind, u),
                      counts |-> Counted(r[n].counts, t, MetricRow(kind, row))]
      BY <2>2, <2>3, <2>5, <2>7, MetricRowRead DEF t
    <3>2. Catching(table, u, file.rows, n + 1, N) /\ Position(t, row.key) # 0
      BY <1>1, <1>3, <2>1, <2>3, <2>4, <2>7, CatchesUp
    <3>3. MetricRow(kind, row).key = row.key
      BY DEF MetricRow
    <3>4. Quiet(r[n + 1]) /\ r[n + 1].tables = WithTable(r[n].tables, kind, u)
      <4>. DEFINE new == MetricRow(kind, row)
      <4>1. Position(t, new.key) # 0
        BY <3>2, <3>3
      <4>. HIDE DEF new
      <4>2. Counting(Counted(r[n].counts, t, new)) /\ Counted(r[n].counts, t, new).inserted = 0
        BY <2>3, <4>1, NotInserted
      <4>. QED BY <3>1, <4>2 DEF Quiet, new
    <3>. HIDE DEF u
    <3>5. ListedAlone(u) /\ ListedAlone(t)
      BY <2>3, <3>2 DEF Catching
    <3>6. WithTable(r[n].tables, kind, u) = WithTable(T, kind, u)
      BY <2>3, <2>5, <3>5, ReplacedOnce
    <3>7. Shaped(WithTable(T, kind, u)) /\ TableOf(WithTable(T, kind, u), kind) = u
      BY <2>5, <3>5, ReplacedOnce
    <3>8. Now(n + 1, r[n + 1])
      BY <3>2, <3>4, <3>6, <3>7
    <3>. QED BY <2>1, <3>8 DEF S
  <2>. QED BY <2>6, <2>7
<1>6. N \in S
  <2>. HIDE DEF S, N
  <2>1. 0 .. N \subseteq S
    BY <1>1, <1>4, <1>5, CountsUpwards
  <2>. QED BY <1>1, <2>1
<1>7. Quiet(r[N]) /\ r[N].tables = WithTable(T, kind, TableOf(r[N].tables, kind))
      /\ Catching(table, TableOf(r[N].tables, kind), file.rows, N, N)
  BY <1>6
<1>. HIDE DEF table, kind, N
<1>8. TableOf(r[N].tables, kind) = table
  BY <1>1, <1>3, <1>7, CaughtUp
<1>9. WithTable(T, kind, table) = T
  BY <1>3, ReplacedOnce DEF table, kind
<1>. QED BY <1>2, <1>7, <1>8, <1>9 DEF Quiet, N

\* What a row of an earnings or a fundamentals file does to tables that are whole.
LEMMA MetricRowKeeps ==
  ASSUME NEW T, Whole(T), NEW kind \in Metrics, NEW row
  PROVE  /\ Whole(WithTable(T, kind, Persisted(TableOf(T, kind), row)))
         /\ Grows(T, WithTable(T, kind, Persisted(TableOf(T, kind), row)))
<1>. DEFINE table == TableOf(T, kind)
            u == Persisted(table, row)
            U == WithTable(T, kind, u)
<1>1. Shaped(T) /\ SingleRows(T) /\ RefersToKnown(T) /\ Figures(T)
  BY DEF Whole
<1>2. ListedAlone(table) /\ OneKey(table)
  BY <1>1 DEF Shaped, SingleRows, TableOf
<1>. HIDE DEF table
<1>3. ListedAlone(u) /\ OneKey(u)
  BY <1>2, PersistedTable
<1>. HIDE DEF u
<1>4. /\ U.reports = T.reports /\ U.themes = T.themes /\ U.mappings = T.mappings /\ U.signals = T.signals
      /\ U.earnings = IF kind = "earnings" THEN u ELSE T.earnings
      /\ U.fundamentals = IF kind = "fundamentals" THEN u ELSE T.fundamentals
  BY DEF WithTable
<1>5. Shaped(U)
  BY <1>1, <1>3, ReplacedOnce
<1>. HIDE DEF U
<1>6. SingleRows(U)
  BY <1>1, <1>3, <1>4 DEF SingleRows
<1>7. RefersToKnown(U)
  BY <1>1, <1>4 DEF RefersToKnown
<1>8. Figures(U)
  BY <1>1, <1>4 DEF Figures
<1>9. Grows(T, U)
  BY <1>4 DEF Grows, Extends
<1>. QED BY <1>5, <1>6, <1>7, <1>8, <1>9 DEF Whole, U, u, table

LEMMA TablesRead ==
  ASSUME NEW T, Shaped(T), NEW c, NEW row
  PROVE  /\ RowRead("reports", [tables |-> T, counts |-> c], row).tables = WithReportRow(T, row)
         /\ \A kind \in Metrics :
              RowRead(kind, [tables |-> T, counts |-> c], row).tables =
                IF row.fault = "head" THEN T
                ELSE WithTable(T, kind, Persisted(TableOf(T, kind), MetricRow(kind, row)))
<1>. DEFINE seen == [tables |-> T, counts |-> c]
<1>1. RowRead("reports", seen, row).tables = WithReportRow(T, row)
  BY DEF RowRead
<1>2. ASSUME NEW kind \in Metrics
      PROVE  RowRead(kind, seen, row).tables =
               IF row.fault = "head" THEN T
               ELSE WithTable(T, kind, Persisted(TableOf(T, kind), MetricRow(kind, row)))
  <2>1. kind # "reports"
    BY DEF Metrics
  <2>2. CASE row.fault = "head"
    <3>1. RowRead(kind, seen, row) = [seen EXCEPT !.counts.errors = @ + 1]
      BY <2>1, <2>2 DEF RowRead
    <3>. QED BY <2>2, <3>1
  <2>3. CASE row.fault # "head"
    <3>. DEFINE u == Persisted(T[kind], MetricRow(kind, row))
    <3>1. RowRead(kind, seen, row).tables = [T EXCEPT ![kind] = u]
      BY <2>1, <2>3 DEF RowRead
    <3>2. T[kind] = TableOf(T, kind)
      BY TableReplaced
    <3>3. [T EXCEPT ![kind] = u] = WithTable(T, kind, u)
      <4>. HIDE DEF u
      <4>. QED BY TableReplaced
    <3>. QED BY <2>3, <3>1, <3>2, <3>3
  <2>. QED BY <2>2, <2>3
<1>. QED BY <1>1, <1>2

\* What the first n rows of a file have come to.
ReadSoFar(file, T, n) ==
  IF file.kind = "reports" THEN Repeatable(file) => \A i \in 1 .. n : RowIn(T, file.rows[i])
  ELSE Latest(TableOf(T, file.kind), file.kind, file.rows, n)

LEMMA FilesAreFiles ==
  ASSUME NEW file \in Files
  PROVE  /\ Len(file.rows) \in Nat /\ DOMAIN file.rows = 1 .. Len(file.rows)
         /\ file.kind = "reports" \/ file.kind \in Metrics
         /\ file.kind = "reports" => file.rows \in Seq(ReportLines)
         /\ file.kind \in Metrics => file.rows \in Seq(MetricLines) /\ file.kind # "reports"
BY ImportsAssumption DEF Metrics

LEMMA BeginsReading ==
  ASSUME NEW file \in Files, NEW T
  PROVE  ReadSoFar(file, T, 0)
BY DEF ReadSoFar, Latest

LEMMA RowKeeps ==
  ASSUME NEW file \in Files, NEW T, Whole(T), NEW n \in 0 .. Len(file.rows) - 1, ReadSoFar(file, T, n), NEW c
  PROVE  LET U == RowRead(file.kind, [tables |-> T, counts |-> c], file.rows[n + 1]).tables
         IN  Whole(U) /\ Grows(T, U) /\ ReadSoFar(file, U, n + 1)
<1>. DEFINE row == file.rows[n + 1]
            kind == file.kind
            U == RowRead(kind, [tables |-> T, counts |-> c], row).tables
<1>1. Shaped(T) /\ SingleRows(T)
  BY DEF Whole
<1>2. Len(file.rows) \in Nat /\ DOMAIN file.rows = 1 .. Len(file.rows) /\ n \in Nat
      /\ n + 1 \in DOMAIN file.rows
  BY FilesAreFiles
<1>3. CASE kind = "reports"
  <2>1. file.rows \in Seq(ReportLines)
    BY <1>3, FilesAreFiles
  <2>2. row \in ReportLines
    BY <1>2, <2>1
  <2>. HIDE DEF row
  <2>3. U = WithReportRow(T, row)
    BY <1>1, <1>3, TablesRead
  <2>4. /\ Whole(WithReportRow(T, row)) /\ Grows(T, WithReportRow(T, row))
        /\ row.fault # "report" => RowIn(WithReportRow(T, row), row)
    BY <2>2, ReportRowKeeps
  <2>. HIDE DEF U
  <2>5. ASSUME Repeatable(file), NEW i \in 1 .. (n + 1) PROVE RowIn(U, file.rows[i])
    <3>1. i \in DOMAIN file.rows /\ file.rows[i].fault # "report"
      BY <1>2, <2>5 DEF Repeatable
    <3>2. CASE i = n + 1
      BY <2>3, <2>4, <3>1, <3>2 DEF row
    <3>3. CASE i # n + 1
      <4>1. i \in 1 .. n
        BY <1>2, <3>3
      <4>2. RowIn(T, file.rows[i])
        BY <1>3, <2>5, <4>1 DEF ReadSoFar, kind
      <4>. DEFINE old == file.rows[i]
      <4>3. RowIn(T, old) /\ old.fault # "report" /\ Grows(T, U)
        BY <2>3, <2>4, <3>1, <4>2
      <4>. HIDE DEF old
      <4>4. RowIn(U, old)
        BY <4>3, RowStaysIn
      <4>. QED BY <4>4 DEF old
    <3>. QED BY <3>2, <3>3
  <2>6. ReadSoFar(file, U, n + 1)
    BY <1>3, <2>5 DEF ReadSoFar
  <2>. QED BY <2>3, <2>4, <2>6 DEF U, row
<1>4. CASE kind \in Metrics
  <2>0. kind # "reports"
    BY <1>4 DEF Metrics
  <2>. DEFINE table == TableOf(T, kind)
  <2>1. U = IF row.fault = "head" THEN T ELSE WithTable(T, kind, Persisted(table, MetricRow(kind, row)))
    BY <1>1, <1>4, TablesRead
  <2>2. Latest(table, kind, file.rows, n)
    BY <2>0 DEF ReadSoFar
  <2>3. ListedAlone(table) /\ OneKey(table)
    BY <1>1 DEF Shaped, SingleRows, TableOf
  <2>. HIDE DEF kind, U, table
  <2>4. CASE row.fault = "head"
    <3>1. U = T
      BY <2>1, <2>4
    <3>2. Latest(table, kind, file.rows, n + 1)
      BY <1>2, <2>2, <2>4, LatestPassesOver
    <3>3. ReadSoFar(file, U, n + 1)
      BY <2>0, <3>1, <3>2 DEF ReadSoFar, table, kind
    <3>. QED BY <3>1, <3>3, GrowsSame DEF U, kind
  <2>5. CASE row.fault # "head"
    <3>. DEFINE new == MetricRow(kind, row)
                u == Persisted(table, new)
    <3>1. U = WithTable(T, kind, u)
      BY <2>1, <2>5
    <3>2. Latest(u, kind, file.rows, n + 1)
      BY <1>2, <2>2, <2>3, <2>5, LatestNext
    <3>. HIDE DEF new
    <3>3. ListedAlone(u)
      BY <2>3, PersistedTable
    <3>4. Whole(WithTable(T, kind, u)) /\ Grows(T, WithTable(T, kind, u))
      BY <1>4, MetricRowKeeps DEF table
    <3>. HIDE DEF u
    <3>5. TableOf(WithTable(T, kind, u), kind) = u
      BY <1>1, <1>4, <3>3, ReplacedOnce
    <3>6. ReadSoFar(file, U, n + 1)
      BY <2>0, <3>1, <3>2, <3>5 DEF ReadSoFar, kind
    <3>. QED BY <3>1, <3>4, <3>6 DEF U, kind
  <2>. QED BY <2>4, <2>5
<1>. QED BY <1>3, <1>4, FilesAreFiles

----
(***************************************************************************)
(* The consensus of the active reports.                                    *)
(***************************************************************************)
LEMMA HalfEvenWithin ==
  ASSUME NEW n \in Int, NEW m \in Nat, m > 0, NEW a \in Int
  PROVE  /\ HalfEven(n, m) \in Int
         /\ a * m <= n => a <= HalfEven(n, m)
         /\ n <= a * m => HalfEven(n, m) <= a
<1>. DEFINE x == 2 * n + m
            d == 2 * m
            up == x \div d
            h == HalfEven(n, m)
<1>1. x \in Int /\ d \in Int /\ d > 0
  OBVIOUS
<1>2. up \in Int /\ up * d <= x /\ x < up * d + d
  <2>. HIDE DEF x, d
  <2>. QED BY <1>1
<1>3. h = IF x % d = 0 /\ up % 2 = 1 THEN up - 1 ELSE up
  BY DEF HalfEven
<1>4. x % d = 0 => x = up * d
  <2>. HIDE DEF x, d
  <2>. QED BY <1>1
<1>. DEFINE p == a * m
            q == up * m
<1>5. p \in Int /\ q \in Int /\ up * d = 2 * q
  <2>. HIDE DEF up
  <2>. QED BY <1>2
<1>. HIDE DEF up, h
<1>6. x = 2 * n + m /\ d = 2 * m
  OBVIOUS
<1>7. 2 * q <= 2 * n + m /\ 2 * n + m < 2 * q + 2 * m
  BY <1>2, <1>5
<1>8. (p <= q) <=> (a <= up)
  <2>. QED BY <1>2
<1>9. (p + m <= q) <=> (a + 1 <= up)
  <2>1. p + m = (a + 1) * m
    OBVIOUS
  <2>. QED BY <1>2, <2>1
<1>10. (p - m < q) <=> (a - 1 < up)
  <2>1. p - m = (a - 1) * m
    OBVIOUS
  <2>. QED BY <1>2, <2>1
<1>. HIDE DEF x, d, p, q
<1>11. ASSUME p <= n PROVE a <= h
  <2>1. p - m < q
    BY <1>5, <1>7, <1>11
  <2>2. a <= up
    BY <1>2, <1>10, <2>1
  <2>3. CASE x % d = 0 /\ up % 2 = 1
    <3>1. 2 * n + m = 2 * q
      BY <1>4, <1>5, <1>6, <2>3
    <3>2. p < q
      BY <1>5, <1>11, <3>1
    <3>3. a # up
      <4>1. a = up => p = q
        BY DEF p, q
      <4>. QED BY <1>5, <3>2, <4>1
    <3>. QED BY <1>2, <1>3, <2>2, <2>3, <3>3
  <2>4. CASE ~(x % d = 0 /\ up % 2 = 1)
    BY <1>3, <2>2, <2>4
  <2>. QED BY <2>3, <2>4
<1>12. ASSUME n <= p PROVE h <= a
  <2>1. ~(p + m <= q)
    BY <1>5, <1>7, <1>12
  <2>2. up <= a
    BY <1>2, <1>9, <2>1
  <2>. QED BY <1>2, <1>3, <2>2
<1>. QED BY <1>2, <1>3, <1>11, <1>12 DEF p, h

\* A total lies between as many times the lowest and as many times the highest.
LEMMA TotalWithin ==
  ASSUME NEW f, NEW S, IsFiniteSet(S), \A i \in S : f[i] \in Int,
         NEW a \in Int, NEW b \in Int, \A i \in S : a <= f[i] /\ f[i] <= b
  PROVE  /\ SumFunctionOnSet(f, S) \in Int
         /\ a * Cardinality(S) <= SumFunctionOnSet(f, S)
         /\ SumFunctionOnSet(f, S) <= b * Cardinality(S)
<1>. DEFINE low == [i \in S |-> a]
            high == [i \in S |-> b]
            above == [i \in S |-> f[i] - a]
            below == [i \in S |-> b - f[i]]
<1>1. /\ \A i \in S : /\ low[i] \in Int /\ low[i] = a /\ above[i] \in Int /\ above[i] \in Nat
                      /\ f[i] = low[i] + above[i]
      /\ \A i \in S : /\ high[i] \in Int /\ high[i] = b /\ below[i] \in Int /\ below[i] \in Nat
                      /\ high[i] = f[i] + below[i]
  OBVIOUS
<1>. HIDE DEF low, high, above, below
<1>2. SumFunctionOnSet(low, S) = a * Cardinality(S)
  BY <1>1, SumConst
<1>3. SumFunctionOnSet(high, S) = b * Cardinality(S)
  BY <1>1, SumConst
<1>4. SumFunctionOnSet(above, S) \in Nat /\ SumFunctionOnSet(below, S) \in Nat
  BY <1>1, SumNat
<1>5. SumFunctionOnSet(f, S) = SumFunctionOnSet(low, S) + SumFunctionOnSet(above, S)
  BY <1>1, SumPlus
<1>6. SumFunctionOnSet(high, S) = SumFunctionOnSet(f, S) + SumFunctionOnSet(below, S)
  BY <1>1, SumPlus
<1>7. SumFunctionOnSet(f, S) \in Int /\ SumFunctionOnSet(low, S) \in Int
  BY <1>1, SumType
<1>. DEFINE t == SumFunctionOnSet(f, S)
            l == SumFunctionOnSet(low, S)
            h == SumFunctionOnSet(high, S)
            u == SumFunctionOnSet(above, S)
            v == SumFunctionOnSet(below, S)
<1>. HIDE DEF t, l, h, u, v
<1>8. l <= t /\ t <= h
  <2>1. u \in Nat /\ v \in Nat /\ t = l + u /\ h = t + v /\ t \in Int /\ l \in Int
    BY <1>4, <1>5, <1>6, <1>7 DEF t, l, h, u, v
  <2>. QED BY <2>1
<1>. QED BY <1>2, <1>3, <1>7, <1>8 DEF t, l, h

Grades == {"STRONG_BUY", "BUY", "HOLD", "SELL", "STRONG_SELL"}

\* Every report counts under one rating at most.
LEMMA RatingsCountOnce ==
  ASSUME NEW active, IsFiniteSet(active), NEW rating
  PROVE  SumFunction([r \in Grades |-> Cardinality({i \in active : rating[i] = r})]) <= Cardinality(active)
<1>. DEFINE rated == {i \in active : rating[i] \in Grades}
            h == [i \in rated |-> rating[i]]
            counts == [r \in Grades |-> Cardinality({i \in active : rating[i] = r})]
            groups == [r \in Grades |-> Cardinality({i \in rated : h[i] = r})]
<1>1. IsFiniteSet(Grades)
  <2>1. IsFiniteSet({"STRONG_BUY"})
    BY FS_Singleton
  <2>2. IsFiniteSet({"STRONG_BUY"} \cup {"BUY"})
    BY <2>1, FS_AddElement
  <2>3. IsFiniteSet({"STRONG_BUY"} \cup {"BUY"} \cup {"HOLD"})
    BY <2>2, FS_AddElement
  <2>4. IsFiniteSet({"STRONG_BUY"} \cup {"BUY"} \cup {"HOLD"} \cup {"SELL"})
    BY <2>3, FS_AddElement
  <2>5. IsFiniteSet({"STRONG_BUY"} \cup {"BUY"} \cup {"HOLD"} \cup {"SELL"} \cup {"STRONG_SELL"})
    BY <2>4, FS_AddElement
  <2>6. Grades = {"STRONG_BUY"} \cup {"BUY"} \cup {"HOLD"} \cup {"SELL"} \cup {"STRONG_SELL"}
    BY DEF Grades
  <2>. QED BY <2>5, <2>6
<1>2. IsFiniteSet(rated) /\ Cardinality(rated) <= Cardinality(active)
  BY FS_Subset
<1>3. \A r \in Grades : {i \in active : rating[i] = r} = {i \in rated : h[i] = r}
  OBVIOUS
<1>4. counts = groups
  BY <1>3
<1>5. \A i \in rated : h[i] \in Grades
  OBVIOUS
<1>. HIDE DEF h, rated, counts
<1>6. SumFunctionOnSet(groups, Grades) = Cardinality(rated)
  BY <1>1, <1>2, <1>5, SumOfGroups
<1>7. DOMAIN groups = Grades
  OBVIOUS
<1>8. SumFunction(groups) = Cardinality(rated)
  BY <1>6, <1>7 DEF SumFunction
<1>. QED BY <1>2, <1>4, <1>8 DEF counts

LEMMA ActiveIsFinite ==
  ASSUME NEW table, ListedAlone(table), NEW symbol, NEW today
  PROVE  IsFiniteSet(Active(table, symbol, today)) /\ Active(table, symbol, today) \subseteq DOMAIN table
<1>1. Active(table, symbol, today) \subseteq DOMAIN table
  BY DEF Active
<1>2. IsFiniteSet(DOMAIN table)
  BY Listing, FS_Interval
<1>. QED BY <1>1, <1>2, FS_Subset

LEMMA ActiveGrows ==
  ASSUME NEW table, NEW longer, ListedAlone(longer), Extends(table, longer), NEW symbol, NEW today
  PROVE  /\ Active(table, symbol, today) \subseteq Active(longer, symbol, today)
         /\ Cardinality(Active(table, symbol, today)) <= Cardinality(Active(longer, symbol, today))
<1>1. Active(table, symbol, today) \subseteq Active(longer, symbol, today)
  BY DEF Active, Extends
<1>2. IsFiniteSet(Active(longer, symbol, today))
  BY ActiveIsFinite
<1>. QED BY <1>1, <1>2, FS_Subset

\* A consensus row of the reports that were active, for good.
Digests(row, active, today) ==
  /\ row.count \in Nat \ {0} /\ row.count <= Cardinality(active)
  /\ SumFunction(row.ratings) <= row.count
  /\ row.latest \in (today - ConsensusWindow) .. today
  /\ 10000 * row.lowest <= row.average \/ row.lowest = NoFigure
  /\ row.average <= 10000 * row.highest \/ row.highest = NoFigure

LEMMA DigestIsOfReports ==
  ASSUME NEW T, Whole(T), NEW symbol, NEW today, Active(T.reports, symbol, today) # {}
  PROVE  Digests(ConsensusDigest(T.reports, Active(T.reports, symbol, today)),
                 Active(T.reports, symbol, today), today)
<1>. DEFINE table == T.reports
            active == Active(table, symbol, today)
            row == ConsensusDigest(table, active)
            priced == {i \in active : table[i].target # NoFigure}
            price == [i \in priced |-> table[i].target]
            targets == {table[i].target : i \in priced}
            rating == [i \in DOMAIN table |-> table[i].rating]
            days == {table[i].day : i \in active}
<1>1. ListedAlone(table) /\ \A i \in DOMAIN table : table[i].day \in Int /\ table[i].target \in Int
  BY DEF Whole, Shaped, Figures
<1>2. IsFiniteSet(active) /\ active \subseteq DOMAIN table
  <2>. HIDE DEF table
  <2>. QED BY <1>1, ActiveIsFinite
<1>3. \A i \in active : table[i].day \in (today - ConsensusWindow) .. today
  BY DEF Active
<1>4. /\ row.count = Cardinality(active)
      /\ row.ratings = [r \in Grades |-> Cardinality({i \in active : table[i].rating = r})]
      /\ row.latest = Max(days)
      /\ row.lowest = IF priced = {} THEN NoFigure ELSE Min(targets)
      /\ row.highest = IF priced = {} THEN NoFigure ELSE Max(targets)
      /\ row.average = IF priced = {} THEN NoFigure
                       ELSE HalfEven(SumFunction(price) * 10000, Cardinality(priced))
  <2>. HIDE DEF table, active
  <2>. QED BY DEF ConsensusDigest, Grades
<1>5. active # {}
  OBVIOUS
<1>. HIDE DEF table, active, row
<1>6. row.count \in Nat \ {0} /\ row.count <= Cardinality(active)
  <2>1. Cardinality(active) \in Nat /\ Cardinality(active) # 0
    BY <1>2, <1>5, FS_CardinalityType, FS_EmptySet
  <2>. QED BY <1>4, <2>1
<1>7. SumFunction(row.ratings) <= row.count
  <2>1. \A r : {i \in active : table[i].rating = r} = {i \in active : rating[i] = r}
    BY <1>2
  <2>. DEFINE held == [r \in Grades |-> Cardinality({i \in active : table[i].rating = r})]
              counts == [r \in Grades |-> Cardinality({i \in active : rating[i] = r})]
  <2>2. held = counts
    BY <2>1
  <2>3. row.ratings = held /\ row.count = Cardinality(active)
    BY <1>4
  <2>4. SumFunction(counts) <= Cardinality(active)
    <3>. HIDE DEF rating
    <3>. QED BY <1>2, RatingsCountOnce
  <2>. HIDE DEF held, counts
  <2>. QED BY <2>2, <2>3, <2>4
<1>8. row.latest \in (today - ConsensusWindow) .. today
  <2>. DEFINE dayOf == [i \in active |-> table[i].day]
  <2>1. days = {dayOf[i] : i \in active}
    OBVIOUS
  <2>2. IsFiniteSet({dayOf[i] : i \in active})
    <3>. HIDE DEF dayOf
    <3>. QED BY <1>2, ImageFinite
  <2>3. days # {} /\ days \subseteq Int /\ days \subseteq (today - ConsensusWindow) .. today
    BY <1>1, <1>2, <1>3, <1>5
  <2>4. IsFiniteSet(days)
    BY <2>1, <2>2
  <2>. HIDE DEF days
  <2>5. Max(days) \in days
    BY <2>3, <2>4, LargestIsMax
  <2>6. row.latest = Max(days)
    BY <1>4
  <2>. QED BY <2>3, <2>5, <2>6
<1>9. ASSUME priced # {}
      PROVE  10000 * row.lowest <= row.average /\ row.average <= 10000 * row.highest
  <2>. DEFINE n == Cardinality(priced)
              total == SumFunction(price)
              low == Min(targets)
              high == Max(targets)
  <2>1. IsFiniteSet(priced) /\ n \in Nat /\ n > 0
    <3>1. IsFiniteSet(priced)
      BY <1>2, FS_Subset
    <3>2. n \in Nat /\ n # 0
      <4>. HIDE DEF priced
      <4>. QED BY <1>9, <3>1, FS_CardinalityType, FS_EmptySet
    <3>. HIDE DEF n
    <3>. QED BY <3>1, <3>2
  <2>2. targets = {price[i] : i \in priced} /\ DOMAIN price = priced
    OBVIOUS
  <2>3. \A i \in priced : price[i] \in Int /\ price[i] \in targets
    BY <1>1, <1>2
  <2>4. targets # {} /\ targets \subseteq Int
    BY <1>1, <1>2, <1>9
  <2>. HIDE DEF priced, price, targets
  <2>5. IsFiniteSet({price[i] : i \in priced})
    BY <2>1, ImageFinite
  <2>6. low \in targets /\ \A y \in targets : low <= y
    BY <2>2, <2>4, <2>5, SmallestIsMin
  <2>7. high \in targets /\ \A y \in targets : high >= y
    BY <2>2, <2>4, <2>5, LargestIsMax
  <2>8. low \in Int /\ high \in Int /\ \A i \in priced : low <= price[i] /\ price[i] <= high
    BY <2>3, <2>4, <2>6, <2>7
  <2>9. row.average = HalfEven(total * 10000, n) /\ row.lowest = low /\ row.highest = high
    BY <1>4, <1>9
  <2>10. SumFunction(price) = SumFunctionOnSet(price, priced)
    BY <2>2 DEF SumFunction
  <2>. HIDE DEF low, high, n, total
  <2>11. total \in Int /\ low * n <= total /\ total <= high * n
    BY <2>1, <2>3, <2>8, <2>10, TotalWithin DEF n, total
  <2>. DEFINE p == low * n
              q == high * n
  <2>12. (10000 * low) * n = 10000 * p /\ (10000 * high) * n = 10000 * q /\ p \in Int /\ q \in Int
    BY <2>1, <2>8
  <2>13. 10000 * p <= total * 10000 /\ total * 10000 <= 10000 * q
    <3>1. p <= total /\ total <= q /\ p \in Int /\ q \in Int /\ total \in Int
      BY <2>11, <2>12
    <3>. HIDE DEF p, q
    <3>. QED BY <3>1
  <2>. DEFINE a == 10000 * low
              b == 10000 * high
              t == total * 10000
  <2>14. a \in Int /\ b \in Int /\ t \in Int /\ a * n <= t /\ t <= b * n
    BY <2>8, <2>11, <2>12, <2>13
  <2>. HIDE DEF a, b, t
  <2>15. a <= HalfEven(t, n) /\ HalfEven(t, n) <= b
    BY <2>1, <2>14, HalfEvenWithin
  <2>. QED BY <2>9, <2>15 DEF a, b, t
<1>10. priced = {} => row.lowest = NoFigure /\ row.highest = NoFigure
  BY <1>4
<1>. QED BY <1>6, <1>7, <1>8, <1>9, <1>10 DEF Digests, row, active, table

----
(***************************************************************************)
(* Imports and consensus: the invariant, and that every step keeps it.     *)
(***************************************************************************)
ImportShape ==
  importing = [file |-> importing.file, commit |-> importing.commit, done |-> importing.done,
               tables |-> importing.tables, counts |-> importing.counts]
\* The tables of the import under way are whole, grew out of the committed ones and
\* hold the rows done so far.
Underway ==
  Busy => /\ importing.file \in Files /\ importing.done \in 0 .. Len(importing.file.rows)
          /\ Whole(importing.tables) /\ Grows(shelf, importing.tables)
          /\ ReadSoFar(importing.file, importing.tables, importing.done)
\* Report files committed once stay in the tables, any other while it is the last.
FilesKept ==
  \A n \in DOMAIN imported : imported[n].kind = "reports" \/ n = Len(imported)
    => ReadSoFar(imported[n], shelf, Len(imported[n].rows))
DigestsKept ==
  \A k \in DOMAIN digests : Digests(digests[k], Active(shelf.reports, k[1], k[2]), k[2])
ImportsInv ==
  /\ Whole(shelf) /\ ImportShape /\ Underway
  /\ imported \in Seq(Files) /\ FilesKept /\ DigestsKept

LEMMA ImportsBegin == ImportsInit => ImportsInv
<1>. SUFFICES ASSUME ImportsInit PROVE ImportsInv
  OBVIOUS
<1>1. shelf = NoTables /\ importing = NoImport /\ digests = <<>> /\ imported = <<>>
  BY DEF ImportsInit
<1>2. Whole(shelf)
  BY <1>1, EmptyTables
<1>3. ImportShape /\ Underway
  BY <1>1 DEF ImportShape, Underway, Busy, NoImport
<1>4. imported \in Seq(Files) /\ FilesKept /\ DigestsKept
  BY <1>1 DEF FilesKept, DigestsKept
<1>. QED BY <1>2, <1>3, <1>4 DEF ImportsInv

LEMMA FileStaysRead ==
  ASSUME NEW file \in Files, file.kind = "reports", NEW T, NEW U, Grows(T, U),
         ReadSoFar(file, T, Len(file.rows))
  PROVE  ReadSoFar(file, U, Len(file.rows))
<1>1. SUFFICES ASSUME Repeatable(file), NEW i \in 1 .. Len(file.rows) PROVE RowIn(U, file.rows[i])
  BY DEF ReadSoFar
<1>. DEFINE row == file.rows[i]
<1>2. RowIn(T, row)
  BY <1>1 DEF ReadSoFar
<1>3. row.fault # "report"
  BY <1>1, FilesAreFiles DEF Repeatable
<1>. HIDE DEF row
<1>4. RowIn(U, row)
  BY <1>2, <1>3, RowStaysIn
<1>. QED BY <1>4 DEF row

LEMMA DigestStays ==
  ASSUME NEW T, Whole(T), NEW U, Whole(U), Grows(T, U), NEW row, NEW symbol, NEW today,
         Digests(row, Active(T.reports, symbol, today), today)
  PROVE  Digests(row, Active(U.reports, symbol, today), today)
<1>. DEFINE old == Active(T.reports, symbol, today)
            new == Active(U.reports, symbol, today)
<1>1. ListedAlone(T.reports) /\ ListedAlone(U.reports) /\ Extends(T.reports, U.reports)
  BY DEF Whole, Shaped, Grows
<1>2. Cardinality(old) <= Cardinality(new) /\ IsFiniteSet(old) /\ IsFiniteSet(new)
  BY <1>1, ActiveGrows, ActiveIsFinite
<1>3. Cardinality(old) \in Nat /\ Cardinality(new) \in Nat
  BY <1>2, FS_CardinalityType
<1>. HIDE DEF old, new
<1>4. Digests(row, old, today)
  BY DEF old
<1>5. row.count \in Nat \ {0} /\ row.count <= Cardinality(new)
  BY <1>2, <1>3, <1>4 DEF Digests
<1>6. Digests(row, new, today)
  BY <1>4, <1>5 DEF Digests
<1>. QED BY <1>6 DEF new

LEMMA ImportStartKeeps ==
  ASSUME ImportsInv, NEW f \in Files, NEW commit, ImportStart(f, commit)
  PROVE  ImportsInv'
<1>1. /\ importing' = [file |-> f, commit |-> commit, done |-> 0, tables |-> shelf, counts |-> NoCounts]
      /\ shelf' = shelf /\ digests' = digests /\ imported' = imported
  BY DEF ImportStart
<1>2. ImportShape'
  BY <1>1 DEF ImportShape
<1>3. Underway'
  <2>1. 0 \in 0 .. Len(f.rows)
    BY FilesAreFiles
  <2>2. Whole(shelf) /\ Grows(shelf, shelf) /\ ReadSoFar(f, shelf, 0)
    BY GrowsSame, BeginsReading DEF ImportsInv
  <2>3. /\ importing'.file = f /\ importing'.done = 0 /\ importing'.tables = shelf
    BY <1>1
  <2>. QED BY <1>1, <2>1, <2>2, <2>3 DEF Underway
<1>. QED BY <1>1, <1>2, <1>3 DEF ImportsInv, FilesKept, DigestsKept

LEMMA ImportRowKeeps ==
  ASSUME ImportsInv, ImportRow
  PROVE  ImportsInv'
<1>. DEFINE file == importing.file
            T == importing.tables
            c == importing.counts
            n == importing.done
            seen == RowRead(file.kind, [tables |-> T, counts |-> c], file.rows[n + 1])
            U == seen.tables
<1>1. /\ Busy /\ n < Len(file.rows)
      /\ importing' = [importing EXCEPT !.done = n + 1, !.tables = seen.tables, !.counts = seen.counts]
      /\ shelf' = shelf /\ digests' = digests /\ imported' = imported
  BY DEF ImportRow, CurrentRow
<1>2. /\ file \in Files /\ n \in 0 .. Len(file.rows) /\ Whole(T) /\ Grows(shelf, T) /\ ReadSoFar(file, T, n)
      /\ ImportShape
  BY <1>1 DEF ImportsInv, Underway
<1>3. n \in 0 .. Len(file.rows) - 1 /\ n + 1 \in 0 .. Len(file.rows)
  BY <1>1, <1>2, FilesAreFiles
<1>4. Whole(U) /\ Grows(T, U) /\ ReadSoFar(file, U, n + 1)
  <2>. HIDE DEF file, T, c, n
  <2>. QED BY <1>2, <1>3, RowKeeps
<1>. HIDE DEF seen
<1>5. importing' = [file |-> file, commit |-> importing.commit, done |-> n + 1, tables |-> seen.tables,
                    counts |-> seen.counts]
  BY <1>1, <1>2 DEF ImportShape
<1>6. ImportShape'
  BY <1>5 DEF ImportShape
<1>7. Grows(shelf, U)
  BY <1>2, <1>4, GrowsFrom
<1>8. Underway'
  <2>1. importing'.file = file /\ importing'.done = n + 1 /\ importing'.tables = U
    BY <1>5
  <2>. QED BY <1>1, <1>2, <1>3, <1>4, <1>7, <2>1 DEF Underway
<1>. QED BY <1>1, <1>6, <1>8 DEF ImportsInv, FilesKept, DigestsKept

LEMMA ImportEndKeeps ==
  ASSUME ImportsInv, ImportEnd
  PROVE  ImportsInv'
<1>1. Busy /\ importing.done = Len(importing.file.rows) /\ importing' = NoImport /\ digests' = digests
  BY DEF ImportEnd
<1>2. /\ importing.file \in Files /\ Whole(importing.tables) /\ Grows(shelf, importing.tables)
      /\ ReadSoFar(importing.file, importing.tables, Len(importing.file.rows))
  BY <1>1 DEF ImportsInv, Underway
<1>3. ImportShape' /\ Underway'
  BY <1>1 DEF ImportShape, Underway, Busy, NoImport
<1>4. CASE shelf' = shelf /\ imported' = imported
  BY <1>1, <1>3, <1>4 DEF ImportsInv, FilesKept, DigestsKept
<1>5. CASE shelf' = importing.tables /\ imported' = Append(imported, importing.file)
  <2>. DEFINE file == importing.file
              last == Len(imported) + 1
              list == Append(imported, file)
  <2>1. imported \in Seq(Files) /\ Whole(shelf)
    BY DEF ImportsInv
  <2>2. list \in Seq(Files) /\ Len(list) = last /\ DOMAIN list = DOMAIN imported \cup {last}
        /\ list[last] = file /\ \A n \in DOMAIN imported : list[n] = imported[n] /\ n # last
    BY <1>2, <2>1
  <2>. HIDE DEF list
  <2>3. ASSUME NEW n \in DOMAIN list, list[n].kind = "reports" \/ n = last
        PROVE  ReadSoFar(list[n], shelf', Len(list[n].rows))
    <3>1. CASE n = last
      BY <1>2, <1>5, <2>2, <3>1
    <3>2. CASE n # last
      <4>1. n \in DOMAIN imported /\ list[n] = imported[n] /\ list[n].kind = "reports"
        BY <2>2, <2>3, <3>2
      <4>. DEFINE old == list[n]
      <4>2. ReadSoFar(old, shelf, Len(old.rows)) /\ old.kind = "reports" /\ old \in Files
        BY <2>1, <4>1 DEF ImportsInv, FilesKept
      <4>. HIDE DEF old
      <4>3. ReadSoFar(old, importing.tables, Len(old.rows))
        BY <1>2, <4>2, FileStaysRead
      <4>. QED BY <1>5, <4>3 DEF old
    <3>. QED BY <3>1, <3>2
  <2>4. FilesKept'
    <3>1. imported' = list
      BY <1>5 DEF list
    <3>. HIDE DEF last
    <3>. QED BY <2>2, <2>3, <3>1 DEF FilesKept
  <2>5. DigestsKept'
    <3>1. SUFFICES ASSUME NEW k \in DOMAIN digests
          PROVE  Digests(digests[k], Active(importing.tables.reports, k[1], k[2]), k[2])
      BY <1>1, <1>5 DEF DigestsKept
    <3>2. Digests(digests[k], Active(shelf.reports, k[1], k[2]), k[2])
      BY DEF ImportsInv, DigestsKept
    <3>. QED BY <1>2, <2>1, <3>2, DigestStays
  <2>6. Whole(shelf') /\ imported' \in Seq(Files)
    BY <1>2, <1>5, <2>2 DEF list
  <2>. QED BY <1>3, <2>4, <2>5, <2>6 DEF ImportsInv
<1>. QED BY <1>4, <1>5 DEF ImportEnd

LEMMA ConsensusKeeps ==
  ASSUME ImportsInv, ConsensusJob
  PROVE  ImportsInv'
<1>. DEFINE fresh == {s \in SymbolsOf(shelf.reports) : Active(shelf.reports, s, date) # {}}
            written == [k \in fresh \X {date} |-> ConsensusDigest(shelf.reports, Active(shelf.reports, k[1], date))]
<1>1. /\ digests' = [k \in DOMAIN written \cup DOMAIN digests |->
                       IF k \in DOMAIN written THEN written[k] ELSE digests[k]]
      /\ shelf' = shelf /\ importing' = importing /\ imported' = imported
  BY DEF ConsensusJob
<1>2. Whole(shelf) /\ DigestsKept
  BY DEF ImportsInv
<1>3. DOMAIN written = fresh \X {date}
  OBVIOUS
<1>4. ASSUME NEW k \in fresh \X {date}
      PROVE  Digests(written[k], Active(shelf.reports, k[1], k[2]), k[2])
  <2>1. k[1] \in fresh /\ k[2] = date
    OBVIOUS
  <2>2. Active(shelf.reports, k[1], date) # {}
    BY <2>1
  <2>3. Digests(ConsensusDigest(shelf.reports, Active(shelf.reports, k[1], date)),
                Active(shelf.reports, k[1], date), date)
    BY <1>2, <2>2, DigestIsOfReports
  <2>4. written[k] = ConsensusDigest(shelf.reports, Active(shelf.reports, k[1], date))
    OBVIOUS
  <2>. HIDE DEF written, fresh
  <2>. QED BY <2>1, <2>3, <2>4
<1>. HIDE DEF written, fresh
<1>5. DigestsKept'
  <2>1. SUFFICES ASSUME NEW k \in DOMAIN digests'
        PROVE  Digests(digests'[k], Active(shelf.reports, k[1], k[2]), k[2])
    BY <1>1 DEF DigestsKept
  <2>2. CASE k \in DOMAIN written
    <3>1. digests'[k] = written[k]
      BY <1>1, <2>2
    <3>. QED BY <1>3, <1>4, <2>2, <3>1
  <2>3. CASE k \notin DOMAIN written
    <3>1. k \in DOMAIN digests /\ digests'[k] = digests[k]
      BY <1>1, <2>1, <2>3
    <3>. QED BY <1>2, <3>1 DEF DigestsKept
  <2>. QED BY <2>2, <2>3
<1>6. ImportShape' /\ Underway' /\ FilesKept'
  BY <1>1 DEF ImportsInv, ImportShape, Underway, Busy, FilesKept
<1>. QED BY <1>1, <1>5, <1>6 DEF ImportsInv

LEMMA ImportsStep == ImportsInv /\ [ImportsNext]_importVars => ImportsInv'
<1>. SUFFICES ASSUME ImportsInv, [ImportsNext]_importVars PROVE ImportsInv'
  OBVIOUS
<1>1. CASE \E f \in Files, commit \in BOOLEAN : ImportStart(f, commit)
  BY <1>1, ImportStartKeeps
<1>2. CASE ImportRow
  BY <1>2, ImportRowKeeps
<1>3. CASE ImportEnd
  BY <1>3, ImportEndKeeps
<1>4. CASE ImportAborts
  <2>1. importing' = NoImport /\ shelf' = shelf /\ digests' = digests /\ imported' = imported
    BY <1>4 DEF ImportAborts
  <2>2. ImportShape' /\ Underway'
    BY <2>1 DEF ImportShape, Underway, Busy, NoImport
  <2>. QED BY <2>1, <2>2 DEF ImportsInv, FilesKept, DigestsKept
<1>5. CASE ConsensusJob
  BY <1>5, ConsensusKeeps
<1>6. CASE NextDate \/ UNCHANGED importVars
  <2>1. importing' = importing /\ shelf' = shelf /\ digests' = digests /\ imported' = imported
    BY <1>6 DEF NextDate, importVars
  <2>. QED BY <2>1 DEF ImportsInv, ImportShape, Underway, Busy, FilesKept, DigestsKept
<1>. QED BY <1>1, <1>2, <1>3, <1>4, <1>5, <1>6 DEF ImportsNext

LEMMA KeysAreSingle == ImportsInv => KeysStaySingle
<1>. SUFFICES ASSUME ImportsInv PROVE KeysStaySingle
  OBVIOUS
<1>1. Shaped(shelf) /\ SingleRows(shelf) /\ RefersToKnown(shelf)
  BY DEF ImportsInv, Whole
<1>2. \A t \in {"reports", "earnings", "fundamentals"} :
        \A i, j \in DOMAIN shelf[t] : shelf[t][i].key = shelf[t][j].key => i = j
  BY <1>1 DEF SingleRows, OneKey
<1>3. \A t \in {"themes", "mappings", "signals"} : Cardinality(ToSet(shelf[t])) = Len(shelf[t])
  <2>1. \A t \in {"themes", "mappings", "signals"} : ListedAlone(shelf[t]) /\ Distinct(shelf[t])
    BY <1>1 DEF Shaped, SingleRows
  <2>. QED BY <2>1, CountOfDistinct
<1>. QED BY <1>1, <1>2, <1>3 DEF KeysStaySingle, RefersToKnown

LEMMA AgainAddsNothing == ImportsInv => ReimportAddsNothing
<1>. SUFFICES ASSUME ImportsInv, NEW n \in DOMAIN imported, Repeatable(imported[n]),
                     imported[n].kind = "reports" \/ n = Len(imported)
              PROVE  FileRead(imported[n], shelf).tables = shelf
                     /\ FileRead(imported[n], shelf).counts.inserted = 0
  BY DEF ReimportAddsNothing
<1>. DEFINE file == imported[n]
<1>1. /\ file \in Files /\ ReadSoFar(file, shelf, Len(file.rows)) /\ Repeatable(file)
  BY DEF ImportsInv, FilesKept
<1>2. Whole(shelf) /\ Shaped(shelf) /\ SingleRows(shelf)
  BY DEF ImportsInv, Whole
<1>. HIDE DEF file
<1>3. CASE file.kind = "reports"
  <2>1. file.rows \in Seq(ReportLines) /\ DOMAIN file.rows = 1 .. Len(file.rows)
    BY <1>1, <1>3, FilesAreFiles
  <2>2. \A i \in DOMAIN file.rows : RowIn(shelf, file.rows[i])
    BY <1>1, <1>3, <2>1 DEF ReadSoFar
  <2>3. FileRead(file, shelf).tables = shelf /\ FileRead(file, shelf).counts.inserted = 0
    BY <1>2, <1>3, <2>1, <2>2, AgainAddsNoReports
  <2>. QED BY <2>3 DEF file
<1>4. CASE file.kind \in Metrics
  <2>1. file.rows \in Seq(MetricLines) /\ file.kind # "reports"
    BY <1>1, <1>4, FilesAreFiles
  <2>2. Latest(TableOf(shelf, file.kind), file.kind, file.rows, Len(file.rows))
    BY <1>1, <2>1 DEF ReadSoFar
  <2>3. FileRead(file, shelf).tables = shelf /\ FileRead(file, shelf).counts.inserted = 0
    BY <1>2, <1>4, <2>1, <2>2, AgainChangesNoMetrics
  <2>. QED BY <2>3 DEF file
<1>. QED BY <1>1, <1>3, <1>4, FilesAreFiles

LEMMA DigestsAreOfReports == ImportsInv => ConsensusIsOfReports
<1>. SUFFICES ASSUME ImportsInv, NEW k \in DOMAIN digests
              PROVE  LET row == digests[k]
                         active == Active(shelf.reports, k[1], k[2])
                     IN  /\ row.count \in 1..Cardinality(active)
                         /\ SumFunction(row.ratings) <= row.count
                         /\ row.latest \in (k[2] - ConsensusWindow)..k[2]
                         /\ 10000 * row.lowest <= row.average \/ row.lowest = NoFigure
                         /\ row.average <= 10000 * row.highest \/ row.highest = NoFigure
  BY DEF ConsensusIsOfReports
<1>. DEFINE row == digests[k]
            active == Active(shelf.reports, k[1], k[2])
<1>1. Digests(row, active, k[2])
  BY DEF ImportsInv, DigestsKept
<1>2. IsFiniteSet(active)
  BY ActiveIsFinite DEF ImportsInv, Whole, Shaped
<1>3. Cardinality(active) \in Nat
  BY <1>2, FS_CardinalityType
<1>. HIDE DEF row, active
<1>4. row.count \in 1..Cardinality(active)
  BY <1>1, <1>3 DEF Digests
<1>. QED BY <1>1, <1>4 DEF Digests, row, active

\* Whatever files an operator imports, in whatever order, with whatever faults, and
\* whenever an import breaks off: no row is there twice, none refers to a row that is
\* missing, importing a file again adds nothing, and consensus is of the reports.
THEOREM ImportsStayWhole == ImportsSpec => []ImportsAreWhole
<1>1. ImportsInv => ImportsAreWhole
  BY KeysAreSingle, AgainAddsNothing, DigestsAreOfReports DEF ImportsAreWhole
<1>. QED BY <1>1, ImportsBegin, ImportsStep, PTL DEF ImportsSpec

----
(***************************************************************************)
(* The shape of the backtests' tables: a comparison has put one strategy   *)
(* aside for each it has compared, and as long as it lasts nobody else     *)
(* takes the place of its run.                                             *)
(***************************************************************************)
DeskCounts ==
  /\ Len(tests) <= MaxBacktests /\ DOMAIN regimes \subseteq 1 .. day
  /\ desk # Idle => /\ Len(tests) < MaxBacktests
                    /\ Len(desk.todo) + Len(desk.results) = Len(Strategies)

LEMMA DeskCountsInit == BTInit => DeskCounts
<1>1. BTInit => tests = <<>> /\ desk = Idle /\ regimes = <<>>
  BY DEF BTInit
<1>2. Len(<<>>) = 0 /\ DOMAIN <<>> = {}
  OBVIOUS
<1>. QED BY <1>1, <1>2, BacktestsAssumption DEF DeskCounts

LEMMA OneMoreRun ==
  ASSUME TestsStand, DeskCounts, Len(tests) < MaxBacktests, NEW t, tests' = Append(tests, t)
  PROVE  Len(tests') <= MaxBacktests
<1>1. PICK S : tests \in Seq(S)
  BY DEF TestsStand
<1>2. tests \in Seq(S \cup {t})
  BY <1>1
<1>3. Len(tests') = Len(tests) + 1 /\ Len(tests) \in Nat
  BY <1>2
<1>4. MaxBacktests \in Nat
  BY BacktestsAssumption
<1>. QED BY <1>3, <1>4

LEMMA DeskCountsNext ==
  ASSUME OutcomesStand, BTInv, DeskCounts, [BTNext]_btVars
  PROVE  DeskCounts'
<1>1. TestsStand /\ DeskInv /\ day \in Nat
  BY DEF BTInv, OutcomesStand, BarsInv
<1>2. CASE UNCHANGED <<tests, desk>> /\ DOMAIN regimes' \subseteq 1 .. day'
  BY <1>2 DEF DeskCounts
<1>3. ASSUME DDNext, UNCHANGED <<regimes, tests, desk>> PROVE DeskCounts'
  <2>1. day' = day \/ day' = day + 1
    BY <1>3 DEF DDNext, NewDay, BarArrives, IndicatorArrives, CheckHoldings, Recommend, ReviewOutcomes
  <2>2. 1 .. day \subseteq 1 .. day'
    BY <1>1, <2>1
  <2>. QED BY <1>2, <1>3, <2>2 DEF DeskCounts
<1>4. ASSUME NEW d, NEW g, RegimeArrives(d, g) PROVE DeskCounts'
  <2>1. /\ d \in 1 .. day /\ day' = day /\ UNCHANGED <<tests, desk>>
        /\ DOMAIN regimes' = {d} \cup DOMAIN regimes
    BY <1>4 DEF RegimeArrives, dailyVars, Over
  <2>. QED BY <1>2, <2>1 DEF DeskCounts
<1>5. ASSUME NEW t, tests' = Append(tests, t), Len(tests) < MaxBacktests, desk' = Idle,
             UNCHANGED <<regimes, day>>
      PROVE  DeskCounts'
  <2>1. Len(tests') <= MaxBacktests
    BY <1>1, <1>5, OneMoreRun
  <2>. QED BY <1>5, <2>1 DEF DeskCounts
<1>6. ASSUME NEW strategy, NEW from, NEW to, NEW limit, RunBacktest(strategy, from, to, limit)
      PROVE  DeskCounts'
  <2>1. /\ Len(tests) < MaxBacktests /\ desk' = Idle /\ UNCHANGED <<regimes, day>>
        /\ \E t : tests' = Append(tests, t)
    BY <1>6 DEF RunBacktest, dailyVars
  <2>. QED BY <1>5, <2>1
<1>7. ASSUME NEW strategy, NEW from, NEW to, NEW train, NEW validate, NEW gap,
             WalkForward(strategy, from, to, train, validate, gap)
      PROVE  DeskCounts'
  <2>1. /\ Len(tests) < MaxBacktests /\ desk' = Idle /\ UNCHANGED <<regimes, day>>
        /\ \E t : tests' = Append(tests, t)
    BY <1>7 DEF WalkForward, dailyVars
  <2>. QED BY <1>5, <2>1
<1>8. CASE StartComparison(1, MaxDay)
  <2>1. /\ UNCHANGED <<tests, regimes, day>> /\ Len(tests) < MaxBacktests
        /\ desk'.todo = Strategies /\ desk'.results = <<>>
    BY <1>8 DEF StartComparison, dailyVars
  <2>2. Len(<<>>) = 0 /\ Len(Strategies) \in Nat
    BY BacktestsAssumption
  <2>3. Len(desk'.todo) + Len(desk'.results) = Len(Strategies)
    BY <2>1, <2>2
  <2>. QED BY <2>1, <2>3 DEF DeskCounts
<1>9. CASE CompareNext
  <2>1. PICK result : desk' = [desk EXCEPT !.todo = Tail(@), !.results = Append(@, result)]
    BY <1>9 DEF CompareNext
  <2>2. desk.todo # <<>> /\ UNCHANGED <<tests, regimes, day>>
    BY <1>9 DEF CompareNext, dailyVars
  <2>3. /\ desk.todo \in Seq(Registry)
        /\ desk = [todo |-> desk.todo, from |-> desk.from, to |-> desk.to,
                   sectors |-> desk.sectors, results |-> desk.results]
    BY <1>1 DEF DeskInv
  <2>4. desk'.todo = Tail(desk.todo) /\ desk'.results = Append(desk.results, result)
    BY <2>1, <2>3
  <2>5. PICK S : desk.results \in Seq(S)
    BY <1>1 DEF DeskInv, Scored
  <2>6. desk.results \in Seq(S \cup {result})
    BY <2>5
  <2>7. Len(desk'.results) = Len(desk.results) + 1 /\ Len(desk.results) \in Nat
    BY <2>4, <2>6
  <2>8. Len(desk'.todo) = Len(desk.todo) - 1 /\ Len(desk.todo) \in Nat
    BY <2>2, <2>3, <2>4
  <2>9. desk # Idle
    BY <2>2 DEF Idle
  <2>10. Len(desk'.todo) + Len(desk'.results) = Len(Strategies)
    <3>1. \A a, b \in Nat : (a - 1) + (b + 1) = a + b
      OBVIOUS
    <3>2. Len(desk.todo) + Len(desk.results) = Len(Strategies)
      BY <2>9 DEF DeskCounts
    <3>. QED BY <2>7, <2>8, <3>1, <3>2
  <2>. QED BY <2>2, <2>9, <2>10 DEF DeskCounts
<1>10. CASE FinishComparison
  <2>1. /\ desk # Idle /\ desk' = Idle /\ UNCHANGED <<regimes, day>>
        /\ \E t : tests' = Append(tests, t)
    BY <1>10 DEF FinishComparison, dailyVars
  <2>. QED BY <1>5, <2>1 DEF DeskCounts
<1>11. CASE UNCHANGED btVars
  BY <1>11 DEF btVars, DeskCounts
<1>. QED BY <1>3, <1>4, <1>6, <1>7, <1>8, <1>9, <1>10, <1>11 DEF BTNext

\* Only known kinds of runs are stored, no more than there may be, regimes are
\* of days that have come, and a comparison loses none of its strategies.
THEOREM BacktestsKeepTheirShape == BTSpec => []BTTypeOK
<1>1. BTInit => ReturnsInv
  BY DEF BTInit, DDInit, ReturnsInv
<1>2. OutcomesStand /\ ReturnsInv /\ [BTNext]_btVars => ReturnsInv'
  BY DailySteps, ReturnsInvStep
<1>3. OutcomesStand /\ ReturnsInv /\ BTInv /\ [BTNext]_btVars => BTInv'
  BY BTInvNext
<1>4. OutcomesStand /\ BTInv /\ DeskCounts /\ [BTNext]_btVars => DeskCounts'
  BY DeskCountsNext
<1>5. BTInv /\ DeskCounts => BTTypeOK
  <2>. SUFFICES ASSUME BTInv, DeskCounts PROVE BTTypeOK
    OBVIOUS
  <2>1. \A i \in DOMAIN tests : tests[i].kind \in {"single", "walk_forward", "multi"}
    BY DEF BTInv, TestsStand, Sound
  <2>2. desk = Idle => Len(desk.todo) + Len(desk.results) = 0
    <3>1. ASSUME desk = Idle PROVE desk.todo = <<>> /\ desk.results = <<>>
      BY <3>1 DEF Idle
    <3>2. \A a, b : a = <<>> /\ b = <<>> => Len(a) + Len(b) = 0
      OBVIOUS
    <3>. QED BY <3>1, <3>2, Zenon
  <2>. QED BY <2>1, <2>2 DEF DeskCounts, BTTypeOK
<1>. QED BY <1>1, <1>2, <1>3, <1>4, <1>5, BTInvInit, DeskCountsInit, OutcomesAlwaysStand,
            EnginesGoOn, PTL DEF BTSpec

----
\* An import under way has its place among those to come.
RoomForImports ==
  /\ date \in 1 .. MaxImportDate /\ Len(imported) <= MaxImports
  /\ Busy => Len(imported) < MaxImports

LEMMA RoomForImportsNext ==
  ASSUME ImportsInv, RoomForImports, [ImportsNext]_importVars
  PROVE  RoomForImports'
<1>1. /\ date \in Nat /\ MaxImportDate \in Nat /\ MaxImports \in Nat /\ imported \in Seq(Files)
      /\ 1 <= date /\ date <= MaxImportDate /\ Len(imported) \in Nat
  BY ImportsAssumption DEF RoomForImports, ImportsInv
<1>2. CASE NextDate
  <2>1. date < MaxImportDate /\ date' = date + 1 /\ UNCHANGED <<importing, imported>>
    BY <1>2 DEF NextDate
  <2>2. date' \in 1 .. MaxImportDate
    BY <1>1, <2>1
  <2>. QED BY <2>1, <2>2 DEF RoomForImports, Busy
<1>3. ASSUME NEW f, NEW commit, ImportStart(f, commit) PROVE RoomForImports'
  BY <1>3 DEF ImportStart, RoomForImports
<1>4. CASE ImportRow
  BY <1>4 DEF ImportRow, RoomForImports
<1>5. CASE ImportEnd
  <2>1. Busy /\ importing' = NoImport /\ date' = date
    BY <1>5 DEF ImportEnd
  <2>2. importing.file \in Files
    BY <2>1 DEF ImportsInv, Underway
  <2>3. imported' = imported \/ imported' = Append(imported, importing.file)
    BY <1>5 DEF ImportEnd
  <2>4. Len(imported') <= Len(imported) + 1 /\ Len(imported') \in Nat
    BY <1>1, <2>2, <2>3
  <2>5. Len(imported') <= MaxImports
    BY <1>1, <2>1, <2>4 DEF RoomForImports
  <2>. QED BY <2>1, <2>5 DEF RoomForImports, Busy
<1>6. CASE ImportAborts
  BY <1>6 DEF ImportAborts, RoomForImports, Busy
<1>7. CASE ConsensusJob \/ UNCHANGED importVars
  BY <1>7 DEF ConsensusJob, importVars, RoomForImports, Busy
<1>. QED BY <1>2, <1>3, <1>4, <1>5, <1>6, <1>7 DEF ImportsNext

\* Every import under way is of a file there is, and no table of the six is lost.
THEOREM ImportsKeepTheirShape == ImportsSpec => []ImportsTypeOK
<1>1. ImportsInit => RoomForImports
  <2>1. Len(<<>>) = 0 /\ 1 \in 1 .. MaxImportDate /\ MaxImports \in Nat
    BY ImportsAssumption
  <2>. QED BY <2>1 DEF ImportsInit, RoomForImports, Busy
<1>2. ImportsInv /\ RoomForImports /\ [ImportsNext]_importVars => RoomForImports'
  BY RoomForImportsNext
<1>3. ImportsInv /\ RoomForImports => ImportsTypeOK
  <2>. SUFFICES ASSUME ImportsInv, RoomForImports PROVE ImportsTypeOK
    OBVIOUS
  <2>1. importing.file \in Files \cup {NoFile}
    BY DEF ImportsInv, Underway, Busy, NoImport
  <2>2. Shaped(shelf)
    BY DEF ImportsInv, Whole
  <2>3. DOMAIN shelf = DOMAIN NoTables
    BY <2>2 DEF Shaped, NoTables
  <2>. QED BY <2>1, <2>3 DEF RoomForImports, ImportsTypeOK
<1>. QED BY <1>1, <1>2, <1>3, ImportsBegin, ImportsStep, PTL DEF ImportsSpec

----
(***************************************************************************)
(* Drops of a score.  The previous check's total is stored after its       *)
(* penalty, and this check's is compared before its penalty: how far the   *)
(* two can be apart.                                                       *)
(***************************************************************************)
\* k and l are checks of one holding with none between them.
NextCheck(k, l) ==
  /\ k[3] = l[3] /\ Rank(k) < Rank(l)
  /\ \A m \in DOMAIN checks : m[3] = k[3] => Rank(m) <= Rank(k) \/ Rank(m) >= Rank(l)
  /\ checks[l].before = checks[k].total

Fall(k, l) == checks[k].plain - checks[l].plain

DropsAreSeen ==
  \A k, l \in DOMAIN checks : NextCheck(k, l) =>
    /\ "SCORE_DROP" \in checks[l].flags => Fall(k, l) >= 1500
    /\ Fall(k, l) >= 1500 /\ checks[k].flags = {} => "SCORE_DROP" \in checks[l].flags
    /\ Fall(k, l) >= 6500 => "SCORE_DROP" \in checks[l].flags

Penalized(row) ==
  /\ row.plain \in Nat /\ row.total \in Nat
  /\ row.total <= row.plain /\ row.plain <= row.total + 5000
  /\ row.flags = {} => row.total = row.plain
  /\ "SCORE_DROP" \in row.flags <=> Has(row.before) /\ row.before - row.plain >= 1500

\* No flag costs nothing, and SCORE_DROP is a flag like the others.
LEMMA NoFlagNoPenalty ==
  ASSUME NEW flags, IsFiniteSet(flags), flags \subseteq DOMAIN HoldingPenalty, NEW filings \in Nat
  PROVE  /\ Assessment(flags, HoldingPenalty, filings).flags = {} =>
              Assessment(flags, HoldingPenalty, filings).penalty = 0
         /\ "SCORE_DROP" \in Assessment(flags, HoldingPenalty, filings).flags <=> "SCORE_DROP" \in flags
<1>. DEFINE a == Assessment(flags, HoldingPenalty, filings)
<1>1. /\ a.flags = flags \cup (IF filings > 0 THEN {"RISK_DISCLOSURE"} ELSE {})
      /\ a.penalty = Within(SumFunctionOnSet(HoldingPenalty, flags) + DisclosurePenalty(filings), 0, 5000)
  BY DEF Assessment
<1>. HIDE DEF a
<1>2. ASSUME a.flags = {} PROVE a.penalty = 0
  <2>1. flags = {} /\ filings = 0
    BY <1>1, <1>2
  <2>2. SumFunctionOnSet(HoldingPenalty, {}) = 0
    BY SumEmpty
  <2>3. DisclosurePenalty(0) = 0
    BY DEF DisclosurePenalty, Within
  <2>. QED BY <1>1, <2>1, <2>2, <2>3 DEF Within
<1>3. "SCORE_DROP" # "RISK_DISCLOSURE"
  OBVIOUS
<1>4. "SCORE_DROP" \in a.flags <=> "SCORE_DROP" \in flags
  BY <1>1, <1>3
<1>. QED BY <1>2, <1>4 DEF a

LEMMA RowIsPenalized ==
  ASSUME NEW s, NEW ind \in Situations, NEW price, NEW before
  PROVE  Penalized(Row(s, ind, price, before))
<1>. DEFINE scores == WithTechnical(DummyScores(ind), ind)
            plain == Compose(HoldingWeights, scores, 0)
            gain == ReturnRate(price, Holdings[s])
            risk == HoldingRisk(ind, plain, before, price, gain, ind.filings)
            total == Compose(HoldingWeights, scores, risk.penalty)
            worth(c) == IF Has(scores[c]) THEN OnScale(scores[c]) ELSE 0
            sum == SumFunction([c \in DOMAIN HoldingWeights |-> (HoldingWeights[c] * worth(c)) \div 100])
            flags == {f \in DOMAIN HoldingPenalty :
                         \/ f = "SCORE_DROP" /\ Has(before) /\ before - plain >= 1500
                         \/ f = "MA20_BREAKDOWN" /\ Has(ind.ma20) /\ price < ind.ma20
                         \/ f = "STOP_LOSS_NEAR" /\ Has(gain) /\ gain <= -5
                         \/ f = "LOW_TECHNICAL_SCORE" /\ Has(ind.technical) /\ ind.technical < 2000}
<1>1. PICK n \in Nat : n = ind.filings
  BY DailyDecisionsAssumption
<1>2. ind.technical \in Int
  BY DailyDecisionsAssumption
<1>3. /\ DOMAIN HoldingPenalty = {"SCORE_DROP", "MA20_BREAKDOWN", "STOP_LOSS_NEAR", "LOW_TECHNICAL_SCORE"}
      /\ \A f \in DOMAIN HoldingPenalty : HoldingPenalty[f] \in Int
      /\ IsFiniteSet(DOMAIN HoldingPenalty)
  <2>1. IsFiniteSet({"SCORE_DROP", "MA20_BREAKDOWN", "STOP_LOSS_NEAR", "LOW_TECHNICAL_SCORE"})
    BY FourFinite, Zenon
  <2>. QED BY <2>1 DEF HoldingPenalty
<1>4. risk = Assessment(flags, HoldingPenalty, n)
  <2>. HIDE DEF plain, gain
  <2>. QED BY <1>1 DEF HoldingRisk
<1>5. flags \subseteq DOMAIN HoldingPenalty /\ IsFiniteSet(flags)
  BY <1>3, FS_Subset
<1>6. "SCORE_DROP" \in flags <=> Has(before) /\ before - plain >= 1500
  <2>. HIDE DEF plain, gain
  <2>. QED BY <1>3
<1>7. sum \in Int
  <2>1. DOMAIN HoldingWeights = {"technical", "news", "earnings", "ai"}
        /\ \A c \in DOMAIN HoldingWeights : HoldingWeights[c] \in Int
    BY DEF HoldingWeights
  <2>2. \A c \in DOMAIN HoldingWeights : scores[c] \in Int
    BY <1>2, <2>1, DummiesTyped DEF WithTechnical
  <2>3. IsFiniteSet(DOMAIN HoldingWeights)
    <3>1. IsFiniteSet({"technical", "news", "earnings", "ai"})
      BY FourFinite, Zenon
    <3>. QED BY <2>1, <3>1
  <2>. HIDE DEF scores
  <2>. DEFINE share == [c \in DOMAIN HoldingWeights |-> (HoldingWeights[c] * worth(c)) \div 100]
  <2>4. ASSUME NEW c \in DOMAIN HoldingWeights PROVE share[c] \in Int
    <3>1. worth(c) \in Int
      BY <2>2, ScaleHolds
    <3>. HIDE DEF worth
    <3>2. \A x, y \in Int : (x * y) \div 100 \in Int
      OBVIOUS
    <3>3. (HoldingWeights[c] * worth(c)) \div 100 \in Int
      BY <2>1, <3>1, <3>2
    <3>. QED BY <3>3
  <2>5. DOMAIN share = DOMAIN HoldingWeights
    OBVIOUS
  <2>. HIDE DEF share
  <2>6. SumFunctionOnSet(share, DOMAIN HoldingWeights) \in Int
    BY <2>3, <2>4, SumType
  <2>7. SumFunction(share) \in Int
    BY <2>5, <2>6 DEF SumFunction
  <2>. QED BY <2>7 DEF share
<1>8. \A p \in Nat : Compose(HoldingWeights, scores, p) = OnScale(sum - p)
  <2>1. \A p : Compose(HoldingWeights, scores, p) = OnScale(sum - (IF p > 0 THEN p ELSE 0))
    <3>. HIDE DEF scores
    <3>. QED BY DEF Compose
  <2>2. \A p \in Nat : (IF p > 0 THEN p ELSE 0) = p
    OBVIOUS
  <2>. QED BY <2>1, <2>2
<1>. HIDE DEF flags, sum
<1>9. risk.penalty \in Nat /\ risk.penalty <= 5000
  <2>1. \A f \in flags : HoldingPenalty[f] \in Int
    BY <1>3, <1>5
  <2>. HIDE DEF risk
  <2>. QED BY <1>4, <1>5, <2>1, PenaltyTyped
<1>10. plain = OnScale(sum) /\ total = OnScale(sum - risk.penalty)
  <2>1. total = OnScale(sum - risk.penalty)
    <3>. HIDE DEF risk, scores
    <3>. QED BY <1>8, <1>9
  <2>2. plain = OnScale(sum - 0)
    <3>. HIDE DEF scores
    <3>. QED BY <1>8
  <2>. HIDE DEF plain, total, risk
  <2>. QED BY <1>7, <2>1, <2>2
<1>11. risk.flags = {} => risk.penalty = 0
  <2>. HIDE DEF risk
  <2>. QED BY <1>4, <1>5, NoFlagNoPenalty
<1>12. "SCORE_DROP" \in risk.flags <=> Has(before) /\ before - plain >= 1500
  <2>. HIDE DEF risk, plain
  <2>. QED BY <1>4, <1>5, <1>6, NoFlagNoPenalty
<1>. DEFINE row == Row(s, ind, price, before)
<1>13. row.plain = plain /\ row.total = total /\ row.flags = risk.flags /\ row.before = before
  BY DEF Row
<1>. HIDE DEF row, plain, total, risk
<1>14. /\ plain \in Nat /\ total \in Nat
       /\ total <= plain /\ plain <= total + 5000
       /\ risk.penalty = 0 => total = plain
  <2>1. PICK x \in Int : x = sum
    BY <1>7
  <2>2. PICK p \in Nat : p = risk.penalty /\ p <= 5000
    BY <1>9
  <2>3. /\ OnScale(x) \in Nat /\ OnScale(x - p) \in Nat
        /\ OnScale(x - p) <= OnScale(x) /\ OnScale(x) <= OnScale(x - p) + 5000
        /\ p = 0 => OnScale(x - p) = OnScale(x)
    BY <2>2 DEF OnScale, Within, Top
  <2>. QED BY <1>10, <2>1, <2>2, <2>3
<1>15. Penalized(row)
  BY <1>11, <1>12, <1>13, <1>14 DEF Penalized
<1>. QED BY <1>15 DEF row

AllPenalized == \A k \in DOMAIN checks : Penalized(checks[k])

LEMMA AllPenalizedStep ==
  ASSUME OutcomesStand, ChecksInv, AllPenalized, [DDNext]_ddVars
  PROVE  AllPenalized'
<1>1. CASE UNCHANGED checks
  BY <1>1 DEF AllPenalized, Penalized
<1>2. ASSUME NEW i \in DOMAIN Types, CheckHoldings(Types[i]) PROVE AllPenalized'
  <2>1. ASSUME NEW k \in DOMAIN checks' PROVE Penalized(checks'[k])
    <3>1. CASE k \in Keys(Types[i])
      <4>1. facts[k[3]] \in Situations
        BY <3>1 DEF Keys, Ready, OutcomesStand, FactsInv, Symbols
      <4>2. checks'[k] = CheckRow(k)
        BY <1>2, <3>1, ChecksWritten
      <4>. QED BY <4>1, <4>2, CheckRowIsRow, RowIsPenalized
    <3>2. CASE k \notin Keys(Types[i])
      <4>1. k \in DOMAIN checks /\ checks'[k] = checks[k]
        BY <1>2, <3>2, ChecksWritten
      <4>. QED BY <4>1 DEF AllPenalized
    <3>. QED BY <3>1, <3>2
  <2>. QED BY <2>1 DEF AllPenalized, Penalized
<1>3. NewDay \/ Recommend \/ ReviewOutcomes \/ UNCHANGED ddVars
      \/ (\E s \in Symbols, d \in 1 .. MaxDay, bar \in BarShapes : BarArrives(s, d, bar))
      \/ (\E s \in Symbols, x \in Situations : IndicatorArrives(s, x)) => UNCHANGED checks
  BY DEF NewDay, Recommend, ReviewOutcomes, BarArrives, IndicatorArrives, ddVars
<1>. QED BY <1>1, <1>2, <1>3 DEF DDNext

\* Between two checks of a holding SCORE_DROP is never raised for a fall of less than
\* 15 points, is raised for every one of 15 points where the earlier check raised no
\* flag, and for every one of 65 points; in between the earlier check's penalty may
\* hide it (RiskEngine.evaluate_holding compares the stored total, which has lost its
\* penalty, with a new one that has not).
THEOREM WideDropsAreSeen == DDSpec => []DropsAreSeen
<1>1. DDInit => ChecksInv /\ AllPenalized
  <2>1. DDInit => day = 1 /\ DOMAIN checks = {}
    BY DEF DDInit
  <2>. QED BY <2>1, FS_EmptySet DEF ChecksInv, AllPenalized
<1>2. AllPenalized => DropsAreSeen
  <2>. SUFFICES ASSUME AllPenalized, NEW k \in DOMAIN checks, NEW l \in DOMAIN checks, NextCheck(k, l)
       PROVE  /\ "SCORE_DROP" \in checks[l].flags => Fall(k, l) >= 1500
              /\ Fall(k, l) >= 1500 /\ checks[k].flags = {} => "SCORE_DROP" \in checks[l].flags
              /\ Fall(k, l) >= 6500 => "SCORE_DROP" \in checks[l].flags
    BY DEF DropsAreSeen
  <2>1. Penalized(checks[k]) /\ Penalized(checks[l]) /\ checks[l].before = checks[k].total
    BY DEF AllPenalized, NextCheck
  <2>2. PICK a \in Nat, b \in Nat, c \in Nat :
          /\ a = checks[k].plain /\ b = checks[k].total /\ c = checks[l].plain
          /\ b <= a /\ a <= b + 5000
          /\ checks[k].flags = {} => a = b
    BY <2>1 DEF Penalized
  <2>3. "SCORE_DROP" \in checks[l].flags <=> b - c >= 1500
    <3>1. Has(b)
      BY DEF Has, Missing
    <3>. QED BY <2>1, <2>2, <3>1 DEF Penalized
  <2>4. Fall(k, l) = a - c
    BY <2>2 DEF Fall
  <2>5. Fall(k, l) >= 1500 /\ checks[k].flags = {} => "SCORE_DROP" \in checks[l].flags
    BY <2>2, <2>3, <2>4
  <2>6. "SCORE_DROP" \in checks[l].flags => Fall(k, l) >= 1500
    BY <2>2, <2>3, <2>4
  <2>7. Fall(k, l) >= 6500 => "SCORE_DROP" \in checks[l].flags
    BY <2>2, <2>3, <2>4
  <2>. QED BY <2>5, <2>6, <2>7
<1>3. OutcomesStand /\ ChecksInv /\ AllPenalized /\ [DDNext]_ddVars => AllPenalized'
  BY AllPenalizedStep
<1>. QED BY <1>1, <1>2, <1>3, ChecksInvStep, OutcomesAlwaysStand, PTL DEF DDSpec
====
