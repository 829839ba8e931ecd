---- MODULE PaperBroker ----
(***************************************************************************)
(* Paper trading: /api/paper/orders (app/api/paper_routes.py), the         *)
(* SimulationBroker (app/broker/simulation_broker.py), the ledger          *)
(* (app/paper/pnl_tracker.py) and the scheduler jobs that match orders     *)
(* with the day's close, take the day's snapshot and collect the closes    *)
(* (app/scheduler/jobs.py, at the times of app/scheduler/scheduler.py).    *)
(*                                                                         *)
(* `orders`, `cash`, `position`, `fills` and `snapshot` are the committed  *)
(* rows.  The matching job works in one transaction for all accounts on    *)
(* what it has read; requests come in between.  The scheduler runs one     *)
(* instance of a job, and a job is assumed to end before the next one's    *)
(* time.  An amount is counted in units of the column's last decimal.      *)
(***************************************************************************)
EXTENDS Integers, Sequences, FiniteSetsExt, Functions

CONSTANTS
  Accounts,      \* virtual accounts with paper_trading_enabled
  Symbols,
  Requests,      \* what POST /api/paper/orders may be asked
  Keys, NoKey,   \* idempotency keys; none sent
  Prices,        \* closes a day may bring; 0 stands for none
  InitialCash,
  BuyRate, SellRate, RateUnit,   \* fee, tax and slippage per side
  Workers,       \* request threads
  Timetable,     \* the jobs of a day, in the order of their times
  MaxOrders, MaxRestarts   \* bounds

ASSUME PaperConstants ==
  /\ IsFiniteSet(Symbols)
  /\ Requests \subseteq [acct : Accounts, sym : Symbols, side : {"BUY", "SELL"},
                         qty : Nat \ {0}, limit : Nat]   \* limit 0: a MARKET order
  /\ NoKey \notin Keys
  /\ Prices \subseteq Nat \ {0}
  /\ InitialCash \in Nat
  /\ BuyRate \in Nat /\ SellRate \in Nat /\ RateUnit \in Nat \ {0}
  /\ Timetable \in Seq({"execute", "snapshot", "collect"})
  /\ MaxOrders \in Nat /\ MaxRestarts \in Nat

VARIABLES
  orders,    \* virtual_orders in id order
  cash,      \* virtual_accounts.cash_balance
  position,  \* virtual_positions, by account and symbol
  fills,     \* virtual_fills in id order: the order and net_amount
  snapshot,  \* today's row of virtual_pnl_snapshots, by account
  close,     \* daily_prices: today's close
  latest,    \* daily_prices: the latest close of the last 14 days
  hour,      \* index in Timetable of the job that is next
  job,       \* the transaction of execute_paper_orders
  tx,        \* the request each worker is serving
  paper,     \* Settings.paper_trading_enabled
  restarts

ledger == <<cash, position, fills>>
market == <<close, latest>>
vars == <<orders, ledger, snapshot, market, hour, job, tx, paper, restarts>>

Idle == [op |-> "idle"]
NoJob == [running |-> FALSE]
NoSnapshot == [taken |-> FALSE]
Flat == [qty |-> 0, avg |-> 0, pnl |-> 0]

Init ==
  /\ orders = <<>>
  /\ cash = [a \in Accounts |-> InitialCash]
  /\ position = [a \in Accounts |-> [s \in Symbols |-> Flat]]
  /\ fills = <<>>
  /\ snapshot = [a \in Accounts |-> NoSnapshot]
  /\ close = [s \in Symbols |-> 0]
  /\ latest = [s \in Symbols |-> 0]
  /\ hour = 1
  /\ job = NoJob
  /\ tx = [w \in Workers |-> Idle]
  /\ paper \in BOOLEAN
  /\ restarts = 0

----
(***************************************************************************)
(* POST /api/paper/orders: submit_order looks the key up and inserts; the  *)
(* table's unique constraint fails the insert of a key that appeared since *)
(* (the request ends with an error and writes nothing).  Past the bound    *)
(* MaxOrders the insert fails as on any error of the database.             *)
(***************************************************************************)
Ids(key, acct) == {i \in DOMAIN orders : orders[i].key = key /\ orders[i].acct = acct}

KeyFree(key, acct) == key = NoKey \/ Ids(key, acct) = {}

SubmitLookup(w, r, key) ==
  /\ tx[w].op = "idle"
  /\ paper
  /\ KeyFree(key, r.acct)   \* else the existing order is the answer
  /\ tx' = [tx EXCEPT ![w] = [op |-> "submit", request |-> r, key |-> key]]
  /\ UNCHANGED <<orders, ledger, snapshot, market, hour, job, paper, restarts>>

SubmitCommit(w) ==
  LET r == tx[w].request IN
  /\ tx[w].op = "submit"
  /\ Len(orders) < MaxOrders
  /\ KeyFree(tx[w].key, r.acct)
  /\ orders' = Append(orders, [acct |-> r.acct, sym |-> r.sym, side |-> r.side, qty |-> r.qty,
                               limit |-> r.limit, key |-> tx[w].key, status |-> "CREATED"])
  /\ tx' = [tx EXCEPT ![w] = Idle]
  /\ UNCHANGED <<ledger, snapshot, market, hour, job, paper, restarts>>

SubmitFails(w) ==
  /\ tx[w].op = "submit"
  /\ ~KeyFree(tx[w].key, tx[w].request.acct) \/ Len(orders) = MaxOrders
  /\ tx' = [tx EXCEPT ![w] = Idle]
  /\ UNCHANGED <<orders, ledger, snapshot, market, hour, job, paper, restarts>>

----
(***************************************************************************)
(* DELETE /api/paper/orders/{id}: the status is checked as it was read,    *)
(* and written with no condition.  A row the job has written is locked     *)
(* until the job commits.                                                  *)
(***************************************************************************)
\* Mutant: a decided order can be canceled too.
CancelLoadAny(w, i) ==
  /\ tx[w].op = "idle"
  /\ paper
  /\ tx' = [tx EXCEPT ![w] = [op |-> "cancel", order |-> i]]
  /\ UNCHANGED <<orders, ledger, snapshot, market, hour, job, paper, restarts>>

CancelLoad(w, i) ==
  /\ tx[w].op = "idle"
  /\ paper
  /\ orders[i].status = "CREATED"
  /\ tx' = [tx EXCEPT ![w] = [op |-> "cancel", order |-> i]]
  /\ UNCHANGED <<orders, ledger, snapshot, market, hour, job, paper, restarts>>

FilledIn(f) == {f[n].order : n \in DOMAIN f}

Written(i) == job.running /\ i \in job.rejected \cup FilledIn(job.fills)

CancelCommit(w) ==
  /\ tx[w].op = "cancel"
  /\ ~Written(tx[w].order)
  /\ orders' = [orders EXCEPT ![tx[w].order].status = "CANCELED"]
  /\ tx' = [tx EXCEPT ![w] = Idle]
  /\ UNCHANGED <<ledger, snapshot, market, hour, job, paper, restarts>>

----
(***************************************************************************)
(* What an order costs and what it leaves: PaperTradingCostModel,          *)
(* apply_buy and apply_sell.  The columns round to the nearest unit.       *)
(***************************************************************************)
Rounded(a, b) == (2 * a + b) \div (2 * b)

BuyNet(gross) == gross + Rounded(gross * BuyRate, RateUnit)

SellNet(gross) ==
  IF SellRate > RateUnit THEN 0 ELSE gross - Rounded(gross * SellRate, RateUnit)

Net(o) == IF o.side = "BUY" THEN BuyNet(close[o.sym] * o.qty)
                            ELSE SellNet(close[o.sym] * o.qty)

\* Mutant: the cost basis leaves the trading costs out.
BoughtAtGross(p, o, net) ==
  [p EXCEPT !.qty = @ + o.qty,
            !.avg = Rounded(p.avg * p.qty + close[o.sym] * o.qty, p.qty + o.qty)]

Bought(p, o, net) ==
  [p EXCEPT !.qty = @ + o.qty,
            !.avg = Rounded(p.avg * p.qty + net, p.qty + o.qty)]

Sold(p, o, net) ==
  [qty |-> p.qty - o.qty,
   avg |-> IF p.qty = o.qty THEN 0 ELSE p.avg,
   pnl |-> p.pnl + net - p.avg * o.qty]

----
(***************************************************************************)
(* execute_paper_orders: per account, the pending orders are listed, then  *)
(* matched in id order; run_job commits once at the end.                   *)
(***************************************************************************)
Due(name) == hour <= Len(Timetable) /\ Timetable[hour] = name

ExecuteStart ==
  /\ ~job.running
  /\ Due("execute")
  /\ paper
  /\ job' = [running |-> TRUE, accts |-> Accounts, todo |-> {}, rejected |-> {},
             cash |-> cash, position |-> position, fills |-> <<>>]
  /\ UNCHANGED <<orders, ledger, snapshot, market, hour, tx, paper, restarts>>

PaperJobSkipped ==
  /\ ~job.running
  /\ Due("execute") \/ Due("snapshot")
  /\ ~paper
  /\ hour' = hour + 1
  /\ UNCHANGED <<orders, ledger, snapshot, market, job, tx, paper, restarts>>

\* Mutant: the listing returns filled orders too.
PendingOrDone(a) ==
  {i \in DOMAIN orders : orders[i].acct = a /\ orders[i].status \in {"CREATED", "FILLED"}}

\* Mutant: the listing returns only the newest order of the account.
PendingNewest(a) ==
  {i \in DOMAIN orders : /\ orders[i].acct = a /\ orders[i].status = "CREATED"
                         /\ \A j \in DOMAIN orders : orders[j].acct = a => j <= i}

Pending(a) == {i \in DOMAIN orders : orders[i].acct = a /\ orders[i].status = "CREATED"}

JobAccount(a) ==
  /\ job.running
  /\ job.todo = {}
  /\ a \in job.accts
  /\ job' = [job EXCEPT !.accts = @ \ {a}, !.todo = Pending(a)]
  /\ UNCHANGED <<orders, ledger, snapshot, market, hour, tx, paper, restarts>>

Turn(i) == job.running /\ i \in job.todo /\ \A j \in job.todo : i <= j

Crosses(o) ==
  /\ close[o.sym] # 0
  /\ o.limit # 0 => IF o.side = "BUY" THEN close[o.sym] <= o.limit
                                      ELSE close[o.sym] >= o.limit

SkipOrder(i) ==
  /\ Turn(i)
  /\ ~Crosses(orders[i])
  /\ job' = [job EXCEPT !.todo = @ \ {i}]
  /\ UNCHANGED <<orders, ledger, snapshot, market, hour, tx, paper, restarts>>

\* Mutant: the position is checked, the cash is not.
CoveredByPosition(o) ==
  o.side = "SELL" => job.position[o.acct][o.sym].qty >= o.qty

Covered(o) ==
  IF o.side = "BUY" THEN job.cash[o.acct] >= Net(o)
                    ELSE job.position[o.acct][o.sym].qty >= o.qty

RejectOrder(i) ==
  /\ Turn(i)
  /\ Crosses(orders[i])
  /\ ~Covered(orders[i])
  /\ job' = [job EXCEPT !.todo = @ \ {i}, !.rejected = @ \cup {i}]
  /\ UNCHANGED <<orders, ledger, snapshot, market, hour, tx, paper, restarts>>

\* Mutant: the balance is the one read when the job began.
CashAfterStale(o) == IF o.side = "BUY" THEN cash[o.acct] - Net(o) ELSE cash[o.acct] + Net(o)

CashAfter(o) ==
  IF o.side = "BUY" THEN job.cash[o.acct] - Net(o) ELSE job.cash[o.acct] + Net(o)

FillOrder(i) ==
  LET o == orders[i]
      p == job.position[o.acct][o.sym]
  IN /\ Turn(i)
     /\ Crosses(o)
     /\ Covered(o)
     /\ job' = [job EXCEPT
                  !.todo = @ \ {i},
                  !.cash[o.acct] = CashAfter(o),
                  !.position[o.acct][o.sym] =
                     IF o.side = "BUY" THEN Bought(p, o, Net(o)) ELSE Sold(p, o, Net(o)),
                  !.fills = Append(@, [order |-> i, net |-> Net(o)])]
     /\ UNCHANGED <<orders, ledger, snapshot, market, hour, tx, paper, restarts>>

JobCommit ==
  /\ job.running
  /\ job.accts = {} /\ job.todo = {}
  /\ orders' = [i \in DOMAIN orders |->
                  [orders[i] EXCEPT !.status =
                     IF i \in FilledIn(job.fills) THEN "FILLED"
                     ELSE IF i \in job.rejected THEN "REJECTED" ELSE @]]
  /\ cash' = job.cash
  /\ position' = job.position
  /\ fills' = fills \o job.fills
  /\ job' = NoJob
  /\ hour' = hour + 1
  /\ UNCHANGED <<snapshot, market, tx, paper, restarts>>

----
(***************************************************************************)
(* create_paper_pnl_snapshot, collect_market_close_data, the next day, and *)
(* a restart.                                                              *)
(***************************************************************************)
Open(a) == {s \in Symbols : position[a][s].qty > 0}

\* Mutant: a position with no price counts as worth nothing.
PricedAll(a) == Open(a)

Priced(a) == {s \in Open(a) : latest[s] # 0}

SnapshotOf(a) ==
  LET Value == [s \in Symbols |-> latest[s] * position[a][s].qty]
      Gain == [s \in Symbols |-> Value[s] - position[a][s].avg * position[a][s].qty]
      Pnl == [s \in Symbols |-> position[a][s].pnl]
  IN [taken |-> TRUE, cash |-> cash[a],
      market |-> SumFunctionOnSet(Value, Priced(a)),
      unrealized |-> SumFunctionOnSet(Gain, Priced(a)),
      realized |-> SumFunctionOnSet(Pnl, Symbols)]

TakeSnapshot ==
  /\ ~job.running
  /\ Due("snapshot")
  /\ paper
  /\ snapshot' = [a \in Accounts |-> SnapshotOf(a)]
  /\ hour' = hour + 1
  /\ UNCHANGED <<orders, ledger, market, job, tx, paper, restarts>>

Collect ==
  /\ ~job.running
  /\ Due("collect")
  /\ close' \in [Symbols -> Prices \cup {0}]
  /\ latest' = [s \in Symbols |-> IF close'[s] # 0 THEN close'[s] ELSE latest[s]]
  /\ hour' = hour + 1
  /\ UNCHANGED <<orders, ledger, snapshot, job, tx, paper, restarts>>

NewDay ==
  /\ ~job.running
  /\ hour > Len(Timetable)
  /\ hour' = 1
  /\ close' = [s \in Symbols |-> 0]
  /\ \E old \in SUBSET Symbols :   \* bars that leave the window
       latest' = [s \in Symbols |-> IF s \in old THEN 0 ELSE latest[s]]
  /\ snapshot' = [a \in Accounts |-> NoSnapshot]
  /\ UNCHANGED <<orders, ledger, job, tx, paper, restarts>>

\* The process stops and starts, perhaps with other settings: what was not
\* committed is lost, and so are the job that ran and those whose time passed.
Restart ==
  /\ restarts < MaxRestarts
  /\ restarts' = restarts + 1
  /\ tx' = [w \in Workers |-> Idle]
  /\ job' = NoJob
  /\ paper' \in BOOLEAN
  /\ hour' \in (IF job.running THEN hour + 1 ELSE hour)..(Len(Timetable) + 1)
  /\ UNCHANGED <<orders, ledger, snapshot, market>>

----
Request(w) ==
  \/ \E r \in Requests, key \in Keys \cup {NoKey} : SubmitLookup(w, r, key)
  \/ SubmitCommit(w)
  \/ SubmitFails(w)
  \/ \E i \in DOMAIN orders : CancelLoad(w, i)
  \/ CancelCommit(w)

Match ==
  \/ ExecuteStart
  \/ \E a \in Accounts : JobAccount(a)
  \/ \E i \in DOMAIN orders : SkipOrder(i) \/ RejectOrder(i) \/ FillOrder(i)
  \/ JobCommit

Clock == PaperJobSkipped \/ TakeSnapshot \/ Collect \/ NewDay

Next == (\E w \in Workers : Request(w)) \/ Match \/ Clock \/ Restart

Spec == Init /\ [][Next]_vars

\* The scheduler's thread runs each job at its time and to its end, and a
\* request that is being served ends.
FairSpec ==
  /\ Spec
  /\ WF_vars(Match)
  /\ WF_vars(Clock)
  /\ \A w \in Workers : WF_vars(SubmitCommit(w) \/ SubmitFails(w) \/ CancelCommit(w))

----
(***************************************************************************)
(* Properties.                                                             *)
(***************************************************************************)
Statuses == {"CREATED", "FILLED", "CANCELED", "REJECTED"}
Position == [qty : Nat, avg : Nat, pnl : Int]

\* Types; cash and held quantities are never negative, for the committed
\* rows and for what the matching job has in hand.
TypeOK ==
  /\ \A i \in DOMAIN orders :
       /\ orders[i].status \in Statuses
       /\ orders[i].key \in Keys \cup {NoKey}
       /\ orders[i].acct \in Accounts
  /\ cash \in [Accounts -> Nat]
  /\ position \in [Accounts -> [Symbols -> Position]]
  /\ \A n \in DOMAIN fills : fills[n].order \in DOMAIN orders /\ fills[n].net \in Nat
  /\ close \in [Symbols -> Prices \cup {0}]
  /\ latest \in [Symbols -> Prices \cup {0}]
  /\ hour \in 1..(Len(Timetable) + 1)
  /\ paper \in BOOLEAN
  /\ job.running =>
       /\ job.cash \in [Accounts -> Nat]
       /\ job.position \in [Accounts -> [Symbols -> Position]]

Of(n) == orders[fills[n].order]
FillsOf(a, s, side) ==
  {n \in DOMAIN fills : Of(n).acct = a /\ Of(n).sym = s /\ Of(n).side = side}
Paid == [n \in DOMAIN fills |-> fills[n].net]
Quantities == [n \in DOMAIN fills |-> Of(n).qty]
Cash(S) == SumFunctionOnSet(Paid, S)
Shares(S) == SumFunctionOnSet(Quantities, S)

\* The account can be recomputed from its fills: the cash is the initial
\* cash less what the buys cost plus what the sells brought, and a position
\* holds what was bought less what was sold.  The job's working copies, its
\* rollback and its single commit must not lose or double one.
LedgerIsTheFills ==
  \A a \in Accounts :
    /\ LET Bal == [s \in Symbols |-> Cash(FillsOf(a, s, "SELL")) - Cash(FillsOf(a, s, "BUY"))]
       IN cash[a] = InitialCash + SumFunctionOnSet(Bal, Symbols)
    /\ \A s \in Symbols :
         position[a][s].qty = Shares(FillsOf(a, s, "BUY")) - Shares(FillsOf(a, s, "SELL"))

\* Twice the error that rounding avg_cost may have added: after a buy the
\* cost basis is off by at most half a unit per share held.
DriftBound(a) ==
  LET buys == {n \in DOMAIN fills : Of(n).acct = a /\ Of(n).side = "BUY"}
      upto(n, side) == {m \in FillsOf(a, Of(n).sym, side) : m <= n}
      Held == [n \in buys |-> Shares(upto(n, "BUY")) - Shares(upto(n, "SELL"))]
  IN SumFunctionOnSet(Held, buys)

Near(x, y, bound) == 2 * (x - y) <= bound /\ 2 * (y - x) <= bound

Realized(a) == SumFunctionOnSet([s \in Symbols |-> position[a][s].pnl], Symbols)
Basis(a, S) == SumFunctionOnSet([s \in Symbols |-> position[a][s].avg * position[a][s].qty], S)

\* Nothing is made or lost: the cash and the cost basis of what is held are
\* the initial cash and the realized gains, up to the rounding of avg_cost.
BooksBalance ==
  \A a \in Accounts :
    Near(cash[a] + Basis(a, Symbols), InitialCash + Realized(a), DriftBound(a))

\* An order marked FILLED has its one fill, and one still pending or
\* rejected has none; an order that was canceled while the job was matching
\* it may keep its fill, but no order is ever filled twice.
FillsMatchOrders ==
  \A i \in DOMAIN orders :
    LET mine == {n \in DOMAIN fills : fills[n].order = i} IN
    /\ Cardinality(mine) <= 1
    /\ orders[i].status = "FILLED" => mine # {}
    /\ orders[i].status \in {"CREATED", "REJECTED"} => mine = {}

\* A key a client sends twice, even at the same time or after a restart,
\* makes one order of the account.
OneOrderPerKey ==
  \A a \in Accounts, key \in Keys : Cardinality(Ids(key, a)) <= 1

\* The day's snapshot adds up when it is taken: what it reports as the
\* total, with the cost of the positions that have no price, is the initial
\* cash with the realized and unrealized gains it reports.
SnapshotAddsUp ==
  [][\A a \in Accounts :
       snapshot'[a].taken /\ snapshot'[a] # snapshot[a] =>
         Near(snapshot'[a].cash + snapshot'[a].market
                + Basis(a, {s \in Symbols : latest[s] = 0}),
              InitialCash + snapshot'[a].realized + snapshot'[a].unrealized,
              DriftBound(a))]_snapshot

Decided == {"FILLED", "CANCELED", "REJECTED"}
Settled(i) ==
  /\ orders[i].status \in Decided
  /\ job.running => i \notin job.todo \cup job.rejected \cup FilledIn(job.fills)
  /\ \A w \in Workers : tx[w].op = "cancel" => tx[w].order # i

\* "Re-executing terminal orders is forbidden": once an order is decided and
\* no request or job that read it before is still at work, nothing takes it
\* in hand again and its status stays, whatever is asked and across restarts.
SettledOrdersStay ==
  [][\A i \in DOMAIN orders :
       Settled(i) => orders'[i].status = orders[i].status /\ Settled(i)']_vars

\* execute_pending_orders: an order that finds no price "is left untouched
\* so the next run can retry", and a MARKET order "always fills at
\* close_price if the symbol has a price for the day".  With paper trading
\* on and prices that keep coming, every MARKET order is decided.
MarketOrdersAreMatched ==
  (<>[]paper /\ []<>(\A s \in Symbols : close[s] # 0))
    => \A i \in 1..MaxOrders :
         (i \in DOMAIN orders /\ orders[i].limit = 0) ~>
           (i \in DOMAIN orders /\ orders[i].status \in Decided)

====
