---- MODULE PaperBroker_proofs ----
(***************************************************************************)
(* Proofs about PaperBroker, for every set of accounts, symbols, keys and  *)
(* workers, every timetable, prices and costs, and any number of orders    *)
(* and restarts.                                                           *)
(***************************************************************************)
EXTENDS PaperBroker, SumTheorems, TLAPS

\* The rows of virtual_orders, the records of a request, and the matching
\* job's transaction.
Orders ==
  [acct : Accounts, sym : Symbols, side : {"BUY", "SELL"}, qty : Nat \ {0},
   limit : Nat, key : Keys \cup {NoKey}, status : Statuses]
Fills == [order : Nat, net : Nat]
Requested ==
  {Idle} \cup [op : {"submit"}, request : Requests, key : Keys \cup {NoKey}]
         \cup [op : {"cancel"}, order : Nat]
Jobs ==
  [running : {TRUE}, accts : SUBSET Accounts, todo : SUBSET Nat, rejected : SUBSET Nat,
   cash : [Accounts -> Nat], position : [Accounts -> [Symbols -> Position]],
   fills : Seq(Fills)]

(***************************************************************************)
(* The costs of an order, and what it leaves, are amounts of money again.  *)
(***************************************************************************)
\* Rounding a natural number's fraction gives a natural number.
LEMMA RoundedNat ==
  ASSUME NEW a \in Nat, NEW b \in Nat \ {0}
  PROVE  Rounded(a, b) \in Nat
<1>1. 2 * a + b \in Nat /\ 2 * b \in Nat \ {0}
  OBVIOUS
<1>2. \A x \in Nat, y \in Nat \ {0} : x \div y \in Nat
  OBVIOUS
<1>. QED BY <1>1, <1>2 DEF Rounded

\* A share of at most the whole rounds to at most the whole.
LEMMA RoundedAtMost ==
  ASSUME NEW g \in Nat, NEW s \in Nat, NEW u \in Nat \ {0}, s <= u
  PROVE  Rounded(g * s, u) <= g
<1>1. g * s \in Nat /\ g * s <= g * u
  OBVIOUS
<1>2. \A x \in Nat, y \in Nat \ {0}, k \in Nat : x < y * (k + 1) => x \div y <= k
  OBVIOUS
<1>3. 2 * (g * s) + u < (2 * u) * (g + 1)
  BY <1>1
<1>. QED BY <1>1, <1>2, <1>3 DEF Rounded

\* A close of a symbol, the cost of an order at it, and what it brings.
LEMMA NetNat ==
  ASSUME NEW o \in Orders, close \in [Symbols -> Prices \cup {0}]
  PROVE  Net(o) \in Nat
<1>. DEFINE g == close[o.sym] * o.qty
<1>1. g \in Nat
  <2>1. o.sym \in Symbols /\ o.qty \in Nat
    BY DEF Orders
  <2>2. close[o.sym] \in Prices \cup {0}
    BY <2>1
  <2>3. Prices \cup {0} \subseteq Nat
    BY PaperConstants
  <2>. QED BY <2>1, <2>2, <2>3
<1>2. BuyNet(g) \in Nat
  <2>1. g * BuyRate \in Nat
    BY <1>1, PaperConstants
  <2>2. Rounded(g * BuyRate, RateUnit) \in Nat
    BY <2>1, RoundedNat, PaperConstants
  <2>. QED BY <1>1, <2>2 DEF BuyNet
<1>3. SellNet(g) \in Nat
  <2>1. CASE SellRate > RateUnit
    BY <2>1 DEF SellNet
  <2>2. CASE ~(SellRate > RateUnit)
    <3>1. g * SellRate \in Nat /\ SellRate <= RateUnit
      BY <1>1, <2>2, PaperConstants
    <3>2. Rounded(g * SellRate, RateUnit) \in Nat
      BY <3>1, RoundedNat, PaperConstants
    <3>3. Rounded(g * SellRate, RateUnit) <= g
      BY <1>1, <3>1, RoundedAtMost, PaperConstants
    <3>. QED BY <1>1, <2>2, <3>2, <3>3 DEF SellNet
  <2>. QED BY <2>1, <2>2
<1>. QED BY <1>2, <1>3 DEF Net

\* Buying adds to a position and keeps it one.
LEMMA BoughtTyped ==
  ASSUME NEW o \in Orders, NEW p \in Position, NEW n \in Nat
  PROVE  Bought(p, o, n) \in Position
<1>1. o.qty \in Nat \ {0} /\ p.qty \in Nat /\ p.avg \in Nat /\ p.pnl \in Int
  BY DEF Orders, Position
<1>2. p.qty + o.qty \in Nat \ {0}
  BY <1>1
<1>3. p.avg * p.qty + n \in Nat
  BY <1>1
<1>4. Rounded(p.avg * p.qty + n, p.qty + o.qty) \in Nat
  BY <1>2, <1>3, RoundedNat
<1>. QED BY <1>1, <1>2, <1>4 DEF Bought, Position

\* Selling what is held keeps a position one.
LEMMA SoldTyped ==
  ASSUME NEW o \in Orders, NEW p \in Position, NEW n \in Nat, p.qty >= o.qty
  PROVE  Sold(p, o, n) \in Position
<1>1. o.qty \in Nat /\ p.qty \in Nat /\ p.avg \in Nat /\ p.pnl \in Int
  BY DEF Orders, Position
<1>2. p.avg * o.qty \in Nat
  BY <1>1
<1>3. p.pnl + n - p.avg * o.qty \in Int /\ p.qty - o.qty \in Nat
  BY <1>1, <1>2
<1>. QED BY <1>1, <1>3 DEF Sold, Position

(***************************************************************************)
(* TypeOK is not inductive alone: the request and the job keep the numbers *)
(* of orders, and the job the money it will commit.                        *)
(***************************************************************************)
LedgerTypeInv ==
  /\ orders \in Seq(Orders)
  /\ cash \in [Accounts -> Nat]
  /\ position \in [Accounts -> [Symbols -> Position]]
  /\ fills \in Seq(Fills)
  /\ \A n \in DOMAIN fills : fills[n].order \in DOMAIN orders
  /\ close \in [Symbols -> Prices \cup {0}]
  /\ latest \in [Symbols -> Prices \cup {0}]
  /\ hour \in 1..(Len(Timetable) + 1)
  /\ tx \in [Workers -> Requested]
  /\ \A w \in Workers : tx[w].op = "cancel" => tx[w].order \in DOMAIN orders
  /\ job = NoJob \/ job \in Jobs
  /\ job.running => /\ hour <= Len(Timetable)
                    /\ job.todo \cup job.rejected \subseteq DOMAIN orders
                    /\ \A n \in DOMAIN job.fills : job.fills[n].order \in DOMAIN orders
  /\ paper \in BOOLEAN

\* The initial state is well formed.
LEMMA LedgerTypeInit == Init => LedgerTypeInv
<1>. SUFFICES ASSUME Init PROVE LedgerTypeInv
  OBVIOUS
<1>1. Flat \in Position
  BY DEF Flat, Position
<1>2. 1 \in 1..(Len(Timetable) + 1)
  BY PaperConstants
<1>3. Idle \in Requested /\ Idle.op # "cancel"
  BY DEF Idle, Requested
<1>4. ~job.running /\ job = NoJob
  BY DEF Init, NoJob
<1>. QED BY <1>1, <1>2, <1>3, <1>4, PaperConstants DEF Init, LedgerTypeInv

\* An order with another status is an order.
LEMMA StatusTyped ==
  ASSUME NEW o \in Orders, NEW s \in Statuses
  PROVE  [o EXCEPT !.status = s] \in Orders
  BY DEF Orders

\* A submitted order is an order like any other.
LEMMA SubmitTyped ==
  ASSUME LedgerTypeInv, NEW w \in Workers, SubmitCommit(w)
  PROVE  LedgerTypeInv'
<1>. USE DEF LedgerTypeInv
<1>. DEFINE r == tx[w].request
            o == [acct |-> r.acct, sym |-> r.sym, side |-> r.side, qty |-> r.qty,
                  limit |-> r.limit, key |-> tx[w].key, status |-> "CREATED"]
<1>1. r \in Requests /\ tx[w].key \in Keys \cup {NoKey}
  <2>1. tx[w] \in Requested /\ tx[w].op = "submit"
    BY DEF SubmitCommit
  <2>. QED BY ONLY <2>1 DEF Requested, Idle
<1>2. o \in Orders
  BY <1>1, PaperConstants DEF Orders, Statuses
<1>3. orders' = Append(orders, o)
  BY DEF SubmitCommit
<1>4. orders' \in Seq(Orders) /\ DOMAIN orders \subseteq DOMAIN orders'
  BY <1>2, <1>3
<1>5. tx' \in [Workers -> Requested] /\ \A v \in Workers : tx'[v] \in {tx[v], Idle}
  BY DEF SubmitCommit, Requested
<1>6. \A v \in Workers : tx'[v].op = "cancel" => tx'[v].order \in DOMAIN orders'
  BY <1>4, <1>5 DEF Idle
<1>. QED BY <1>4, <1>5, <1>6 DEF SubmitCommit, ledger, market

\* A request keeps the state well formed.
LEMMA RequestTyped ==
  ASSUME LedgerTypeInv, NEW w \in Workers, Request(w)
  PROVE  LedgerTypeInv'
<1>1. CASE \E r \in Requests, key \in Keys \cup {NoKey} : SubmitLookup(w, r, key)
  <2>. PICK r \in Requests, key \in Keys \cup {NoKey} : SubmitLookup(w, r, key)
    BY <1>1
  <2>1. [op |-> "submit", request |-> r, key |-> key] \in Requested
    BY DEF Requested
  <2>2. tx' \in [Workers -> Requested]
    BY <2>1 DEF SubmitLookup, LedgerTypeInv
  <2>3. \A v \in Workers : tx'[v].op = "cancel" => tx'[v] = tx[v]
    BY DEF SubmitLookup, LedgerTypeInv
  <2>. QED BY <2>2, <2>3 DEF SubmitLookup, LedgerTypeInv, ledger, market
<1>2. CASE SubmitCommit(w)
  BY <1>2, SubmitTyped
<1>3. CASE SubmitFails(w)
  <2>1. tx' \in [Workers -> Requested] /\ \A v \in Workers : tx'[v] \in {tx[v], Idle}
    BY <1>3 DEF SubmitFails, Requested, LedgerTypeInv
  <2>. QED BY <1>3, <2>1 DEF SubmitFails, LedgerTypeInv, Idle, ledger, market
<1>4. CASE \E i \in DOMAIN orders : CancelLoad(w, i)
  <2>. PICK i \in DOMAIN orders : CancelLoad(w, i)
    BY <1>4
  <2>1. [op |-> "cancel", order |-> i] \in Requested
    BY DEF Requested, LedgerTypeInv
  <2>2. tx' \in [Workers -> Requested]
    BY <2>1 DEF CancelLoad, LedgerTypeInv
  <2>3. \A v \in Workers : tx'[v].op = "cancel" => tx'[v].order \in DOMAIN orders
    BY DEF CancelLoad, LedgerTypeInv
  <2>. QED BY <2>2, <2>3 DEF CancelLoad, LedgerTypeInv, ledger, market
<1>5. CASE CancelCommit(w)
  <2>1. tx' \in [Workers -> Requested] /\ \A v \in Workers : tx'[v] \in {tx[v], Idle}
    BY <1>5 DEF CancelCommit, Requested, LedgerTypeInv
  <2>2. tx[w].order \in DOMAIN orders
    BY <1>5 DEF CancelCommit, LedgerTypeInv
  <2>3. [orders[tx[w].order] EXCEPT !.status = "CANCELED"] \in Orders
    <3>1. orders[tx[w].order] \in Orders
      BY <2>2 DEF LedgerTypeInv
    <3>. QED BY <3>1, StatusTyped DEF Statuses
  <2>4. orders' \in Seq(Orders) /\ DOMAIN orders' = DOMAIN orders
    BY <1>5, <2>2, <2>3 DEF CancelCommit, LedgerTypeInv
  <2>. QED BY <1>5, <2>1, <2>4 DEF CancelCommit, LedgerTypeInv, Idle, ledger, market
<1>. QED BY <1>1, <1>2, <1>3, <1>4, <1>5 DEF Request

\* The job's first step has the committed balances in hand and no fill.
LEMMA StartTyped ==
  ASSUME LedgerTypeInv, ExecuteStart
  PROVE  LedgerTypeInv'
<1>1. job' \in Jobs
  BY DEF ExecuteStart, LedgerTypeInv, Jobs
<1>2. job'.todo = {} /\ job'.rejected = {} /\ job'.fills = <<>>
  BY DEF ExecuteStart
<1>. QED BY <1>1, <1>2 DEF ExecuteStart, Due, LedgerTypeInv, ledger, market

\* One fill in the job's hands: the money and the shares stay natural numbers.
LEMMA FillRowTyped ==
  ASSUME LedgerTypeInv, NEW i \in DOMAIN orders, FillOrder(i)
  PROVE  LedgerTypeInv'
<1>. DEFINE o == orders[i]
            p == job.position[o.acct][o.sym]
            q == IF o.side = "BUY" THEN Bought(p, o, Net(o)) ELSE Sold(p, o, Net(o))
<1>1. job \in Jobs /\ job.running
  BY DEF FillOrder, Turn, LedgerTypeInv, NoJob
<1>2. o \in Orders /\ o.acct \in Accounts /\ o.sym \in Symbols /\ o.side \in {"BUY", "SELL"}
      /\ i \in Nat
  <2>1. o \in Orders /\ i \in Nat
    BY DEF LedgerTypeInv
  <2>. QED BY ONLY <2>1 DEF Orders
<1>3. p \in Position /\ job.cash[o.acct] \in Nat
  BY <1>1, <1>2 DEF Jobs
<1>4. Net(o) \in Nat
  BY <1>2, NetNat DEF LedgerTypeInv
<1>5. Covered(o)
  BY DEF FillOrder
<1>6. CashAfter(o) \in Nat
  BY <1>3, <1>4, <1>5 DEF CashAfter, Covered
<1>7. q \in Position
  <2>1. CASE o.side = "BUY"
    BY <2>1, <1>2, <1>3, <1>4, BoughtTyped
  <2>2. CASE o.side # "BUY"
    BY <2>2, <1>2, <1>3, <1>4, <1>5, SoldTyped DEF Covered
  <2>. QED BY <2>1, <2>2
<1>8. [order |-> i, net |-> Net(o)] \in Fills
  BY <1>2, <1>4 DEF Fills
<1>9. job' = [job EXCEPT !.todo = @ \ {i}, !.cash[o.acct] = CashAfter(o),
                         !.position[o.acct][o.sym] = q,
                         !.fills = Append(@, [order |-> i, net |-> Net(o)])]
  BY DEF FillOrder
<1>10. job' \in Jobs
  <2>. DEFINE c == [job.cash EXCEPT ![o.acct] = CashAfter(o)]
              h == [job.position EXCEPT ![o.acct][o.sym] = q]
              f == Append(job.fills, [order |-> i, net |-> Net(o)])
  <2>1. c \in [Accounts -> Nat]
    BY <1>1, <1>6 DEF Jobs
  <2>2. h \in [Accounts -> [Symbols -> Position]]
    <3>1. job.position \in [Accounts -> [Symbols -> Position]]
      BY <1>1 DEF Jobs
    <3>. HIDE DEF q
    <3>. QED BY <3>1, <1>2, <1>7
  <2>3. f \in Seq(Fills)
    BY <1>1, <1>8 DEF Jobs
  <2>4. job' = [job EXCEPT !.todo = job.todo \ {i}, !.cash = c, !.position = h, !.fills = f]
    BY <1>1, <1>9 DEF Jobs
  <2>. HIDE DEF c, h, f
  <2>. QED BY <1>1, <2>1, <2>2, <2>3, <2>4 DEF Jobs
<1>11. /\ job'.todo = job.todo \ {i} /\ job'.rejected = job.rejected
       /\ job'.fills = Append(job.fills, [order |-> i, net |-> Net(o)])
  BY <1>1, <1>9 DEF Jobs
<1>12. \A n \in DOMAIN job'.fills : job'.fills[n].order \in DOMAIN orders
  BY <1>1, <1>11 DEF Jobs, LedgerTypeInv
<1>. QED BY <1>1, <1>10, <1>11, <1>12 DEF FillOrder, LedgerTypeInv, ledger, market

\* The commit of the job writes statuses, money and fills.
LEMMA CommitTyped ==
  ASSUME LedgerTypeInv, JobCommit
  PROVE  LedgerTypeInv'
<1>1. job \in Jobs /\ job.running
  BY DEF JobCommit, LedgerTypeInv, NoJob
<1>2. orders' \in Seq(Orders) /\ DOMAIN orders' = DOMAIN orders
  <2>. DEFINE st(i) == IF i \in FilledIn(job.fills) THEN "FILLED"
                       ELSE IF i \in job.rejected THEN "REJECTED" ELSE orders[i].status
  <2>1. orders' = [i \in DOMAIN orders |-> [orders[i] EXCEPT !.status = st(i)]]
    BY DEF JobCommit
  <2>2. \A i \in DOMAIN orders : orders[i] \in Orders /\ st(i) \in Statuses
    <3>. SUFFICES ASSUME NEW i \in DOMAIN orders
                 PROVE  orders[i] \in Orders /\ st(i) \in Statuses
      OBVIOUS
    <3>1. orders[i] \in Orders
      BY DEF LedgerTypeInv
    <3>2. orders[i].status \in Statuses
      BY ONLY <3>1 DEF Orders
    <3>. QED BY <3>1, <3>2 DEF Statuses
  <2>3. \A i \in DOMAIN orders : orders'[i] \in Orders
    BY <2>1, <2>2, StatusTyped
  <2>4. DOMAIN orders = 1..Len(orders) /\ Len(orders) \in Nat
    BY DEF LedgerTypeInv
  <2>. QED BY <2>1, <2>3, <2>4
<1>3. fills' \in Seq(Fills)
  BY <1>1 DEF JobCommit, LedgerTypeInv, Jobs
<1>4. \A n \in DOMAIN fills' : fills'[n].order \in DOMAIN orders
  <2>1. fills' = fills \o job.fills /\ fills \in Seq(Fills) /\ job.fills \in Seq(Fills)
    BY <1>1 DEF JobCommit, LedgerTypeInv, Jobs
  <2>2. \A n \in DOMAIN fills' : \/ n \in DOMAIN fills /\ fills'[n] = fills[n]
                                 \/ /\ n - Len(fills) \in DOMAIN job.fills
                                    /\ fills'[n] = job.fills[n - Len(fills)]
    BY <2>1
  <2>. QED BY <1>1, <2>2 DEF LedgerTypeInv
<1>5. hour' \in 1..(Len(Timetable) + 1)
  BY <1>1, PaperConstants DEF JobCommit, LedgerTypeInv
<1>6. job' = NoJob /\ ~job'.running
  BY DEF JobCommit, NoJob
<1>. QED BY <1>1, <1>2, <1>3, <1>4, <1>5, <1>6 DEF JobCommit, LedgerTypeInv, Jobs, market
\* Listing, skipping and rejecting only move order numbers about.
LEMMA MatchTyped ==
  ASSUME LedgerTypeInv, Match
  PROVE  LedgerTypeInv'
<1>1. CASE ExecuteStart
  BY <1>1, StartTyped
<1>2. CASE \E a \in Accounts : JobAccount(a)
  <2>. PICK a \in Accounts : JobAccount(a)
    BY <1>2
  <2>1. job \in Jobs /\ job.running
    BY DEF JobAccount, LedgerTypeInv, NoJob
  <2>2. Pending(a) \subseteq DOMAIN orders /\ DOMAIN orders \subseteq Nat
    BY DEF Pending, LedgerTypeInv
  <2>3. job' \in Jobs /\ job'.todo = Pending(a) /\ job'.rejected = job.rejected
        /\ job'.fills = job.fills
    BY <2>1, <2>2 DEF JobAccount, Jobs
  <2>. QED BY <2>1, <2>2, <2>3 DEF JobAccount, LedgerTypeInv, ledger, market
<1>3. CASE \E i \in DOMAIN orders : SkipOrder(i) \/ RejectOrder(i)
  <2>. PICK i \in DOMAIN orders : SkipOrder(i) \/ RejectOrder(i)
    BY <1>3
  <2>1. job \in Jobs /\ job.running /\ i \in Nat
    BY DEF SkipOrder, RejectOrder, Turn, LedgerTypeInv, NoJob
  <2>2. /\ job' \in Jobs /\ job'.todo = job.todo \ {i}
        /\ job'.rejected \in {job.rejected, job.rejected \cup {i}}
        /\ job'.fills = job.fills
    <3>1. CASE SkipOrder(i)
      BY <2>1, <3>1 DEF SkipOrder, Jobs
    <3>2. CASE RejectOrder(i)
      BY <2>1, <3>2 DEF RejectOrder, Jobs
    <3>. QED BY <3>1, <3>2
  <2>. QED BY <2>1, <2>2 DEF SkipOrder, RejectOrder, LedgerTypeInv, ledger, market
<1>4. CASE \E i \in DOMAIN orders : FillOrder(i)
  BY <1>4, FillRowTyped
<1>5. CASE JobCommit
  BY <1>5, CommitTyped
<1>. QED BY <1>1, <1>2, <1>3, <1>4, <1>5 DEF Match

\* The other jobs, the next day and a restart.
LEMMA ClockTyped ==
  ASSUME LedgerTypeInv, Clock \/ Restart
  PROVE  LedgerTypeInv'
<1>0. Len(Timetable) \in Nat /\ hour \in Nat
  BY PaperConstants DEF LedgerTypeInv
<1>1. CASE PaperJobSkipped
  BY <1>0, <1>1 DEF PaperJobSkipped, Due, LedgerTypeInv, ledger, market
<1>2. CASE TakeSnapshot
  BY <1>0, <1>2 DEF TakeSnapshot, Due, LedgerTypeInv, ledger, market
<1>3. CASE Collect
  <2>1. close' \in [Symbols -> Prices \cup {0}] /\ latest' \in [Symbols -> Prices \cup {0}]
    BY <1>3 DEF Collect, LedgerTypeInv
  <2>. QED BY <1>0, <1>3, <2>1 DEF Collect, Due, LedgerTypeInv, ledger
<1>4. CASE NewDay
  <2>1. close' \in [Symbols -> Prices \cup {0}] /\ latest' \in [Symbols -> Prices \cup {0}]
    BY <1>4 DEF NewDay, LedgerTypeInv
  <2>. QED BY <1>0, <1>4, <2>1 DEF NewDay, LedgerTypeInv, ledger
<1>5. CASE Restart
  <2>1. hour' \in 1..(Len(Timetable) + 1)
    BY <1>0, <1>5 DEF Restart, LedgerTypeInv
  <2>2. tx' \in [Workers -> Requested] /\ \A w \in Workers : tx'[w].op # "cancel"
    BY <1>5 DEF Restart, Requested, Idle
  <2>3. job' = NoJob /\ ~job'.running
    BY <1>5 DEF Restart, NoJob
  <2>. QED BY <1>5, <2>1, <2>2, <2>3 DEF Restart, LedgerTypeInv, ledger, market
<1>. QED BY <1>1, <1>2, <1>3, <1>4, <1>5 DEF Clock

\* Every step keeps the state well formed.
LEMMA TypeInvNext == LedgerTypeInv /\ [Next]_vars => LedgerTypeInv'
<1>. SUFFICES ASSUME LedgerTypeInv, [Next]_vars PROVE LedgerTypeInv'
  OBVIOUS
<1>1. CASE UNCHANGED vars
  BY <1>1 DEF LedgerTypeInv, vars, ledger, market
<1>. QED BY <1>1, RequestTyped, MatchTyped, ClockTyped DEF Next

\* TypeOK holds always: no balance and no holding ever goes below zero, not
\* even in the middle of the matching job, whatever the orders, the prices
\* and the costs are.
THEOREM TypeCorrect == Spec => []TypeOK
<1>1. LedgerTypeInv => TypeOK
  <2>. SUFFICES ASSUME LedgerTypeInv PROVE TypeOK
    OBVIOUS
  <2>1. \A i \in DOMAIN orders : orders[i] \in Orders
    BY DEF LedgerTypeInv
  <2>2. \A i \in DOMAIN orders : /\ orders[i].status \in Statuses
                                 /\ orders[i].key \in Keys \cup {NoKey}
                                 /\ orders[i].acct \in Accounts
    BY <2>1 DEF Orders
  <2>3. \A n \in DOMAIN fills : fills[n].order \in DOMAIN orders /\ fills[n].net \in Nat
    <3>1. \A n \in DOMAIN fills : fills[n] \in Fills /\ fills[n].order \in DOMAIN orders
      BY DEF LedgerTypeInv
    <3>. QED BY <3>1 DEF Fills
  <2>4. job.running => /\ job.cash \in [Accounts -> Nat]
                       /\ job.position \in [Accounts -> [Symbols -> Position]]
    <3>. SUFFICES ASSUME job.running
                 PROVE  /\ job.cash \in [Accounts -> Nat]
                        /\ job.position \in [Accounts -> [Symbols -> Position]]
      OBVIOUS
    <3>1. job \in Jobs
      BY DEF LedgerTypeInv, NoJob
    <3>. QED BY <3>1 DEF Jobs
  <2>. QED BY <2>2, <2>3, <2>4 DEF TypeOK, LedgerTypeInv
<1>. QED BY <1>1, LedgerTypeInit, TypeInvNext, PTL DEF Spec
(***************************************************************************)
(* What makes orders, fills and keys agree.  The matching job writes last  *)
(* and over whatever is there, so it is right only because what it has in  *)
(* hand was pending when it was listed, is listed once (its account is no  *)
(* longer to be listed), and has no committed fill.                        *)
(***************************************************************************)
KeysUnique ==
  \A i, j \in DOMAIN orders :
    orders[i].key \in Keys /\ orders[i].key = orders[j].key /\ orders[i].acct = orders[j].acct
      => i = j

Once(f) == \A m, n \in DOMAIN f : f[m].order = f[n].order => m = n

FillsSettled ==
  /\ Once(fills)
  /\ \A i \in FilledIn(fills) : orders[i].status \in {"FILLED", "CANCELED"}
  /\ \A i \in DOMAIN orders : orders[i].status = "FILLED" => i \in FilledIn(fills)

InHand == job.todo \cup job.rejected \cup FilledIn(job.fills)

JobInHand ==
  job.running =>
    /\ \A i \in InHand : /\ orders[i].acct \notin job.accts
                         /\ orders[i].status \in {"CREATED", "CANCELED"}
                         /\ i \notin FilledIn(fills)
    /\ job.todo \cap (job.rejected \cup FilledIn(job.fills)) = {}
    /\ job.rejected \cap FilledIn(job.fills) = {}
    /\ Once(job.fills)

OrderInv == LedgerTypeInv /\ KeysUnique /\ FillsSettled /\ JobInHand

\* The initial state has no order at all.
LEMMA OrderInvInit == Init => OrderInv
  BY LedgerTypeInit DEF Init, OrderInv, KeysUnique, FillsSettled, Once, FilledIn, JobInHand, NoJob

\* A new order has a key of its own, and is not in the job's hands.
LEMMA SubmitKeepsOrders ==
  ASSUME OrderInv, NEW w \in Workers, SubmitCommit(w)
  PROVE  KeysUnique' /\ FillsSettled' /\ JobInHand'
<1>. DEFINE r == tx[w].request
            k == Len(orders) + 1
<1>1. /\ DOMAIN orders' = DOMAIN orders \cup {k}
      /\ k \notin DOMAIN orders
      /\ \A i \in DOMAIN orders : orders'[i] = orders[i]
      /\ orders'[k].key = tx[w].key /\ orders'[k].acct = r.acct /\ orders'[k].status = "CREATED"
  BY DEF SubmitCommit, OrderInv, LedgerTypeInv
<1>2. UNCHANGED <<fills, job>>
  BY DEF SubmitCommit, ledger
<1>3. KeysUnique'
  <2>1. tx[w].key \in Keys =>
          \A i \in DOMAIN orders : ~(orders[i].key = tx[w].key /\ orders[i].acct = r.acct)
    BY PaperConstants DEF SubmitCommit, KeyFree, Ids
  <2>. QED BY <1>1, <2>1 DEF KeysUnique, OrderInv
<1>4. FilledIn(fills) \subseteq DOMAIN orders
  BY DEF FilledIn, OrderInv, LedgerTypeInv
<1>5. FillsSettled'
  BY <1>1, <1>2, <1>4 DEF FillsSettled, OrderInv, FilledIn, Once
<1>6. job.running => InHand \subseteq DOMAIN orders
  BY DEF InHand, FilledIn, OrderInv, LedgerTypeInv
<1>7. JobInHand'
  <2>. SUFFICES ASSUME job.running PROVE JobInHand'
    BY <1>2 DEF JobInHand
  <2>1. InHand' = InHand /\ FilledIn(fills)' = FilledIn(fills)
    BY <1>2 DEF InHand, FilledIn
  <2>2. \A i \in InHand : i \in DOMAIN orders /\ orders'[i] = orders[i]
    BY <1>1, <1>6
  <2>3. JobInHand
    BY DEF OrderInv
  <2>. QED BY <1>2, <2>1, <2>2, <2>3 DEF JobInHand
<1>. QED BY <1>3, <1>5, <1>7

\* A cancellation takes a fill's order to CANCELED at most.
LEMMA CancelKeepsOrders ==
  ASSUME OrderInv, NEW w \in Workers, CancelCommit(w)
  PROVE  KeysUnique' /\ FillsSettled' /\ JobInHand'
<1>. DEFINE k == tx[w].order
<1>1. k \in DOMAIN orders
  BY DEF CancelCommit, OrderInv, LedgerTypeInv
<1>2. /\ DOMAIN orders' = DOMAIN orders
      /\ \A i \in DOMAIN orders : /\ orders'[i].key = orders[i].key
                                  /\ orders'[i].acct = orders[i].acct
                                  /\ i # k => orders'[i].status = orders[i].status
      /\ orders'[k].status = "CANCELED"
  <2>1. \A i \in DOMAIN orders : orders[i] \in Orders
    BY DEF OrderInv, LedgerTypeInv
  <2>2. orders' = [orders EXCEPT ![k] = [orders[k] EXCEPT !.status = "CANCELED"]]
    BY DEF CancelCommit
  <2>3. DOMAIN orders' = DOMAIN orders
        /\ \A i \in DOMAIN orders :
             orders'[i] = IF i = k THEN [orders[i] EXCEPT !.status = "CANCELED"] ELSE orders[i]
    BY <1>1, <2>2 DEF OrderInv, LedgerTypeInv
  <2>. QED BY <1>1, <2>1, <2>3 DEF Orders
<1>3. UNCHANGED <<fills, job>>
  BY DEF CancelCommit, ledger
<1>4. KeysUnique'
  BY <1>2 DEF KeysUnique, OrderInv
<1>5. FilledIn(fills) \subseteq DOMAIN orders
  BY DEF FilledIn, OrderInv, LedgerTypeInv
<1>6. FillsSettled'
  BY <1>2, <1>3, <1>5 DEF FillsSettled, OrderInv, FilledIn, Once
<1>7. job.running => InHand \subseteq DOMAIN orders
  BY DEF InHand, FilledIn, OrderInv, LedgerTypeInv
<1>8. JobInHand'
  BY <1>2, <1>3, <1>7 DEF JobInHand, OrderInv, FilledIn, InHand, Once
<1>. QED BY <1>4, <1>6, <1>8
\* Listing an account takes in pending orders only, none of them at hand yet.
LEMMA ListingKeepsOrders ==
  ASSUME OrderInv, NEW a \in Accounts, JobAccount(a)
  PROVE  JobInHand'
<1>1. job \in Jobs /\ job.running
  BY DEF JobAccount, OrderInv, LedgerTypeInv, NoJob
<1>2. /\ job'.running /\ job'.accts = job.accts \ {a} /\ job'.todo = Pending(a)
      /\ job'.rejected = job.rejected /\ job'.fills = job.fills
  BY <1>1 DEF JobAccount, Jobs
<1>3. job.todo = {} /\ a \in job.accts /\ UNCHANGED <<orders, fills>>
  BY DEF JobAccount, ledger
<1>4. \A i \in Pending(a) : /\ i \in DOMAIN orders /\ orders[i].acct = a
                            /\ orders[i].status = "CREATED"
  BY DEF Pending
<1>5. \A i \in Pending(a) : i \notin FilledIn(fills)
  BY <1>4 DEF OrderInv, FillsSettled
<1>6. \A i \in job.rejected \cup FilledIn(job.fills) :
        /\ orders[i].acct \notin job.accts /\ orders[i].status \in {"CREATED", "CANCELED"}
        /\ i \notin FilledIn(fills)
  BY <1>1 DEF OrderInv, JobInHand, InHand
<1>7. InHand' = Pending(a) \cup job.rejected \cup FilledIn(job.fills)
  BY <1>2 DEF InHand, FilledIn
<1>8. \A i \in InHand' : /\ orders'[i].acct \notin job'.accts
                         /\ orders'[i].status \in {"CREATED", "CANCELED"}
                         /\ i \notin FilledIn(fills)
  BY <1>2, <1>3, <1>4, <1>5, <1>6, <1>7
<1>9. Pending(a) \cap (job.rejected \cup FilledIn(job.fills)) = {}
  BY <1>3, <1>4, <1>6
<1>10. FilledIn(fills)' = FilledIn(fills) /\ FilledIn(job.fills)' = FilledIn(job.fills)
  BY <1>2, <1>3 DEF FilledIn
<1>11. job.rejected \cap FilledIn(job.fills) = {} /\ Once(job.fills)
  BY <1>1 DEF OrderInv, JobInHand
<1>. QED BY <1>2, <1>8, <1>9, <1>10, <1>11 DEF JobInHand, Once

\* An order the job has decided leaves the list and is decided once.
LEMMA TurnKeepsOrders ==
  ASSUME OrderInv, NEW i \in DOMAIN orders, SkipOrder(i) \/ RejectOrder(i) \/ FillOrder(i)
  PROVE  JobInHand'
<1>1. job \in Jobs /\ job.running /\ i \in job.todo
  BY DEF SkipOrder, RejectOrder, FillOrder, Turn, OrderInv, LedgerTypeInv, NoJob
<1>2. UNCHANGED <<orders, fills>>
  BY DEF SkipOrder, RejectOrder, FillOrder, ledger
<1>3. JobInHand
  BY DEF OrderInv
<1>4. /\ job'.running /\ job'.accts = job.accts /\ job'.todo = job.todo \ {i}
      /\ \/ job'.rejected \in {job.rejected, job.rejected \cup {i}} /\ job'.fills = job.fills
         \/ /\ job'.rejected = job.rejected
            /\ job'.fills = Append(job.fills, [order |-> i, net |-> Net(orders[i])])
  <2>1. CASE SkipOrder(i)
    BY <1>1, <2>1 DEF SkipOrder, Jobs
  <2>2. CASE RejectOrder(i)
    BY <1>1, <2>2 DEF RejectOrder, Jobs
  <2>3. CASE FillOrder(i)
    BY <1>1, <2>3 DEF FillOrder, Jobs
  <2>. QED BY <2>1, <2>2, <2>3
<1>5. job.fills \in Seq(Fills)
  BY <1>1 DEF Jobs
<1>6. CASE job'.rejected \in {job.rejected, job.rejected \cup {i}} /\ job'.fills = job.fills
  <2>1. FilledIn(fills)' = FilledIn(fills) /\ FilledIn(job.fills)' = FilledIn(job.fills)
    BY <1>2, <1>6 DEF FilledIn
  <2>2. InHand' \subseteq InHand
    BY <1>1, <1>4, <1>6, <2>1 DEF InHand
  <2>. QED BY <1>1, <1>2, <1>3, <1>4, <1>6, <2>1, <2>2 DEF JobInHand, InHand, Once
<1>7. CASE /\ job'.rejected = job.rejected
           /\ job'.fills = Append(job.fills, [order |-> i, net |-> Net(orders[i])])
  <2>1. /\ DOMAIN job'.fills = DOMAIN job.fills \cup {Len(job.fills) + 1}
        /\ Len(job.fills) + 1 \notin DOMAIN job.fills
        /\ \A n \in DOMAIN job.fills : job'.fills[n] = job.fills[n]
        /\ job'.fills[Len(job.fills) + 1].order = i
    BY <1>5, <1>7
  <2>2. FilledIn(fills)' = FilledIn(fills) /\ FilledIn(job.fills)' = FilledIn(job.fills) \cup {i}
    BY <1>2, <2>1 DEF FilledIn
  <2>3. i \notin FilledIn(job.fills) /\ Once(job.fills)
    BY <1>1, <1>3 DEF JobInHand
  <2>4. Once(job'.fills)
    BY <2>1, <2>3 DEF Once, FilledIn
  <2>5. InHand' \subseteq InHand
    BY <1>1, <1>4, <1>7, <2>2 DEF InHand
  <2>. QED BY <1>1, <1>2, <1>3, <1>4, <1>7, <2>2, <2>4, <2>5 DEF JobInHand, InHand, Once
<1>. QED BY <1>4, <1>6, <1>7

\* The commit fills what has no fill, and what it fills has one.
LEMMA CommitKeepsOrders ==
  ASSUME OrderInv, JobCommit
  PROVE  KeysUnique' /\ FillsSettled' /\ JobInHand'
<1>1. job \in Jobs /\ job.running
  BY DEF JobCommit, OrderInv, LedgerTypeInv, NoJob
<1>2. /\ DOMAIN orders' = DOMAIN orders
      /\ \A i \in DOMAIN orders :
           /\ orders'[i].key = orders[i].key /\ orders'[i].acct = orders[i].acct
           /\ orders'[i].status = IF i \in FilledIn(job.fills) THEN "FILLED"
                                  ELSE IF i \in job.rejected THEN "REJECTED"
                                  ELSE orders[i].status
  <2>1. \A i \in DOMAIN orders : orders[i] \in Orders
    BY DEF OrderInv, LedgerTypeInv
  <2>. QED BY <2>1 DEF JobCommit, Orders
<1>3. fills \in Seq(Fills) /\ job.fills \in Seq(Fills) /\ fills' = fills \o job.fills
  BY <1>1 DEF OrderInv, LedgerTypeInv, Jobs, JobCommit
<1>4. /\ \A n \in DOMAIN fills : n \in DOMAIN fills' /\ fills'[n] = fills[n]
      /\ \A n \in DOMAIN job.fills : /\ Len(fills) + n \in DOMAIN fills'
                                     /\ fills'[Len(fills) + n] = job.fills[n]
      /\ \A n \in DOMAIN fills' : n \in DOMAIN fills \/ n - Len(fills) \in DOMAIN job.fills
      /\ \A n \in DOMAIN fills' : n \in Int /\ Len(fills) \in Int
  BY <1>3
<1>5. FilledIn(fills') = FilledIn(fills) \cup FilledIn(job.fills)
  BY <1>4 DEF FilledIn
<1>6. /\ Once(fills) /\ Once(job.fills)
      /\ FilledIn(fills) \cap (job.rejected \cup FilledIn(job.fills)) = {}
  BY <1>1 DEF OrderInv, FillsSettled, JobInHand, InHand
<1>7. Once(fills')
  <2>. SUFFICES ASSUME NEW m \in DOMAIN fills', NEW n \in DOMAIN fills',
                       fills'[m].order = fills'[n].order
                PROVE  m = n
    BY DEF Once
  <2>1. CASE m \in DOMAIN fills /\ n \in DOMAIN fills
    BY <2>1, <1>4, <1>6 DEF Once
  <2>2. CASE m \in DOMAIN fills /\ n - Len(fills) \in DOMAIN job.fills
    <3>1. fills'[m].order \in FilledIn(fills)
      BY <2>2, <1>4 DEF FilledIn
    <3>2. fills'[n].order \in FilledIn(job.fills)
      BY <2>2, <1>4 DEF FilledIn
    <3>. QED BY <3>1, <3>2, <1>6
  <2>3. CASE n \in DOMAIN fills /\ m - Len(fills) \in DOMAIN job.fills
    <3>1. fills'[n].order \in FilledIn(fills)
      BY <2>3, <1>4 DEF FilledIn
    <3>2. fills'[m].order \in FilledIn(job.fills)
      BY <2>3, <1>4 DEF FilledIn
    <3>. QED BY <3>1, <3>2, <1>6
  <2>4. CASE m - Len(fills) \in DOMAIN job.fills /\ n - Len(fills) \in DOMAIN job.fills
    <3>1. job.fills[m - Len(fills)].order = job.fills[n - Len(fills)].order
      BY <2>4, <1>4
    <3>2. m - Len(fills) = n - Len(fills)
      BY <2>4, <3>1, <1>6 DEF Once
    <3>3. m \in Int /\ n \in Int /\ Len(fills) \in Int
      BY <1>4
    <3>. QED BY <3>2, <3>3
  <2>. QED BY <1>4, <2>1, <2>2, <2>3, <2>4
<1>8. FilledIn(fills) \subseteq DOMAIN orders /\ FilledIn(job.fills) \subseteq DOMAIN orders
  BY <1>1 DEF FilledIn, OrderInv, LedgerTypeInv
<1>9. FillsSettled'
  <2>1. \A i \in FilledIn(fills') : orders'[i].status \in {"FILLED", "CANCELED"}
    BY <1>2, <1>5, <1>6, <1>8 DEF OrderInv, FillsSettled
  <2>2. \A i \in DOMAIN orders : orders'[i].status = "FILLED" => i \in FilledIn(fills')
    BY <1>2, <1>5 DEF OrderInv, FillsSettled
  <2>3. FilledIn(fills)' = FilledIn(fills')
    BY DEF FilledIn
  <2>. QED BY <1>2, <1>7, <2>1, <2>2, <2>3 DEF FillsSettled, Once
<1>10. KeysUnique'
  BY <1>2 DEF KeysUnique, OrderInv
<1>11. ~job'.running
  BY DEF JobCommit, NoJob
<1>. QED BY <1>9, <1>10, <1>11 DEF JobInHand
\* A set whose members are all the same has at most one.
LEMMA AtMostOne ==
  ASSUME NEW S, \A x, y \in S : x = y
  PROVE  Cardinality(S) <= 1
<1>1. CASE S = {}
  BY <1>1, FS_EmptySet
<1>2. CASE S # {}
  <2>. PICK x \in S : TRUE
    BY <1>2
  <2>1. S = {x}
    OBVIOUS
  <2>. QED BY <2>1, FS_Singleton
<1>. QED BY <1>1, <1>2

\* Every step keeps orders, fills and keys in agreement.
LEMMA OrderInvNext == OrderInv /\ [Next]_vars => OrderInv'
<1>. SUFFICES ASSUME OrderInv, [Next]_vars PROVE OrderInv'
  OBVIOUS
<1>1. LedgerTypeInv'
  BY TypeInvNext DEF OrderInv
<1>2. ASSUME UNCHANGED <<orders, fills, job>>
      PROVE  KeysUnique' /\ FillsSettled' /\ JobInHand'
  BY <1>2 DEF OrderInv, KeysUnique, FillsSettled, JobInHand, InHand, FilledIn, Once
<1>3. ASSUME UNCHANGED <<orders, fills>>
      PROVE  KeysUnique' /\ FillsSettled'
  BY <1>3 DEF OrderInv, KeysUnique, FillsSettled, FilledIn, Once
<1>4. CASE UNCHANGED vars
  BY <1>1, <1>2, <1>4 DEF OrderInv, vars, ledger
<1>5. ASSUME NEW w \in Workers, Request(w)
      PROVE  OrderInv'
  <2>1. CASE SubmitCommit(w)
    BY <1>1, <2>1, SubmitKeepsOrders DEF OrderInv
  <2>2. CASE CancelCommit(w)
    BY <1>1, <2>2, CancelKeepsOrders DEF OrderInv
  <2>3. CASE \/ \E r \in Requests, key \in Keys \cup {NoKey} : SubmitLookup(w, r, key)
             \/ SubmitFails(w)
             \/ \E i \in DOMAIN orders : CancelLoad(w, i)
    <3>1. UNCHANGED <<orders, fills, job>>
      BY <2>3 DEF SubmitLookup, SubmitFails, CancelLoad, ledger
    <3>. QED BY <1>1, <1>2, <3>1 DEF OrderInv
  <2>. QED BY <1>5, <2>1, <2>2, <2>3 DEF Request
<1>6. CASE Match
  <2>1. CASE ExecuteStart
    <3>1. UNCHANGED <<orders, fills>>
      BY <2>1 DEF ExecuteStart, ledger
    <3>2. job'.todo = {} /\ job'.rejected = {} /\ job'.fills = <<>>
      BY <2>1 DEF ExecuteStart
    <3>3. JobInHand'
      BY <3>2 DEF JobInHand, InHand, FilledIn, Once
    <3>. QED BY <1>1, <1>3, <3>1, <3>3 DEF OrderInv
  <2>2. CASE \E a \in Accounts : JobAccount(a)
    <3>1. UNCHANGED <<orders, fills>>
      BY <2>2 DEF JobAccount, ledger
    <3>. QED BY <1>1, <1>3, <2>2, <3>1, ListingKeepsOrders DEF OrderInv
  <2>3. CASE \E i \in DOMAIN orders : SkipOrder(i) \/ RejectOrder(i) \/ FillOrder(i)
    <3>1. UNCHANGED <<orders, fills>>
      BY <2>3 DEF SkipOrder, RejectOrder, FillOrder, ledger
    <3>. QED BY <1>1, <1>3, <2>3, <3>1, TurnKeepsOrders DEF OrderInv
  <2>4. CASE JobCommit
    BY <1>1, <2>4, CommitKeepsOrders DEF OrderInv
  <2>. QED BY <1>6, <2>1, <2>2, <2>3, <2>4 DEF Match
<1>7. CASE Clock
  <2>1. UNCHANGED <<orders, fills, job>>
    BY <1>7 DEF Clock, PaperJobSkipped, TakeSnapshot, Collect, NewDay, ledger
  <2>. QED BY <1>1, <1>2, <2>1 DEF OrderInv
<1>8. CASE Restart
  <2>1. UNCHANGED <<orders, fills>> /\ ~job'.running
    BY <1>8 DEF Restart, NoJob, ledger
  <2>. QED BY <1>1, <1>3, <2>1 DEF OrderInv, JobInHand
<1>. QED BY <1>4, <1>5, <1>6, <1>7, <1>8 DEF Next

\* The invariant holds of every reachable state.
LEMMA OrderInvAlways == Spec => []OrderInv
  BY OrderInvInit, OrderInvNext, PTL DEF Spec

\* A key sent twice makes one order of the account, whoever sends it when:
\* the lookup before the insert alone would not do, the unique constraint
\* at the insert does.
THEOREM KeysAreHonoured == Spec => []OneOrderPerKey
<1>1. OrderInv => OneOrderPerKey
  <2>. SUFFICES ASSUME OrderInv, NEW a \in Accounts, NEW key \in Keys
                PROVE  Cardinality(Ids(key, a)) <= 1
    BY DEF OneOrderPerKey
  <2>1. \A i, j \in Ids(key, a) : i = j
    BY DEF OrderInv, KeysUnique, Ids
  <2>. QED BY <2>1, AtMostOne
<1>. QED BY <1>1, OrderInvAlways, PTL

\* An order marked FILLED has one fill, a pending or a rejected one has none,
\* and none is filled twice, though a cancellation and the matching job may
\* write over each other.
THEOREM FillsAgree == Spec => []FillsMatchOrders
<1>1. OrderInv => FillsMatchOrders
  <2>. SUFFICES ASSUME OrderInv, NEW i \in DOMAIN orders
                PROVE  LET mine == {n \in DOMAIN fills : fills[n].order = i} IN
                       /\ Cardinality(mine) <= 1
                       /\ orders[i].status = "FILLED" => mine # {}
                       /\ orders[i].status \in {"CREATED", "REJECTED"} => mine = {}
    BY DEF FillsMatchOrders
  <2>. DEFINE mine == {n \in DOMAIN fills : fills[n].order = i}
  <2>1. \A m, n \in mine : m = n
    BY DEF OrderInv, FillsSettled, Once
  <2>2. mine # {} <=> i \in FilledIn(fills)
    BY DEF FilledIn
  <2>3. Cardinality(mine) <= 1
    BY <2>1, AtMostOne
  <2>. QED BY <2>2, <2>3 DEF OrderInv, FillsSettled
<1>. QED BY <1>1, OrderInvAlways, PTL

\* A step leaves a settled order alone.
LEMMA SettledStep ==
  ASSUME OrderInv, [Next]_vars, NEW i \in DOMAIN orders, Settled(i)
  PROVE  orders'[i].status = orders[i].status /\ Settled(i)'
<1>1. orders[i].status \in Decided /\ orders[i].status # "CREATED"
  BY DEF Settled, Decided
<1>2. \A w \in Workers : tx[w].op = "cancel" => tx[w].order # i
  BY DEF Settled
<1>3. job.running => i \notin InHand
  BY DEF Settled, InHand
<1>4. ASSUME orders'[i].status = orders[i].status,
             job'.running => i \notin InHand',
             \A w \in Workers : tx'[w].op = "cancel" => tx'[w].order # i
      PROVE  orders'[i].status = orders[i].status /\ Settled(i)'
  BY <1>1, <1>4 DEF Settled, InHand, FilledIn
<1>5. ASSUME UNCHANGED job
      PROVE  job'.running => i \notin InHand'
  BY <1>3, <1>5 DEF InHand, FilledIn
<1>6. tx \in [Workers -> Requested]
  BY DEF OrderInv, LedgerTypeInv
<1>7. CASE UNCHANGED vars
  BY <1>2, <1>4, <1>5, <1>7 DEF vars
<1>8. ASSUME NEW w \in Workers, Request(w)
      PROVE  orders'[i].status = orders[i].status /\ Settled(i)'
  <2>1. UNCHANGED job
    BY <1>8 DEF Request, SubmitLookup, SubmitCommit, SubmitFails, CancelLoad, CancelCommit
  <2>2. \A v \in Workers : tx'[v].op = "cancel" => tx'[v].order # i
    <3>1. CASE SubmitCommit(w) \/ SubmitFails(w) \/ CancelCommit(w)
      BY <1>2, <1>6, <3>1 DEF SubmitCommit, SubmitFails, CancelCommit, Idle
    <3>2. CASE \E r \in Requests, key \in Keys \cup {NoKey} : SubmitLookup(w, r, key)
      BY <1>2, <1>6, <3>2 DEF SubmitLookup
    <3>3. CASE \E k \in DOMAIN orders : CancelLoad(w, k)
      BY <1>1, <1>2, <1>6, <3>3 DEF CancelLoad
    <3>. QED BY <1>8, <3>1, <3>2, <3>3 DEF Request
  <2>3. orders'[i].status = orders[i].status
    <3>1. CASE SubmitCommit(w)
      BY <3>1 DEF SubmitCommit, OrderInv, LedgerTypeInv
    <3>2. CASE CancelCommit(w)
      BY <1>2, <3>2 DEF CancelCommit, OrderInv, LedgerTypeInv
    <3>3. CASE ~SubmitCommit(w) /\ ~CancelCommit(w)
      BY <1>8, <3>3 DEF Request, SubmitLookup, SubmitFails, CancelLoad
    <3>. QED BY <3>1, <3>2, <3>3
  <2>. QED BY <1>4, <1>5, <2>1, <2>2, <2>3
<1>9. CASE Match
  <2>1. UNCHANGED tx
    BY <1>9 DEF Match, ExecuteStart, JobAccount, SkipOrder, RejectOrder, FillOrder, JobCommit
  <2>2. job'.running => i \notin InHand'
    <3>1. CASE ExecuteStart
      BY <3>1 DEF ExecuteStart, InHand, FilledIn
    <3>2. CASE \E a \in Accounts : JobAccount(a)
      <4>. PICK a \in Accounts : JobAccount(a)
        BY <3>2
      <4>1. job \in Jobs /\ job.running
        BY DEF JobAccount, OrderInv, LedgerTypeInv, NoJob
      <4>2. /\ job'.todo = Pending(a) /\ job'.rejected = job.rejected
            /\ job'.fills = job.fills
        BY <4>1 DEF JobAccount, Jobs
      <4>3. i \notin Pending(a)
        BY <1>1 DEF Pending
      <4>. QED BY <1>3, <4>1, <4>2, <4>3 DEF InHand, FilledIn
    <3>3. CASE \E k \in DOMAIN orders : SkipOrder(k) \/ RejectOrder(k) \/ FillOrder(k)
      <4>. PICK k \in DOMAIN orders : SkipOrder(k) \/ RejectOrder(k) \/ FillOrder(k)
        BY <3>3
      <4>1. job \in Jobs /\ job.running /\ k \in job.todo
        BY DEF SkipOrder, RejectOrder, FillOrder, Turn, OrderInv, LedgerTypeInv, NoJob
      <4>2. k # i
        BY <1>3, <4>1 DEF InHand
      <4>3. /\ job'.todo \subseteq job.todo /\ job'.rejected \subseteq job.rejected \cup {k}
            /\ job'.fills \in {job.fills, Append(job.fills, [order |-> k, net |-> Net(orders[k])])}
        <5>1. CASE SkipOrder(k)
          BY <4>1, <5>1 DEF SkipOrder, Jobs
        <5>2. CASE RejectOrder(k)
          BY <4>1, <5>2 DEF RejectOrder, Jobs
        <5>3. CASE FillOrder(k)
          BY <4>1, <5>3 DEF FillOrder, Jobs
        <5>. QED BY <5>1, <5>2, <5>3
      <4>4. FilledIn(job'.fills) \subseteq FilledIn(job.fills) \cup {k}
        <5>1. job.fills \in Seq(Fills)
          BY <4>1 DEF Jobs
        <5>. DEFINE f == Append(job.fills, [order |-> k, net |-> Net(orders[k])])
        <5>2. \A n \in DOMAIN f : f[n].order = k \/ (n \in DOMAIN job.fills /\ f[n] = job.fills[n])
          BY <5>1
        <5>3. FilledIn(f) \subseteq FilledIn(job.fills) \cup {k}
          BY <5>2 DEF FilledIn
        <5>. QED BY <4>3, <5>3
      <4>5. InHand' = job'.todo \cup job'.rejected \cup FilledIn(job'.fills)
        BY DEF InHand, FilledIn
      <4>. QED BY <1>3, <4>1, <4>2, <4>3, <4>4, <4>5 DEF InHand
    <3>4. CASE JobCommit
      BY <3>4 DEF JobCommit, NoJob
    <3>. QED BY <1>9, <3>1, <3>2, <3>3, <3>4 DEF Match
  <2>3. orders'[i].status = orders[i].status
    <3>1. CASE JobCommit
      <4>1. job.running /\ i \notin job.rejected \cup FilledIn(job.fills)
        BY <1>3, <3>1 DEF JobCommit, InHand
      <4>2. orders[i] \in Orders
        BY DEF OrderInv, LedgerTypeInv
      <4>. QED BY <3>1, <4>1, <4>2 DEF JobCommit, Orders
    <3>2. CASE ~JobCommit
      BY <1>9, <3>2 DEF Match, ExecuteStart, JobAccount, SkipOrder, RejectOrder, FillOrder
    <3>. QED BY <3>1, <3>2
  <2>. QED BY <1>2, <1>4, <2>1, <2>2, <2>3
<1>10. CASE Clock
  <2>1. UNCHANGED <<orders, job, tx>>
    BY <1>10 DEF Clock, PaperJobSkipped, TakeSnapshot, Collect, NewDay
  <2>. QED BY <1>2, <1>4, <1>5, <2>1
<1>11. CASE Restart
  BY <1>4, <1>11 DEF Restart, NoJob, Idle
<1>. QED BY <1>7, <1>8, <1>9, <1>10, <1>11 DEF Next

\* A decided order that nobody has in hand keeps its status for good: no
\* request starts on it again and no later run of the job lists it.
THEOREM DecidedStays == Spec => SettledOrdersStay
<1>1. OrderInv /\ [Next]_vars =>
        [\A i \in DOMAIN orders :
           Settled(i) => orders'[i].status = orders[i].status /\ Settled(i)']_vars
  BY SettledStep
<1>. QED BY <1>1, OrderInvAlways, PTL DEF SettledOrdersStay, Spec

----
(***************************************************************************)
(* The books.  What the accounts hold is what a list of fills makes of     *)
(* them: the committed rows with the committed fills, and the job's        *)
(* working copies with the fills it is about to add.  `o` is the table of  *)
(* orders, `c` and `p` are the cash and the positions, `f` the fills.      *)
(***************************************************************************)
Trades(o, f, a, s, side) ==
  {n \in DOMAIN f : /\ o[f[n].order].acct = a
                    /\ o[f[n].order].sym = s
                    /\ o[f[n].order].side = side}
Nets(f) == [n \in DOMAIN f |-> f[n].net]
Qtys(o, f) == [n \in DOMAIN f |-> o[f[n].order].qty]

NetSum(o, f, a, s, side) == SumFunctionOnSet(Nets(f), Trades(o, f, a, s, side))
QtySum(o, f, a, s, side) == SumFunctionOnSet(Qtys(o, f), Trades(o, f, a, s, side))

CashFlow(o, f, a) == [s \in Symbols |-> NetSum(o, f, a, s, "SELL") - NetSum(o, f, a, s, "BUY")]
SharesHeld(o, f, a, s) == QtySum(o, f, a, s, "BUY") - QtySum(o, f, a, s, "SELL")

Costs(p, a) == [s \in Symbols |-> p[a][s].avg * p[a][s].qty]
Gains(p, a) == [s \in Symbols |-> p[a][s].pnl]

\* What was held after each of the account's buys.
Buys(o, f, a) == {n \in DOMAIN f : o[f[n].order].acct = a /\ o[f[n].order].side = "BUY"}
UpTo(o, f, a, n, side) == {m \in Trades(o, f, a, o[f[n].order].sym, side) : m <= n}
HeldAt(o, f, a) ==
  [n \in Buys(o, f, a) |-> SumFunctionOnSet(Qtys(o, f), UpTo(o, f, a, n, "BUY"))
                           - SumFunctionOnSet(Qtys(o, f), UpTo(o, f, a, n, "SELL"))]
Drift(o, f, a) == SumFunctionOnSet(HeldAt(o, f, a), Buys(o, f, a))

CashAgrees(o, c, f, a) == c[a] = InitialCash + SumFunctionOnSet(CashFlow(o, f, a), Symbols)
SharesAgree(o, p, f, a) == \A s \in Symbols : p[a][s].qty = SharesHeld(o, f, a, s)
Balanced(o, c, p, f, a) ==
  Near(c[a] + SumFunctionOnSet(Costs(p, a), Symbols),
       InitialCash + SumFunctionOnSet(Gains(p, a), Symbols), Drift(o, f, a))

Books(o, c, p, f) ==
  \A a \in Accounts : CashAgrees(o, c, f, a) /\ SharesAgree(o, p, f, a) /\ Balanced(o, c, p, f, a)

\* The rows of the fills are orders, and money and positions are amounts.
BookEntries(o, f) == o \in Seq(Orders) /\ f \in Seq(Fills) /\ \A n \in DOMAIN f : f[n].order \in DOMAIN o
BookAmounts(c, p) == c \in [Accounts -> Nat] /\ p \in [Accounts -> [Symbols -> Position]]

\* What a fill was for does not change with the status of its order, nor with
\* the orders that come after it.
LEMMA BooksKept ==
  ASSUME NEW o, NEW q, NEW c, NEW p, NEW f, Books(o, c, p, f),
         \A n \in DOMAIN f : /\ q[f[n].order].acct = o[f[n].order].acct
                             /\ q[f[n].order].sym = o[f[n].order].sym
                             /\ q[f[n].order].side = o[f[n].order].side
                             /\ q[f[n].order].qty = o[f[n].order].qty
  PROVE  Books(q, c, p, f)
<1>1. Qtys(q, f) = Qtys(o, f) /\ \A a, s, side : Trades(q, f, a, s, side) = Trades(o, f, a, s, side)
  BY DEF Qtys, Trades
<1>2. \A a, s, side : /\ NetSum(q, f, a, s, side) = NetSum(o, f, a, s, side)
                      /\ QtySum(q, f, a, s, side) = QtySum(o, f, a, s, side)
  BY <1>1 DEF NetSum, QtySum
<1>3. \A a : CashFlow(q, f, a) = CashFlow(o, f, a) /\ \A s : SharesHeld(q, f, a, s) = SharesHeld(o, f, a, s)
  BY <1>2 DEF CashFlow, SharesHeld
<1>4. \A a : Buys(q, f, a) = Buys(o, f, a) /\ \A n \in Buys(o, f, a) : n \in DOMAIN f
  BY DEF Buys
<1>5. \A a, side : \A n \in DOMAIN f : UpTo(q, f, a, n, side) = UpTo(o, f, a, n, side)
  BY <1>1 DEF UpTo
<1>6. \A a : HeldAt(q, f, a) = HeldAt(o, f, a)
  BY <1>1, <1>4, <1>5 DEF HeldAt
<1>7. \A a : Drift(q, f, a) = Drift(o, f, a)
  BY <1>4, <1>6 DEF Drift
<1>. QED BY <1>3, <1>7 DEF Books, CashAgrees, SharesAgree, Balanced

LEMMA TradesFinite ==
  ASSUME NEW o, NEW f, BookEntries(o, f), NEW a, NEW s, NEW side
  PROVE  /\ IsFiniteSet(Trades(o, f, a, s, side)) /\ Trades(o, f, a, s, side) \subseteq DOMAIN f
         /\ IsFiniteSet(Buys(o, f, a)) /\ Buys(o, f, a) \subseteq DOMAIN f
         /\ \A n \in DOMAIN f : /\ n \in Nat /\ n <= Len(f)
                                /\ Nets(f)[n] \in Nat /\ Qtys(o, f)[n] \in Nat
                                /\ f[n].order \in DOMAIN o
         /\ NetSum(o, f, a, s, side) \in Int /\ QtySum(o, f, a, s, side) \in Int
<1>1. f \in Seq(Fills) /\ o \in Seq(Orders) /\ Len(f) \in Nat /\ DOMAIN f = 1 .. Len(f)
  BY DEF BookEntries
<1>2. IsFiniteSet(DOMAIN f)
  BY <1>1, FS_Interval
<1>3. Trades(o, f, a, s, side) \subseteq DOMAIN f /\ Buys(o, f, a) \subseteq DOMAIN f
  BY DEF Trades, Buys
<1>4. IsFiniteSet(Trades(o, f, a, s, side)) /\ IsFiniteSet(Buys(o, f, a))
  BY <1>2, <1>3, FS_Subset
<1>5. ASSUME NEW n \in DOMAIN f
      PROVE  Nets(f)[n] \in Nat /\ Qtys(o, f)[n] \in Nat /\ f[n].order \in DOMAIN o
  <2>1. f[n] \in Fills /\ f[n].order \in DOMAIN o
    BY <1>1 DEF BookEntries
  <2>2. o[f[n].order] \in Orders
    BY <1>1, <2>1
  <2>3. f[n].net \in Nat
    BY <2>1 DEF Fills
  <2>4. o[f[n].order].qty \in Nat
    BY <2>2 DEF Orders
  <2>. QED BY <2>1, <2>3, <2>4 DEF Nets, Qtys
<1>6. NetSum(o, f, a, s, side) \in Int
  BY <1>3, <1>4, <1>5, SumType DEF NetSum
<1>7. QtySum(o, f, a, s, side) \in Int
  BY <1>3, <1>4, <1>5, SumType DEF QtySum
<1>. QED BY <1>1, <1>3, <1>4, <1>5, <1>6, <1>7

\* Sums over a list that has one more row.
Grown(v, w, T, n) ==
  /\ IsFiniteSet(T) /\ n \notin T /\ w[n] \in Int
  /\ \A m \in T : v[m] \in Int /\ w[m] = v[m]

LEMMA SumOneMore ==
  ASSUME NEW v, NEW w, NEW T, NEW n, Grown(v, w, T, n)
  PROVE  /\ SumFunctionOnSet(v, T) \in Int
         /\ SumFunctionOnSet(w, T) = SumFunctionOnSet(v, T)
         /\ SumFunctionOnSet(w, T \cup {n}) = SumFunctionOnSet(v, T) + w[n]
<1>1. SumFunctionOnSet(v, T) = SumFunctionOnSet(w, T)
  BY SumSame DEF Grown
<1>2. SumFunctionOnSet(v, T) \in Int
  BY SumType DEF Grown
<1>3. SumFunctionOnSet(w, T \cup {n}) = SumFunctionOnSet(w, T) + w[n]
  BY SumAdd DEF Grown
<1>. QED BY <1>1, <1>2, <1>3

\* One more fill, of order i at k.
Filled(o, f, i, k, g) ==
  /\ BookEntries(o, f) /\ i \in DOMAIN o /\ k \in Nat
  /\ g = Append(f, [order |-> i, net |-> k])

Entered(o, f, i, k, g) ==
  /\ BookEntries(o, g) /\ DOMAIN g = DOMAIN f \cup {Len(f) + 1} /\ Len(f) + 1 \notin DOMAIN f
  /\ \A n \in DOMAIN f : /\ g[n] = f[n] /\ Nets(g)[n] = Nets(f)[n]
                         /\ Qtys(o, g)[n] = Qtys(o, f)[n]
  /\ g[Len(f) + 1].order = i /\ Nets(g)[Len(f) + 1] = k
  /\ Qtys(o, g)[Len(f) + 1] = o[i].qty /\ o[i].qty \in Nat \ {0} /\ o[i] \in Orders

LEMMA FillAdded ==
  ASSUME NEW o, NEW f, NEW i, NEW k, NEW g, Filled(o, f, i, k, g)
  PROVE  Entered(o, f, i, k, g)
<1>. DEFINE x == [order |-> i, net |-> k]
<1>1. f \in Seq(Fills) /\ o \in Seq(Orders) /\ Len(f) \in Nat /\ i \in DOMAIN o /\ i \in Nat
  BY DEF Filled, BookEntries
<1>2. x \in Fills /\ x.order = i /\ x.net = k /\ g = Append(f, x)
  BY <1>1 DEF Filled, Fills
<1>. HIDE DEF x
<1>3. /\ g \in Seq(Fills) /\ DOMAIN g = DOMAIN f \cup {Len(f) + 1} /\ Len(f) + 1 \notin DOMAIN f
      /\ \A n \in DOMAIN f : g[n] = f[n]
      /\ g[Len(f) + 1] = x
  BY <1>1, <1>2
<1>4. o[i] \in Orders /\ o[i].qty \in Nat \ {0}
  <2>1. o[i] \in Orders
    BY <1>1
  <2>. QED BY <2>1 DEF Orders
<1>5. BookEntries(o, g)
  BY <1>1, <1>2, <1>3 DEF Filled, BookEntries
<1>6. /\ \A n \in DOMAIN f : Nets(g)[n] = Nets(f)[n] /\ Qtys(o, g)[n] = Qtys(o, f)[n]
      /\ Nets(g)[Len(f) + 1] = k /\ Qtys(o, g)[Len(f) + 1] = o[i].qty
  BY <1>2, <1>3 DEF Nets, Qtys
<1>. QED BY <1>2, <1>3, <1>4, <1>5, <1>6 DEF Entered

Matches(r, a, s, side) == r.acct = a /\ r.sym = s /\ r.side = side

\* It adds its money and its shares to the sums it belongs to.
LEMMA SumsAdded ==
  ASSUME NEW o, NEW f, NEW i, NEW k, NEW g, Filled(o, f, i, k, g), NEW a, NEW s, NEW side
  PROVE  /\ NetSum(o, g, a, s, side) =
              NetSum(o, f, a, s, side) + (IF Matches(o[i], a, s, side) THEN k ELSE 0)
         /\ QtySum(o, g, a, s, side) =
              QtySum(o, f, a, s, side) + (IF Matches(o[i], a, s, side) THEN o[i].qty ELSE 0)
<1>. DEFINE N == Len(f) + 1
            T == Trades(o, f, a, s, side)
            U == Trades(o, g, a, s, side)
            v == Nets(f)
            w == Nets(g)
            x == Qtys(o, f)
            y == Qtys(o, g)
<1>1. /\ DOMAIN g = DOMAIN f \cup {N} /\ N \notin DOMAIN f /\ g[N].order = i
      /\ \A n \in DOMAIN f : g[n] = f[n] /\ w[n] = v[n] /\ y[n] = x[n]
      /\ w[N] = k /\ y[N] = o[i].qty /\ o[i].qty \in Nat
  <2>1. Entered(o, f, i, k, g)
    BY FillAdded
  <2>. QED BY <2>1 DEF Entered
<1>0. BookEntries(o, f) /\ k \in Nat
  BY DEF Filled
<1>2. /\ IsFiniteSet(T) /\ T \subseteq DOMAIN f
      /\ \A n \in DOMAIN f : v[n] \in Nat /\ x[n] \in Nat
  BY <1>0, TradesFinite
<1>3. U = IF Matches(o[i], a, s, side) THEN T \cup {N} ELSE T
  BY <1>1 DEF Trades, Matches
<1>4. /\ NetSum(o, f, a, s, side) = SumFunctionOnSet(v, T)
      /\ NetSum(o, g, a, s, side) = SumFunctionOnSet(w, U)
      /\ QtySum(o, f, a, s, side) = SumFunctionOnSet(x, T)
      /\ QtySum(o, g, a, s, side) = SumFunctionOnSet(y, U)
  BY DEF NetSum, QtySum
<1>. HIDE DEF N, T, U, v, w, x, y
<1>5. Grown(v, w, T, N) /\ Grown(x, y, T, N)
  BY <1>0, <1>1, <1>2 DEF Grown
<1>6. /\ SumFunctionOnSet(v, T) \in Int /\ SumFunctionOnSet(w, T) = SumFunctionOnSet(v, T)
      /\ SumFunctionOnSet(w, T \cup {N}) = SumFunctionOnSet(v, T) + k
  BY <1>0, <1>1, <1>5, SumOneMore
<1>7. /\ SumFunctionOnSet(x, T) \in Int /\ SumFunctionOnSet(y, T) = SumFunctionOnSet(x, T)
      /\ SumFunctionOnSet(y, T \cup {N}) = SumFunctionOnSet(x, T) + o[i].qty
  BY <1>0, <1>1, <1>5, SumOneMore
<1>. QED BY <1>3, <1>4, <1>6, <1>7

\* What was held after each buy is a number of shares.
LEMMA DriftTyped ==
  ASSUME NEW o, NEW f, BookEntries(o, f), NEW a
  PROVE  Drift(o, f, a) \in Int
<1>. DEFINE T == Buys(o, f, a)
            v == HeldAt(o, f, a)
<1>1. /\ IsFiniteSet(T) /\ T \subseteq DOMAIN f
      /\ \A n \in DOMAIN f : Qtys(o, f)[n] \in Nat
  BY TradesFinite
<1>2. ASSUME NEW n \in T, NEW side
      PROVE  SumFunctionOnSet(Qtys(o, f), UpTo(o, f, a, n, side)) \in Int
  <2>. DEFINE X == UpTo(o, f, a, n, side)
              x == Qtys(o, f)
  <2>1. IsFiniteSet(X) /\ X \subseteq DOMAIN f
    BY TradesFinite, FS_Subset DEF UpTo
  <2>2. \A m \in X : x[m] \in Int
    BY <1>1, <2>1
  <2>. HIDE DEF X, x
  <2>3. SumFunctionOnSet(x, X) \in Int
    BY <2>1, <2>2, SumType
  <2>. QED BY <2>3 DEF X, x
<1>3. \A n \in T : v[n] \in Int
  BY <1>2 DEF HeldAt
<1>4. Drift(o, f, a) = SumFunctionOnSet(v, T)
  BY DEF Drift
<1>. HIDE DEF T, v
<1>. QED BY <1>1, <1>3, <1>4, SumType

\* A buy leaves what was held after the earlier buys, and adds what is held
\* now to the bound on the rounding of the cost; a sale adds nothing.
LEMMA DriftAdded ==
  ASSUME NEW o, NEW f, NEW i, NEW k, NEW g, Filled(o, f, i, k, g), NEW a
  PROVE  /\ Drift(o, f, a) \in Int
         /\ Drift(o, g, a) = Drift(o, f, a) +
              (IF o[i].acct = a /\ o[i].side = "BUY" THEN SharesHeld(o, g, a, o[i].sym) ELSE 0)
<1>. DEFINE N == Len(f) + 1
            T == Buys(o, f, a)
            U == Buys(o, g, a)
            v == HeldAt(o, f, a)
            w == HeldAt(o, g, a)
            new == o[i].acct = a /\ o[i].side = "BUY"
<1>1. /\ DOMAIN g = DOMAIN f \cup {N} /\ N \notin DOMAIN f /\ g[N].order = i
      /\ \A n \in DOMAIN f : g[n] = f[n] /\ Qtys(o, g)[n] = Qtys(o, f)[n]
      /\ BookEntries(o, g)
  <2>1. Entered(o, f, i, k, g)
    BY FillAdded
  <2>. QED BY <2>1 DEF Entered
<1>0. BookEntries(o, f)
  BY DEF Filled
<1>2. /\ IsFiniteSet(T) /\ T \subseteq DOMAIN f /\ U \subseteq DOMAIN g
      /\ \A n \in DOMAIN f : n \in Nat /\ n <= Len(f) /\ Qtys(o, f)[n] \in Nat
  BY <1>0, <1>1, TradesFinite
<1>3. U = IF new THEN T \cup {N} ELSE T
  BY <1>1 DEF Buys
<1>4. ASSUME NEW n \in DOMAIN f, NEW side
      PROVE  /\ UpTo(o, g, a, n, side) = UpTo(o, f, a, n, side)
             /\ SumFunctionOnSet(Qtys(o, f), UpTo(o, f, a, n, side)) \in Int
             /\ SumFunctionOnSet(Qtys(o, g), UpTo(o, f, a, n, side))
                  = SumFunctionOnSet(Qtys(o, f), UpTo(o, f, a, n, side))
  <2>. DEFINE s == o[f[n].order].sym
              X == UpTo(o, f, a, n, side)
              x == Qtys(o, f)
              y == Qtys(o, g)
  <2>1. g[n] = f[n] /\ Len(f) \in Nat /\ n \in Nat /\ n <= Len(f)
    BY <1>0, <1>1, <1>2 DEF BookEntries
  <2>2. \A m \in Trades(o, g, a, s, side) : m <= n => m \in Trades(o, f, a, s, side)
    BY <1>1, <2>1 DEF Trades
  <2>3. Trades(o, f, a, s, side) \subseteq Trades(o, g, a, s, side)
    BY <1>1 DEF Trades
  <2>4. UpTo(o, g, a, n, side) = UpTo(o, f, a, n, side)
    BY <2>1, <2>2, <2>3 DEF UpTo
  <2>5. IsFiniteSet(X) /\ X \subseteq DOMAIN f
    BY <1>0, TradesFinite, FS_Subset DEF UpTo
  <2>6. \A m \in X : x[m] \in Int /\ y[m] = x[m]
    BY <1>1, <1>2, <2>5
  <2>. HIDE DEF X, x, y
  <2>7. SumFunctionOnSet(x, X) \in Int
    BY <2>5, <2>6, SumType
  <2>8. SumFunctionOnSet(y, X) = SumFunctionOnSet(x, X)
    BY <2>5, <2>6, SumSame
  <2>. QED BY <2>4, <2>7, <2>8 DEF X, x, y
<1>5. \A n \in T : v[n] \in Int /\ w[n] = v[n]
  <2>. SUFFICES ASSUME NEW n \in T PROVE v[n] \in Int /\ w[n] = v[n]
    OBVIOUS
  <2>1. n \in U /\ n \in DOMAIN f
    BY <1>2, <1>3
  <2>2. v[n] = SumFunctionOnSet(Qtys(o, f), UpTo(o, f, a, n, "BUY"))
               - SumFunctionOnSet(Qtys(o, f), UpTo(o, f, a, n, "SELL"))
    BY DEF HeldAt
  <2>3. w[n] = SumFunctionOnSet(Qtys(o, g), UpTo(o, g, a, n, "BUY"))
               - SumFunctionOnSet(Qtys(o, g), UpTo(o, g, a, n, "SELL"))
    BY <2>1 DEF HeldAt
  <2>. HIDE DEF v, w
  <2>. QED BY <1>4, <2>1, <2>2, <2>3
<1>6. ASSUME new
      PROVE  w[N] = SharesHeld(o, g, a, o[i].sym) /\ w[N] \in Int
  <2>1. N \in U
    BY <1>3, <1>6
  <2>2. ASSUME NEW side
        PROVE  UpTo(o, g, a, N, side) = Trades(o, g, a, o[i].sym, side)
    <3>1. \A m \in DOMAIN g : m <= N
      BY <1>0, <1>1, <1>2 DEF BookEntries
    <3>. QED BY <1>1, <3>1 DEF UpTo, Trades
  <2>3. w[N] = SumFunctionOnSet(Qtys(o, g), UpTo(o, g, a, N, "BUY"))
               - SumFunctionOnSet(Qtys(o, g), UpTo(o, g, a, N, "SELL"))
    BY <2>1 DEF HeldAt
  <2>4. \A side : QtySum(o, g, a, o[i].sym, side) \in Int
    BY <1>1, TradesFinite
  <2>. HIDE DEF w, N
  <2>. QED BY <2>2, <2>3, <2>4 DEF SharesHeld, QtySum
<1>7. Drift(o, f, a) = SumFunctionOnSet(v, T) /\ Drift(o, g, a) = SumFunctionOnSet(w, U)
  BY DEF Drift
<1>8. N \notin T
  BY <1>1, <1>2
<1>. HIDE DEF N, T, U, v, w
<1>9. SumFunctionOnSet(v, T) \in Int /\ SumFunctionOnSet(w, T) = SumFunctionOnSet(v, T)
  <2>1. SumFunctionOnSet(v, T) \in Int
    BY <1>2, <1>5, SumType
  <2>2. SumFunctionOnSet(w, T) = SumFunctionOnSet(v, T)
    BY <1>2, <1>5, SumSame
  <2>. QED BY <2>1, <2>2
<1>10. CASE new
  <2>1. SumFunctionOnSet(w, T \cup {N}) = SumFunctionOnSet(v, T) + w[N]
    <3>1. Grown(v, w, T, N)
      BY <1>2, <1>5, <1>6, <1>8, <1>10 DEF Grown
    <3>. QED BY <3>1, SumOneMore
  <2>. QED BY <1>3, <1>6, <1>7, <1>9, <1>10, <2>1
<1>11. CASE ~new
  BY <1>3, <1>7, <1>9, <1>11
<1>. QED BY <1>10, <1>11

\* Rounding to the nearest is off by at most a half.
LEMMA RoundedNear ==
  ASSUME NEW a \in Nat, NEW b \in Nat \ {0}
  PROVE  Near(Rounded(a, b) * b, a, b)
<1>. DEFINE x == 2 * a + b
            y == 2 * b
            r == x \div y
<1>1. \A u \in Nat, v \in Nat \ {0} : /\ u \div v \in Nat
                                      /\ v * (u \div v) <= u /\ u < v * (u \div v) + v
  OBVIOUS
<1>2. x \in Nat /\ y \in Nat \ {0}
  OBVIOUS
<1>3. r \in Nat /\ y * r <= x /\ x < y * r + y
  BY <1>1, <1>2
<1>4. Rounded(a, b) = r
  BY DEF Rounded
<1>. HIDE DEF r
<1>5. y * r = 2 * (r * b)
  BY <1>3
<1>6. r * b \in Nat
  BY <1>3
<1>. DEFINE z == r * b
<1>7. 2 * z <= 2 * a + b /\ 2 * a + b < 2 * z + 2 * b /\ z \in Nat
  BY <1>3, <1>5, <1>6
<1>. HIDE DEF z
<1>8. 2 * (z - a) <= b /\ 2 * (a - z) <= b
  BY <1>7
<1>. QED BY <1>4, <1>8 DEF Near, z

\* The account's rows after the fill.
Traded(r, p, k) == IF r.side = "BUY" THEN Bought(p, r, k) ELSE Sold(p, r, k)

\* What a trade does to the cost and the gain of a position: a sale takes
\* its cost out at the average, a buy adds what it cost, off by half a unit
\* of the average per share held.
Costed(r, p, k, q) ==
  /\ q \in Position
  /\ r.side = "BUY" => /\ q.qty = p.qty + r.qty /\ q.pnl = p.pnl
                       /\ Near(q.avg * q.qty, p.avg * p.qty + k, q.qty)
  /\ r.side # "BUY" => /\ q.qty = p.qty - r.qty
                       /\ q.avg * q.qty - q.pnl = p.avg * p.qty - p.pnl - k

LEMMA TradeMoves ==
  ASSUME NEW r \in Orders, NEW p \in Position, NEW k \in Nat,
         r.side = "SELL" => p.qty >= r.qty, NEW q, q = Traded(r, p, k)
  PROVE  Costed(r, p, k, q)
<1>1. r.qty \in Nat \ {0} /\ p.qty \in Nat /\ p.avg \in Nat /\ p.pnl \in Int /\ r.side \in {"BUY", "SELL"}
  BY DEF Orders, Position
<1>2. CASE r.side = "BUY"
  <2>1. q = Bought(p, r, k) /\ q \in Position
    BY <1>2, BoughtTyped DEF Traded
  <2>. DEFINE b == p.qty + r.qty
              a == p.avg * p.qty + k
  <2>2. a \in Nat /\ b \in Nat \ {0}
    BY <1>1
  <2>3. q.qty = b /\ q.avg = Rounded(a, b) /\ q.pnl = p.pnl
    BY <2>1 DEF Bought, Position
  <2>. HIDE DEF a, b
  <2>4. Near(q.avg * q.qty, a, q.qty)
    BY <2>2, <2>3, RoundedNear
  <2>. QED BY <1>2, <2>1, <2>3, <2>4 DEF a, b, Costed
<1>3. CASE r.side # "BUY"
  <2>1. q = Sold(p, r, k) /\ q \in Position
    BY <1>1, <1>3, SoldTyped DEF Traded
  <2>2. q.qty = p.qty - r.qty /\ q.pnl = p.pnl + k - p.avg * r.qty
    BY <2>1 DEF Sold
  <2>3. q.avg = IF p.qty = r.qty THEN 0 ELSE p.avg
    BY <2>1 DEF Sold
  <2>4. q.avg * q.qty = p.avg * (p.qty - r.qty)
    <3>1. CASE p.qty = r.qty
      BY <1>1, <2>2, <2>3, <3>1
    <3>2. CASE p.qty # r.qty
      BY <2>2, <2>3, <3>2
    <3>. QED BY <3>1, <3>2
  <2>5. p.avg * (p.qty - r.qty) = p.avg * p.qty - p.avg * r.qty
    BY <1>1
  <2>. DEFINE A == p.avg * p.qty
              B == p.avg * r.qty
              C == q.avg * q.qty
  <2>6. A \in Int /\ B \in Int /\ C = A - B
    BY <1>1, <2>4, <2>5
  <2>7. q.pnl = p.pnl + k - B
    BY <2>2
  <2>. HIDE DEF A, B, C
  <2>8. C - q.pnl = A - p.pnl - k
    BY <1>1, <2>6, <2>7
  <2>. QED BY <1>3, <2>1, <2>2, <2>8 DEF A, C, Costed
<1>. QED BY <1>2, <1>3

\* The two sides of the books move together.
LEMMA StillNear ==
  ASSUME NEW m \in Int, NEW k \in Int, NEW s \in Int, NEW x \in Int, NEW y \in Int,
         NEW b \in Int, NEW u \in Int, NEW v \in Int, NEW D \in Int, NEW n \in Int,
         Near(m + s, b, D)
  PROVE  /\ Near(y, x + k, n) => Near((m - k) + (s - x + y), b, D + n)
         /\ y - v = x - u - k => Near((m + k) + (s - x + y), b - u + v, D)
BY DEF Near

\* A fill moves the balance and one position of the account.
FillMoved(o, c, p, i, k, d, q) ==
  LET r == o[i] IN
  /\ r.side = "SELL" => p[r.acct][r.sym].qty >= r.qty
  /\ d = [c EXCEPT ![r.acct] = IF r.side = "BUY" THEN c[r.acct] - k ELSE c[r.acct] + k]
  /\ q = [p EXCEPT ![r.acct][r.sym] = Traded(r, p[r.acct][r.sym], k)]

\* What it does to the other accounts: nothing.
LEMMA OthersKeepBooks ==
  ASSUME NEW o, NEW c, NEW p, NEW f, Books(o, c, p, f), BookAmounts(c, p),
         NEW i, NEW k, NEW g, Filled(o, f, i, k, g),
         NEW d, NEW q, FillMoved(o, c, p, i, k, d, q), NEW a \in Accounts, a # o[i].acct
  PROVE  CashAgrees(o, d, g, a) /\ SharesAgree(o, q, g, a) /\ Balanced(o, d, q, g, a)
<1>1. CashAgrees(o, c, f, a) /\ SharesAgree(o, p, f, a) /\ Balanced(o, c, p, f, a)
  BY DEF Books
<1>2. BookEntries(o, f)
  BY DEF Filled
<1>3. \A s, side : /\ NetSum(o, f, a, s, side) \in Int /\ QtySum(o, f, a, s, side) \in Int
  BY <1>2, TradesFinite
<1>4. \A s, side : ~Matches(o[i], a, s, side)
  BY DEF Matches
<1>5. \A s, side : /\ NetSum(o, g, a, s, side) = NetSum(o, f, a, s, side)
                   /\ QtySum(o, g, a, s, side) = QtySum(o, f, a, s, side)
  BY <1>3, <1>4, SumsAdded
<1>6. CashFlow(o, g, a) = CashFlow(o, f, a) /\ \A s : SharesHeld(o, g, a, s) = SharesHeld(o, f, a, s)
  BY <1>5 DEF CashFlow, SharesHeld
<1>7. Drift(o, g, a) = Drift(o, f, a)
  BY DriftAdded
<1>8. d[a] = c[a] /\ q[a] = p[a]
  BY DEF FillMoved, BookAmounts
<1>9. Costs(q, a) = Costs(p, a) /\ Gains(q, a) = Gains(p, a)
  BY <1>8 DEF Costs, Gains
<1>. QED BY <1>1, <1>6, <1>7, <1>8, <1>9 DEF CashAgrees, SharesAgree, Balanced

\* What it does to the account's own books.
LEMMA OwnerKeepsBooks ==
  ASSUME NEW o, NEW c, NEW p, NEW f, Books(o, c, p, f), BookAmounts(c, p),
         NEW i, NEW k, NEW g, Filled(o, f, i, k, g),
         NEW d, NEW q, FillMoved(o, c, p, i, k, d, q), NEW a, a = o[i].acct
  PROVE  CashAgrees(o, d, g, a) /\ SharesAgree(o, q, g, a) /\ Balanced(o, d, q, g, a)
<1>. DEFINE r == o[i]
            t == r.sym
            u == p[a][t]
            v == q[a][t]
<1>0. /\ BookEntries(o, f) /\ k \in Nat
  BY DEF Filled
<1>1. r \in Orders /\ a \in Accounts /\ t \in Symbols /\ r.side \in {"BUY", "SELL"} /\ r.qty \in Nat
  <2>1. r \in Orders
    <3>1. Entered(o, f, i, k, g)
      BY FillAdded
    <3>. QED BY <3>1 DEF Entered
  <2>. QED BY <2>1 DEF Orders
<1>2. CashAgrees(o, c, f, a) /\ SharesAgree(o, p, f, a) /\ Balanced(o, c, p, f, a)
  BY <1>1 DEF Books
<1>3. u \in Position /\ c[a] \in Nat /\ \A s \in Symbols : p[a][s] \in Position
  BY <1>1 DEF BookAmounts
<1>4. /\ r.side = "SELL" => u.qty >= r.qty
      /\ d[a] = IF r.side = "BUY" THEN c[a] - k ELSE c[a] + k
      /\ v = Traded(r, u, k)
      /\ \A s \in Symbols \ {t} : q[a][s] = p[a][s]
  <2>1. a \in DOMAIN c /\ a \in DOMAIN p /\ t \in DOMAIN p[a]
    BY <1>1 DEF BookAmounts
  <2>2. d[a] = IF r.side = "BUY" THEN c[a] - k ELSE c[a] + k
    BY <2>1 DEF FillMoved
  <2>3. q[a] = [p[a] EXCEPT ![t] = Traded(r, u, k)]
    BY <2>1 DEF FillMoved
  <2>4. v = Traded(r, u, k) /\ \A s \in Symbols \ {t} : q[a][s] = p[a][s]
    <3>1. p[a] \in [Symbols -> Position]
      BY <1>1 DEF BookAmounts
    <3>. QED BY <2>1, <2>3, <3>1
  <2>5. r.side = "SELL" => u.qty >= r.qty
    BY DEF FillMoved
  <2>. QED BY <2>2, <2>4, <2>5
<1>5. /\ v \in Position
      /\ r.side = "BUY" => /\ v.qty = u.qty + r.qty /\ v.pnl = u.pnl
                           /\ Near(v.avg * v.qty, u.avg * u.qty + k, v.qty)
      /\ r.side # "BUY" => /\ v.qty = u.qty - r.qty
                           /\ v.avg * v.qty - v.pnl = u.avg * u.qty - u.pnl - k
  <2>. HIDE DEF r, u, v
  <2>1. Costed(r, u, k, v)
    BY <1>0, <1>1, <1>3, <1>4, TradeMoves
  <2>. QED BY <2>1 DEF Costed
<1>6. \A s, side : Matches(r, a, s, side) <=> s = t /\ side = r.side
  BY DEF Matches
<1>7. \A s, side : NetSum(o, f, a, s, side) \in Int /\ QtySum(o, f, a, s, side) \in Int
  BY <1>0, TradesFinite
<1>8. \A s, side :
        /\ NetSum(o, g, a, s, side) =
             NetSum(o, f, a, s, side) + (IF s = t /\ side = r.side THEN k ELSE 0)
        /\ QtySum(o, g, a, s, side) =
             QtySum(o, f, a, s, side) + (IF s = t /\ side = r.side THEN r.qty ELSE 0)
  BY <1>6, SumsAdded
<1>9. \A s \in Symbols : q[a][s] \in Position
  BY <1>3, <1>4, <1>5
<1>. HIDE DEF r, t, u, v
<1>10. CashAgrees(o, d, g, a)
  <2>. DEFINE F == CashFlow(o, f, a)
              G == CashFlow(o, g, a)
              m == IF r.side = "BUY" THEN 0 - k ELSE k
  <2>1. \A s \in Symbols : /\ F[s] = NetSum(o, f, a, s, "SELL") - NetSum(o, f, a, s, "BUY")
                           /\ G[s] = NetSum(o, g, a, s, "SELL") - NetSum(o, g, a, s, "BUY")
    BY DEF CashFlow
  <2>. HIDE DEF F, G
  <2>2. \A s \in Symbols : /\ F[s] \in Int /\ G[s] \in Int
                           /\ G[s] = F[s] + (IF s = t THEN m ELSE 0)
    BY <1>0, <1>1, <1>7, <1>8, <2>1
  <2>. HIDE DEF m
  <2>3. /\ \A s \in Symbols : F[s] \in Int /\ G[s] \in Int
        /\ \A s \in Symbols \ {t} : G[s] = F[s]
    <3>1. \A s \in Symbols \ {t} : G[s] = F[s]
      BY <2>2
    <3>. QED BY <2>2, <3>1
  <2>4. SumFunctionOnSet(G, Symbols) = SumFunctionOnSet(F, Symbols) - F[t] + G[t]
    BY <1>1, <2>3, SumUpdate, PaperConstants
  <2>5. SumFunctionOnSet(F, Symbols) \in Int
    BY <2>3, SumType, PaperConstants
  <2>6. d[a] = c[a] + m /\ m \in Int
    BY <1>0, <1>3, <1>4 DEF m
  <2>7. c[a] = InitialCash + SumFunctionOnSet(F, Symbols)
    BY <1>2 DEF CashAgrees, F
  <2>8. G[t] = F[t] + m /\ F[t] \in Int
    BY <1>1, <2>2
  <2>9. d[a] = InitialCash + SumFunctionOnSet(G, Symbols)
    BY <2>4, <2>5, <2>6, <2>7, <2>8, PaperConstants
  <2>. QED BY <2>9 DEF CashAgrees, G
<1>11. SharesAgree(o, q, g, a)
  <2>. SUFFICES ASSUME NEW s \in Symbols PROVE q[a][s].qty = SharesHeld(o, g, a, s)
    BY DEF SharesAgree
  <2>1. p[a][s].qty = SharesHeld(o, f, a, s)
    BY <1>2 DEF SharesAgree
  <2>2. /\ SharesHeld(o, f, a, s) = QtySum(o, f, a, s, "BUY") - QtySum(o, f, a, s, "SELL")
        /\ SharesHeld(o, g, a, s) = QtySum(o, g, a, s, "BUY") - QtySum(o, g, a, s, "SELL")
    BY DEF SharesHeld
  <2>3. CASE s # t
    BY <1>4, <1>7, <1>8, <2>1, <2>2, <2>3
  <2>4. CASE s = t
    <3>1. u = p[a][s] /\ v = q[a][s]
      BY <2>4 DEF u, v
    <3>. QED BY <1>1, <1>5, <1>7, <1>8, <2>1, <2>2, <2>4, <3>1
  <2>. QED BY <2>3, <2>4
<1>12. Balanced(o, d, q, g, a)
  <2>. DEFINE C == Costs(p, a)
              E == Costs(q, a)
              P == Gains(p, a)
              Q == Gains(q, a)
              x == u.avg * u.qty
              y == v.avg * v.qty
              SC == SumFunctionOnSet(C, Symbols)
              SE == SumFunctionOnSet(E, Symbols)
              SP == SumFunctionOnSet(P, Symbols)
              SQ == SumFunctionOnSet(Q, Symbols)
              D == Drift(o, f, a)
  <2>1. \A s \in Symbols : C[s] = p[a][s].avg * p[a][s].qty /\ E[s] = q[a][s].avg * q[a][s].qty
                           /\ P[s] = p[a][s].pnl /\ Q[s] = q[a][s].pnl
    BY DEF Costs, Gains
  <2>2. C[t] = x /\ E[t] = y /\ P[t] = u.pnl /\ Q[t] = v.pnl
    BY <1>1, <2>1 DEF u, v
  <2>. HIDE DEF C, E, P, Q
  <2>3. \A s \in Symbols : C[s] \in Int /\ E[s] \in Int /\ P[s] \in Int /\ Q[s] \in Int
    <3>. SUFFICES ASSUME NEW s \in Symbols
                 PROVE  C[s] \in Int /\ E[s] \in Int /\ P[s] \in Int /\ Q[s] \in Int
      OBVIOUS
    <3>1. p[a][s] \in Position /\ q[a][s] \in Position
      BY <1>3, <1>9
    <3>2. /\ p[a][s].avg \in Nat /\ p[a][s].qty \in Nat /\ p[a][s].pnl \in Int
          /\ q[a][s].avg \in Nat /\ q[a][s].qty \in Nat /\ q[a][s].pnl \in Int
      BY <3>1 DEF Position
    <3>3. \A b, e \in Nat : b * e \in Int
      OBVIOUS
    <3>. QED BY <2>1, <3>2, <3>3
  <2>4. /\ \A s \in Symbols \ {t} : E[s] = C[s]
        /\ \A s \in Symbols \ {t} : Q[s] = P[s]
    BY <1>4, <2>1
  <2>5. SE = SC - x + y /\ SC \in Int
    <3>1. SE = SC - C[t] + E[t]
      BY <1>1, <2>3, <2>4, SumUpdate, PaperConstants
    <3>2. SC \in Int
      BY <2>3, SumType, PaperConstants
    <3>. QED BY <2>2, <3>1, <3>2
  <2>6. SQ = SP - u.pnl + v.pnl /\ SP \in Int
    <3>1. SQ = SP - P[t] + Q[t]
      BY <1>1, <2>3, <2>4, SumUpdate, PaperConstants
    <3>2. SP \in Int
      BY <2>3, SumType, PaperConstants
    <3>. QED BY <2>2, <3>1, <3>2
  <2>7. D \in Int /\ Drift(o, g, a) = D + (IF r.side = "BUY" THEN SharesHeld(o, g, a, t) ELSE 0)
    <3>1. /\ Drift(o, f, a) \in Int
          /\ Drift(o, g, a) = Drift(o, f, a) +
               (IF o[i].acct = a /\ o[i].side = "BUY" THEN SharesHeld(o, g, a, o[i].sym) ELSE 0)
      BY DriftAdded
    <3>. QED BY <3>1 DEF r, t
  <2>8. SharesHeld(o, g, a, t) = v.qty
    BY <1>1, <1>11 DEF SharesAgree, v
  <2>9. Near(c[a] + SC, InitialCash + SP, D)
    BY <1>2 DEF Balanced, C, P
  <2>10. x \in Int /\ y \in Int /\ u.pnl \in Int /\ v.pnl \in Int /\ v.qty \in Nat
    BY <1>1, <1>5, <2>2, <2>3 DEF Position
  <2>. HIDE DEF x, y, SC, SE, SP, SQ, D
  <2>. DEFINE m == c[a]
              b == InitialCash + SP
              l == u.pnl
              h == v.pnl
              n == v.qty
  <2>13. /\ m \in Int /\ b \in Int /\ l \in Int /\ h \in Int /\ n \in Int /\ k \in Int
         /\ x \in Int /\ y \in Int /\ SC \in Int /\ D \in Int /\ Near(m + SC, b, D)
    BY <1>0, <1>3, <2>5, <2>6, <2>7, <2>9, <2>10, PaperConstants
  <2>. HIDE DEF m, b, l, h, n
  <2>14. /\ Near(y, x + k, n) => Near((m - k) + (SC - x + y), b, D + n)
         /\ y - h = x - l - k => Near((m + k) + (SC - x + y), b - l + h, D)
    BY <2>13, StillNear
  <2>11. CASE r.side = "BUY"
    <3>1. d[a] = c[a] - k /\ v.pnl = u.pnl /\ Near(y, x + k, v.qty)
      BY <1>4, <1>5, <2>11 DEF x, y
    <3>2. Drift(o, g, a) = D + v.qty
      BY <2>7, <2>8, <2>11
    <3>3. Near((c[a] - k) + (SC - x + y), InitialCash + SP, D + v.qty)
      BY <2>14, <3>1 DEF m, b, n
    <3>4. SQ = SP
      BY <2>6, <2>10, <3>1
    <3>. QED BY <2>5, <3>1, <3>2, <3>3, <3>4 DEF Balanced, SE, SQ, E, Q
  <2>12. CASE r.side # "BUY"
    <3>1. d[a] = c[a] + k /\ y - v.pnl = x - u.pnl - k
      BY <1>4, <1>5, <2>12 DEF x, y
    <3>2. Drift(o, g, a) = D
      BY <2>7, <2>12
    <3>3. Near((c[a] + k) + (SC - x + y), (InitialCash + SP) - u.pnl + v.pnl, D)
      <4>1. y - h = x - l - k
        BY <3>1 DEF h, l
      <4>2. Near((m + k) + (SC - x + y), b - l + h, D)
        BY <2>14, <4>1
      <4>. QED BY <4>2 DEF m, b, l, h
    <3>4. (InitialCash + SP) - u.pnl + v.pnl = InitialCash + SQ
      BY <2>6, <2>10, PaperConstants
    <3>. QED BY <2>5, <3>1, <3>2, <3>3, <3>4 DEF Balanced, SE, SQ, E, Q
  <2>. QED BY <2>11, <2>12
<1>. QED BY <1>10, <1>11, <1>12

\* One fill keeps the books.
LEMMA OneMoreFill ==
  ASSUME NEW o, NEW c, NEW p, NEW f, Books(o, c, p, f), BookAmounts(c, p),
         NEW i, NEW k, NEW g, Filled(o, f, i, k, g),
         NEW d, NEW q, FillMoved(o, c, p, i, k, d, q)
  PROVE  Books(o, d, q, g)
  BY OthersKeepBooks, OwnerKeepsBooks DEF Books

\* The working copies of the job are the books with its fills added, so that
\* its one commit keeps them, and dropping it does too.
LedgerInv ==
  /\ Books(orders, cash, position, fills)
  /\ job.running => Books(orders, job.cash, job.position, fills \o job.fills)

\* The books of one table of orders, after the job's commit or a request.
SameTrade(o, q, i) ==
  q[i].acct = o[i].acct /\ q[i].sym = o[i].sym /\ q[i].side = o[i].side /\ q[i].qty = o[i].qty

LEMMA SumZero ==
  ASSUME NEW f, NEW S, IsFiniteSet(S), \A x \in S : f[x] = 0
  PROVE  SumFunctionOnSet(f, S) = 0
<1>1. SumFunctionOnSet(f, {}) = SumFunctionOnSet(f, S)
  BY SumWithin
<1>. QED BY <1>1, SumEmpty

\* At first every account has the initial cash and nothing else.
LEMMA LedgerInvInit == Init => LedgerInv
<1>. SUFFICES ASSUME Init PROVE LedgerInv
  OBVIOUS
<1>. DEFINE c == [a \in Accounts |-> InitialCash]
            p == [a \in Accounts |-> [s \in Symbols |-> Flat]]
            e == << >>
<1>1. orders = e /\ fills = e /\ cash = c /\ position = p /\ ~job.running
  BY DEF Init, NoJob
<1>2. \A a, s, side : Trades(e, e, a, s, side) = {} /\ Buys(e, e, a) = {}
  BY DEF Trades, Buys
<1>3. \A a, s, side : NetSum(e, e, a, s, side) = 0 /\ QtySum(e, e, a, s, side) = 0
  BY <1>2, SumEmpty DEF NetSum, QtySum
<1>4. \A a : Drift(e, e, a) = 0
  BY <1>2, SumEmpty DEF Drift
<1>. HIDE DEF e
<1>5. ASSUME NEW a \in Accounts
      PROVE  CashAgrees(e, c, e, a) /\ SharesAgree(e, p, e, a) /\ Balanced(e, c, p, e, a)
  <2>. DEFINE F == CashFlow(e, e, a)
              C == Costs(p, a)
              G == Gains(p, a)
  <2>1. \A s \in Symbols : F[s] = 0
    BY <1>3 DEF CashFlow
  <2>2. \A s \in Symbols : p[a][s].qty = 0 /\ p[a][s].avg = 0 /\ p[a][s].pnl = 0
    BY DEF Flat
  <2>3. \A s \in Symbols : C[s] = 0 /\ G[s] = 0
    BY <2>2 DEF Costs, Gains
  <2>. HIDE DEF F, C, G
  <2>4. SumFunctionOnSet(F, Symbols) = 0
    BY <2>1, SumZero, PaperConstants
  <2>5. SumFunctionOnSet(C, Symbols) = 0
    BY <2>3, SumZero, PaperConstants
  <2>6. SumFunctionOnSet(G, Symbols) = 0
    BY <2>3, SumZero, PaperConstants
  <2>7. c[a] = InitialCash /\ InitialCash \in Nat
    BY PaperConstants
  <2>. HIDE DEF c
  <2>8. CashAgrees(e, c, e, a)
    BY <2>4, <2>7 DEF CashAgrees, F
  <2>9. SharesAgree(e, p, e, a)
    BY <1>3, <2>2 DEF SharesAgree, SharesHeld
  <2>10. Near(c[a] + SumFunctionOnSet(C, Symbols), InitialCash + SumFunctionOnSet(G, Symbols),
              Drift(e, e, a))
    BY <1>4, <2>5, <2>6, <2>7 DEF Near
  <2>11. Balanced(e, c, p, e, a)
    BY <2>10 DEF Balanced, C, G
  <2>. QED BY <2>8, <2>9, <2>11
<1>. HIDE DEF c, p
<1>6. Books(e, c, p, e)
  BY <1>5 DEF Books
<1>. QED BY <1>1, <1>6 DEF LedgerInv

\* The rows of the job: the committed fills, then its own.
LEMMA JobRows ==
  ASSUME LedgerTypeInv, job.running
  PROVE  /\ job \in Jobs /\ fills \in Seq(Fills) /\ job.fills \in Seq(Fills)
         /\ BookEntries(orders, fills) /\ BookEntries(orders, fills \o job.fills)
<1>1. job \in Jobs /\ fills \in Seq(Fills) /\ orders \in Seq(Orders)
  BY DEF LedgerTypeInv, NoJob
<1>2. job.fills \in Seq(Fills)
  BY <1>1 DEF Jobs
<1>3. /\ \A n \in DOMAIN fills : fills[n].order \in DOMAIN orders
      /\ \A n \in DOMAIN job.fills : job.fills[n].order \in DOMAIN orders
  BY DEF LedgerTypeInv
<1>. DEFINE g == fills \o job.fills
<1>4. g \in Seq(Fills)
  BY <1>1, <1>2
<1>5. \A n \in DOMAIN g : \/ n \in DOMAIN fills /\ g[n] = fills[n]
                          \/ n - Len(fills) \in DOMAIN job.fills /\ g[n] = job.fills[n - Len(fills)]
  BY <1>1, <1>2
<1>6. \A n \in DOMAIN g : g[n].order \in DOMAIN orders
  BY <1>3, <1>5
<1>. QED BY <1>1, <1>2, <1>3, <1>4, <1>6 DEF BookEntries

\* The job begins with the committed rows.
LEMMA StartKeepsLedger ==
  ASSUME LedgerTypeInv, LedgerInv, ExecuteStart
  PROVE  LedgerInv'
<1>1. /\ UNCHANGED <<orders, cash, position, fills>>
      /\ job'.cash = cash /\ job'.position = position /\ job'.fills = << >>
  BY DEF ExecuteStart, ledger
<1>2. fills' \o job'.fills = fills
  BY <1>1 DEF LedgerTypeInv
<1>3. Books(orders, cash, position, fills)
  BY DEF LedgerInv
<1>4. Books(orders, job'.cash, job'.position, fills' \o job'.fills)
  BY <1>1, <1>2, <1>3
<1>. QED BY <1>1, <1>3, <1>4 DEF LedgerInv

\* It adds one fill at a time to its own copies.
LEMMA FillKeepsLedger ==
  ASSUME LedgerTypeInv, LedgerInv, NEW i \in DOMAIN orders, FillOrder(i)
  PROVE  LedgerInv'
<1>. DEFINE r == orders[i]
            k == Net(r)
            f == fills \o job.fills
            g == Append(f, [order |-> i, net |-> k])
            p == job.position[r.acct][r.sym]
            q == IF r.side = "BUY" THEN Bought(p, r, k) ELSE Sold(p, r, k)
            d == [job.cash EXCEPT ![r.acct] = CashAfter(r)]
            h == [job.position EXCEPT ![r.acct][r.sym] = q]
            x == [order |-> i, net |-> k]
<1>1. job.running
  BY DEF FillOrder, Turn
<1>2. job \in Jobs /\ fills \in Seq(Fills) /\ job.fills \in Seq(Fills) /\ BookEntries(orders, f)
  BY <1>1, JobRows
<1>3. r \in Orders
  BY DEF LedgerTypeInv
<1>4. k \in Nat /\ i \in Nat
  BY <1>3, NetNat DEF LedgerTypeInv
<1>5. x \in Fills
  BY <1>4 DEF Fills
<1>6. UNCHANGED <<orders, cash, position, fills>>
  BY DEF FillOrder, ledger
<1>7. job' = [job EXCEPT !.todo = job.todo \ {i}, !.cash = d, !.position = h,
                         !.fills = Append(job.fills, x)]
  BY <1>2 DEF FillOrder, Jobs
<1>. HIDE DEF x, d, h
<1>8. job'.cash = d /\ job'.position = h /\ job'.fills = Append(job.fills, x)
  BY <1>2, <1>7 DEF Jobs
<1>9. fills' \o job'.fills = Append(f, x)
  BY <1>2, <1>5, <1>6, <1>8
<1>10. Filled(orders, f, i, k, Append(f, x))
  BY <1>2, <1>4 DEF Filled, x
<1>11. BookAmounts(job.cash, job.position)
  BY <1>2 DEF Jobs, BookAmounts
<1>12. r.side \in {"BUY", "SELL"}
  BY <1>3 DEF Orders
<1>13. FillMoved(orders, job.cash, job.position, i, k, d, h)
  <2>1. r.side = "SELL" => p.qty >= r.qty
    BY DEF FillOrder, Covered
  <2>2. d = [job.cash EXCEPT ![r.acct] =
               IF r.side = "BUY" THEN job.cash[r.acct] - k ELSE job.cash[r.acct] + k]
    BY DEF CashAfter, d
  <2>3. h = [job.position EXCEPT ![r.acct][r.sym] = Traded(r, p, k)]
    BY DEF h, Traded
  <2>. QED BY <2>1, <2>2, <2>3 DEF FillMoved
<1>14. Books(orders, job.cash, job.position, f)
  BY <1>1 DEF LedgerInv
<1>. HIDE DEF k, f
<1>15. Books(orders, d, h, Append(f, x))
  BY <1>10, <1>11, <1>13, <1>14, OneMoreFill
<1>16. Books(orders, job'.cash, job'.position, fills' \o job'.fills)
  BY <1>8, <1>9, <1>15
<1>. QED BY <1>6, <1>16 DEF LedgerInv

\* Its commit is what it had in hand.
LEMMA CommitKeepsLedger ==
  ASSUME LedgerTypeInv, LedgerInv, JobCommit
  PROVE  LedgerInv'
<1>1. job.running /\ ~job'.running
  BY DEF JobCommit, NoJob
<1>2. BookEntries(orders, fills \o job.fills)
  BY <1>1, JobRows
<1>3. cash' = job.cash /\ position' = job.position /\ fills' = fills \o job.fills
  BY DEF JobCommit
<1>4. Books(orders, cash', position', fills')
  BY <1>1, <1>3 DEF LedgerInv
<1>5. \A i \in DOMAIN orders : SameTrade(orders, orders', i)
  <2>. SUFFICES ASSUME NEW i \in DOMAIN orders PROVE SameTrade(orders, orders', i)
    OBVIOUS
  <2>1. orders[i] \in Orders
    BY DEF LedgerTypeInv
  <2>. DEFINE st == IF i \in FilledIn(job.fills) THEN "FILLED"
                    ELSE IF i \in job.rejected THEN "REJECTED" ELSE orders[i].status
  <2>2. orders'[i] = [orders[i] EXCEPT !.status = st]
    BY DEF JobCommit
  <2>. HIDE DEF st
  <2>. QED BY <2>1, <2>2 DEF Orders, SameTrade
<1>6. \A n \in DOMAIN fills' : fills'[n].order \in DOMAIN orders
  BY <1>2, <1>3 DEF BookEntries
<1>7. \A n \in DOMAIN fills' : SameTrade(orders, orders', fills'[n].order)
  BY <1>5, <1>6
<1>8. Books(orders', cash', position', fills')
  <2>. DEFINE o == orders
              q == orders'
              c == cash'
              p == position'
              f == fills'
  <2>1. Books(o, c, p, f) /\ \A n \in DOMAIN f : SameTrade(o, q, f[n].order)
    BY <1>4, <1>7
  <2>. HIDE DEF o, q, c, p, f
  <2>2. Books(q, c, p, f)
    BY <2>1, BooksKept DEF SameTrade
  <2>. QED BY <2>2 DEF q, c, p, f
<1>. QED BY <1>1, <1>8 DEF LedgerInv

\* A request adds an order or writes a status, and the books do not change.
LEMMA RequestKeepsLedger ==
  ASSUME LedgerTypeInv, LedgerInv, NEW w \in Workers, Request(w)
  PROVE  LedgerInv'
<1>1. UNCHANGED <<cash, position, fills, job>>
  BY DEF Request, SubmitLookup, SubmitCommit, SubmitFails, CancelLoad, CancelCommit, ledger
<1>2. orders \in Seq(Orders)
  BY DEF LedgerTypeInv
<1>3. \A i \in DOMAIN orders : SameTrade(orders, orders', i)
  <2>1. CASE SubmitCommit(w)
    BY <1>2, <2>1 DEF SubmitCommit, SameTrade
  <2>2. CASE CancelCommit(w)
    <3>. SUFFICES ASSUME NEW i \in DOMAIN orders PROVE SameTrade(orders, orders', i)
      OBVIOUS
    <3>1. orders[i] \in Orders
      BY <1>2
    <3>2. orders'[i] = IF i = tx[w].order THEN [orders[i] EXCEPT !.status = "CANCELED"] ELSE orders[i]
      BY <2>2 DEF CancelCommit
    <3>. QED BY <3>1, <3>2 DEF Orders, SameTrade
  <2>3. CASE ~SubmitCommit(w) /\ ~CancelCommit(w)
    <3>1. UNCHANGED orders
      BY <2>3 DEF Request, SubmitLookup, SubmitFails, CancelLoad
    <3>. QED BY <3>1 DEF SameTrade
  <2>. QED BY <2>1, <2>2, <2>3
<1>4. Books(orders', cash, position, fills)
  <2>1. \A n \in DOMAIN fills : fills[n].order \in DOMAIN orders
    BY DEF LedgerTypeInv
  <2>2. \A n \in DOMAIN fills : SameTrade(orders, orders', fills[n].order)
    BY <1>3, <2>1
  <2>. DEFINE q == orders'
  <2>3. \A n \in DOMAIN fills : SameTrade(orders, q, fills[n].order)
    BY <2>2
  <2>. HIDE DEF q
  <2>4. Books(q, cash, position, fills)
    BY <2>3, BooksKept DEF SameTrade, LedgerInv
  <2>. QED BY <2>4 DEF q
<1>5. job.running => Books(orders', job.cash, job.position, fills \o job.fills)
  <2>. SUFFICES ASSUME job.running
                PROVE  Books(orders', job.cash, job.position, fills \o job.fills)
    OBVIOUS
  <2>. DEFINE q == orders'
              f == fills \o job.fills
  <2>1. \A n \in DOMAIN f : f[n].order \in DOMAIN orders
    BY JobRows DEF BookEntries
  <2>2. \A n \in DOMAIN f : SameTrade(orders, q, f[n].order)
    BY <1>3, <2>1
  <2>3. Books(orders, job.cash, job.position, f)
    BY DEF LedgerInv
  <2>. HIDE DEF q, f
  <2>4. Books(q, job.cash, job.position, f)
    BY <2>2, <2>3, BooksKept DEF SameTrade
  <2>. QED BY <2>4 DEF q, f
<1>. QED BY <1>1, <1>4, <1>5 DEF LedgerInv

LEMMA LedgerInvNext == LedgerTypeInv /\ LedgerInv /\ [Next]_vars => LedgerInv'
<1>. SUFFICES ASSUME LedgerTypeInv, LedgerInv, [Next]_vars PROVE LedgerInv'
  OBVIOUS
<1>1. ASSUME UNCHANGED <<orders, cash, position, fills, job.cash, job.position, job.fills>>,
             job'.running => job.running
      PROVE  LedgerInv'
  BY <1>1 DEF LedgerInv
<1>2. CASE UNCHANGED vars
  BY <1>1, <1>2 DEF vars, ledger
<1>3. CASE \E w \in Workers : Request(w)
  BY <1>3, RequestKeepsLedger
<1>4. CASE Match
  <2>1. CASE ExecuteStart
    BY <2>1, StartKeepsLedger
  <2>2. CASE \E a \in Accounts : JobAccount(a)
    <3>1. job.running
      BY <2>2 DEF JobAccount
    <3>2. job \in Jobs
      BY <3>1, JobRows
    <3>. QED BY <1>1, <2>2, <3>1, <3>2 DEF JobAccount, Jobs, ledger
  <2>3. CASE \E i \in DOMAIN orders : SkipOrder(i) \/ RejectOrder(i) \/ FillOrder(i)
    <3>. PICK i \in DOMAIN orders : SkipOrder(i) \/ RejectOrder(i) \/ FillOrder(i)
      BY <2>3
    <3>1. CASE FillOrder(i)
      BY <3>1, FillKeepsLedger
    <3>2. CASE SkipOrder(i) \/ RejectOrder(i)
      <4>1. job.running
        BY <3>2 DEF SkipOrder, RejectOrder, Turn
      <4>2. job \in Jobs
        BY <4>1, JobRows
      <4>. QED BY <1>1, <3>2, <4>1, <4>2 DEF SkipOrder, RejectOrder, Jobs, ledger
    <3>. QED BY <3>1, <3>2
  <2>4. CASE JobCommit
    BY <2>4, CommitKeepsLedger
  <2>. QED BY <1>4, <2>1, <2>2, <2>3, <2>4 DEF Match
<1>5. CASE Clock
  <2>1. UNCHANGED <<orders, cash, position, fills, job>>
    BY <1>5 DEF Clock, PaperJobSkipped, TakeSnapshot, Collect, NewDay, ledger
  <2>. QED BY <1>1, <2>1
<1>6. CASE Restart
  BY <1>6 DEF Restart, LedgerInv, ledger, NoJob
<1>. QED BY <1>2, <1>3, <1>4, <1>5, <1>6 DEF Next

LEMMA LedgerInvAlways == Spec => [](LedgerTypeInv /\ LedgerInv)
  BY LedgerTypeInit, TypeInvNext, LedgerInvInit, LedgerInvNext, PTL DEF Spec

\* The sums of the properties are those of the committed rows.
LEMMA SumsOfTheRows ==
  /\ Paid = Nets(fills) /\ Quantities = Qtys(orders, fills)
  /\ \A a, s, side : FillsOf(a, s, side) = Trades(orders, fills, a, s, side)
  /\ \A a : DriftBound(a) = Drift(orders, fills, a)
<1>1. /\ Paid = Nets(fills) /\ Quantities = Qtys(orders, fills)
      /\ \A a, s, side : FillsOf(a, s, side) = Trades(orders, fills, a, s, side)
  BY DEF Paid, Nets, Quantities, Qtys, Of, FillsOf, Trades
<1>2. ASSUME NEW a
      PROVE  DriftBound(a) = Drift(orders, fills, a)
  <2>. DEFINE buys == {n \in DOMAIN fills : Of(n).acct = a /\ Of(n).side = "BUY"}
              upto(n, side) == {m \in FillsOf(a, Of(n).sym, side) : m <= n}
              H == [n \in buys |-> Shares(upto(n, "BUY")) - Shares(upto(n, "SELL"))]
  <2>1. DriftBound(a) = SumFunctionOnSet(H, buys)
    BY DEF DriftBound
  <2>2. buys = Buys(orders, fills, a)
    BY DEF Buys, Of
  <2>3. \A n, side : upto(n, side) = UpTo(orders, fills, a, n, side)
    BY <1>1 DEF UpTo, Of
  <2>. HIDE DEF buys, upto
  <2>4. H = HeldAt(orders, fills, a)
    BY <1>1, <2>2, <2>3 DEF HeldAt, Shares
  <2>. QED BY <2>1, <2>2, <2>4 DEF Drift
<1>. QED BY <1>1, <1>2

\* An account can be recomputed from its fills: its cash from what they cost
\* and brought, and its positions from what they moved, whatever the job had
\* in hand when it was stopped.
THEOREM LedgerRecomputes == Spec => []LedgerIsTheFills
<1>1. LedgerInv => LedgerIsTheFills
  <2>. SUFFICES ASSUME LedgerInv, NEW a \in Accounts
                PROVE  /\ LET Bal == [s \in Symbols |-> Cash(FillsOf(a, s, "SELL"))
                                                        - Cash(FillsOf(a, s, "BUY"))]
                          IN cash[a] = InitialCash + SumFunctionOnSet(Bal, Symbols)
                       /\ \A s \in Symbols :
                            position[a][s].qty = Shares(FillsOf(a, s, "BUY"))
                                                 - Shares(FillsOf(a, s, "SELL"))
    BY DEF LedgerIsTheFills
  <2>. DEFINE Bal == [s \in Symbols |-> Cash(FillsOf(a, s, "SELL")) - Cash(FillsOf(a, s, "BUY"))]
  <2>1. CashAgrees(orders, cash, fills, a) /\ SharesAgree(orders, position, fills, a)
    BY DEF LedgerInv, Books
  <2>2. Bal = CashFlow(orders, fills, a)
    BY SumsOfTheRows DEF CashFlow, NetSum, Cash
  <2>. HIDE DEF Bal
  <2>3. cash[a] = InitialCash + SumFunctionOnSet(Bal, Symbols)
    BY <2>1, <2>2 DEF CashAgrees
  <2>4. \A s \in Symbols : position[a][s].qty = Shares(FillsOf(a, s, "BUY"))
                                                - Shares(FillsOf(a, s, "SELL"))
    BY <2>1, SumsOfTheRows DEF SharesAgree, SharesHeld, QtySum, Shares
  <2>. QED BY <2>3, <2>4 DEF Bal
<1>. QED BY <1>1, LedgerInvAlways, PTL

\* Cash and the cost of what is held are what was put in and what was gained,
\* up to half a unit per share held at each buy.
LEMMA LedgerBalances == LedgerInv => BooksBalance
<1>. SUFFICES ASSUME LedgerInv, NEW a \in Accounts
              PROVE  Near(cash[a] + Basis(a, Symbols), InitialCash + Realized(a), DriftBound(a))
  BY DEF BooksBalance
<1>1. Balanced(orders, cash, position, fills, a)
  BY DEF LedgerInv, Books
<1>2. Basis(a, Symbols) = SumFunctionOnSet(Costs(position, a), Symbols)
  BY DEF Basis, Costs
<1>3. Realized(a) = SumFunctionOnSet(Gains(position, a), Symbols)
  BY DEF Realized, Gains
<1>. QED BY <1>1, <1>2, <1>3, SumsOfTheRows DEF Balanced

THEOREM NothingIsMadeOrLost == Spec => []BooksBalance
  BY LedgerBalances, LedgerInvAlways, PTL

\* Market value with the cost of what has no price is unrealized gain with
\* the whole cost, position by position.
LEMMA ValuesAddUp ==
  ASSUME LedgerTypeInv, NEW a \in Accounts
  PROVE  LET Value == [s \in Symbols |-> latest[s] * position[a][s].qty]
             Gain == [s \in Symbols |-> Value[s] - position[a][s].avg * position[a][s].qty]
             market0 == SumFunctionOnSet(Value, Priced(a))
             gain0 == SumFunctionOnSet(Gain, Priced(a))
         IN /\ market0 + Basis(a, {s \in Symbols : latest[s] = 0}) = gain0 + Basis(a, Symbols)
            /\ market0 \in Int /\ gain0 \in Int /\ Basis(a, Symbols) \in Int
            /\ Basis(a, {s \in Symbols : latest[s] = 0}) \in Int
<1>. DEFINE Value == [s \in Symbols |-> latest[s] * position[a][s].qty]
            Gain == [s \in Symbols |-> Value[s] - position[a][s].avg * position[a][s].qty]
            Cost == [s \in Symbols |-> position[a][s].avg * position[a][s].qty]
            P == Priced(a)
            Z == {s \in Symbols : latest[s] = 0}
            GainP == [s \in Symbols |-> IF s \in P THEN Gain[s] ELSE 0]
            CostZ == [s \in Symbols |-> IF s \in Z THEN Cost[s] ELSE 0]
            Both == [s \in Symbols |-> Value[s] + CostZ[s]]
<1>1. /\ P \subseteq Symbols /\ Z \subseteq Symbols
      /\ \A s \in P : s \notin Z
      /\ \A s \in Symbols : s \notin P => s \in Z \/ ~(position[a][s].qty > 0)
  BY DEF Priced, Open
<1>2. IsFiniteSet(Symbols) /\ IsFiniteSet(P) /\ IsFiniteSet(Z)
  BY <1>1, FS_Subset, PaperConstants
<1>3. Basis(a, Z) = SumFunctionOnSet(Cost, Z) /\ Basis(a, Symbols) = SumFunctionOnSet(Cost, Symbols)
  BY DEF Basis
<1>4. ASSUME NEW s \in Symbols
      PROVE  /\ Value[s] \in Int /\ Cost[s] \in Int /\ Gain[s] = Value[s] - Cost[s]
             /\ s \notin P => Value[s] = 0 /\ (s \in Z \/ Cost[s] = 0)
  <2>1. position[a][s] \in Position /\ latest[s] \in Nat
    <3>1. /\ position \in [Accounts -> [Symbols -> Position]]
          /\ latest \in [Symbols -> Prices \cup {0}]
      BY DEF LedgerTypeInv
    <3>2. Prices \cup {0} \subseteq Nat
      BY PaperConstants
    <3>. QED BY <3>1, <3>2
  <2>2. position[a][s].qty \in Nat /\ position[a][s].avg \in Nat
    BY <2>1 DEF Position
  <2>3. \A u, v \in Nat : u * v \in Int /\ 0 * v = 0 /\ u * 0 = 0
    OBVIOUS
  <2>4. Value[s] \in Int /\ Cost[s] \in Int /\ Gain[s] = Value[s] - Cost[s]
    BY <2>1, <2>2, <2>3
  <2>5. ASSUME s \notin P, s \in Z
        PROVE  Value[s] = 0
    BY <2>2, <2>3, <2>5
  <2>6. ASSUME s \notin P, s \notin Z
        PROVE  Value[s] = 0 /\ Cost[s] = 0
    <3>1. position[a][s].qty = 0
      BY <1>1, <2>2, <2>6
    <3>. QED BY <2>1, <2>2, <2>3, <3>1
  <2>. QED BY <2>4, <2>5, <2>6
<1>. HIDE DEF Value, Gain, Cost, P, Z
<1>5. \A s \in Symbols :
        /\ GainP[s] \in Int /\ CostZ[s] \in Int
        /\ Both[s] = Value[s] + CostZ[s] /\ Both[s] = GainP[s] + Cost[s]
        /\ s \in P => Gain[s] = GainP[s]
        /\ s \in Z => Cost[s] = CostZ[s]
        /\ s \notin P => GainP[s] = 0 /\ Value[s] = 0
        /\ s \notin Z => CostZ[s] = 0
  BY <1>1, <1>4
<1>. HIDE DEF GainP, CostZ, Both
<1>6. SumFunctionOnSet(Value, P) = SumFunctionOnSet(Value, Symbols)
  BY <1>1, <1>2, <1>4, SumWithin
<1>7. SumFunctionOnSet(Gain, P) = SumFunctionOnSet(GainP, Symbols)
  <2>1. SumFunctionOnSet(Gain, P) = SumFunctionOnSet(GainP, P)
    BY <1>1, <1>2, <1>5, SumSame
  <2>2. SumFunctionOnSet(GainP, P) = SumFunctionOnSet(GainP, Symbols)
    BY <1>1, <1>2, <1>5, SumWithin
  <2>. QED BY <2>1, <2>2
<1>8. SumFunctionOnSet(Cost, Z) = SumFunctionOnSet(CostZ, Symbols)
  <2>1. SumFunctionOnSet(Cost, Z) = SumFunctionOnSet(CostZ, Z)
    BY <1>1, <1>2, <1>5, SumSame
  <2>2. SumFunctionOnSet(CostZ, Z) = SumFunctionOnSet(CostZ, Symbols)
    BY <1>1, <1>2, <1>5, SumWithin
  <2>. QED BY <2>1, <2>2
<1>9. SumFunctionOnSet(Both, Symbols) = SumFunctionOnSet(Value, Symbols) + SumFunctionOnSet(CostZ, Symbols)
  BY <1>2, <1>4, <1>5, SumPlus
<1>10. SumFunctionOnSet(Both, Symbols) = SumFunctionOnSet(GainP, Symbols) + SumFunctionOnSet(Cost, Symbols)
  BY <1>2, <1>4, <1>5, SumPlus
<1>11. /\ SumFunctionOnSet(Value, Symbols) \in Int /\ SumFunctionOnSet(GainP, Symbols) \in Int
       /\ SumFunctionOnSet(Cost, Symbols) \in Int /\ SumFunctionOnSet(CostZ, Symbols) \in Int
  BY <1>2, <1>4, <1>5, SumType
<1>12. /\ SumFunctionOnSet(Value, P) + Basis(a, Z) = SumFunctionOnSet(Gain, P) + Basis(a, Symbols)
       /\ SumFunctionOnSet(Value, P) \in Int /\ SumFunctionOnSet(Gain, P) \in Int
       /\ Basis(a, Symbols) \in Int /\ Basis(a, Z) \in Int
  BY <1>3, <1>6, <1>7, <1>8, <1>9, <1>10, <1>11
<1>. QED BY <1>12 DEF Value, Gain, P, Z

\* The snapshot of the day adds up, also when a position has no price.
THEOREM SnapshotsAddUp == Spec => SnapshotAddsUp
<1>1. LedgerTypeInv /\ LedgerInv /\ [Next]_vars =>
        [\A a \in Accounts :
           snapshot'[a].taken /\ snapshot'[a] # snapshot[a] =>
             Near(snapshot'[a].cash + snapshot'[a].market
                    + Basis(a, {s \in Symbols : latest[s] = 0}),
                  InitialCash + snapshot'[a].realized + snapshot'[a].unrealized,
                  DriftBound(a))]_snapshot
  <2>. SUFFICES ASSUME LedgerTypeInv, LedgerInv, [Next]_vars, snapshot' # snapshot,
                       NEW a \in Accounts, snapshot'[a].taken
                PROVE  Near(snapshot'[a].cash + snapshot'[a].market
                              + Basis(a, {s \in Symbols : latest[s] = 0}),
                            InitialCash + snapshot'[a].realized + snapshot'[a].unrealized,
                            DriftBound(a))
    OBVIOUS
  <2>1. TakeSnapshot
    <3>1. ~NewDay
      BY DEF NewDay, NoSnapshot
    <3>2. ~Match
      BY DEF Match, ExecuteStart, JobAccount, SkipOrder, RejectOrder, FillOrder, JobCommit
    <3>3. \A w \in Workers : ~Request(w)
      BY DEF Request, SubmitLookup, SubmitCommit, SubmitFails, CancelLoad, CancelCommit
    <3>4. ~Restart /\ ~PaperJobSkipped /\ ~Collect /\ ~(UNCHANGED vars)
      BY DEF Restart, PaperJobSkipped, Collect, vars
    <3>. QED BY <3>1, <3>2, <3>3, <3>4 DEF Next, Clock
  <2>2. snapshot'[a] = SnapshotOf(a)
    BY <2>1 DEF TakeSnapshot
  <2>. DEFINE Value == [s \in Symbols |-> latest[s] * position[a][s].qty]
              Gain == [s \in Symbols |-> Value[s] - position[a][s].avg * position[a][s].qty]
              V == SumFunctionOnSet(Value, Priced(a))
              G == SumFunctionOnSet(Gain, Priced(a))
              Z == Basis(a, {s \in Symbols : latest[s] = 0})
              B == Basis(a, Symbols)
              R == Realized(a)
              D == DriftBound(a)
              c == cash[a]
  <2>3. V + Z = G + B /\ V \in Int /\ G \in Int /\ B \in Int /\ Z \in Int
    BY ValuesAddUp
  <2>4. /\ snapshot'[a].cash = c /\ snapshot'[a].market = V /\ snapshot'[a].unrealized = G
        /\ snapshot'[a].realized = R
    BY <2>2 DEF SnapshotOf, Realized
  <2>5. Near(c + B, InitialCash + R, D)
    BY LedgerBalances DEF BooksBalance
  <2>6. c \in Int /\ InitialCash \in Int
    <3>1. cash \in [Accounts -> Nat]
      BY DEF LedgerTypeInv
    <3>2. InitialCash \in Nat
      BY PaperConstants
    <3>. QED BY <3>1, <3>2
  <2>7. R \in Int
    <3>. DEFINE p == [s \in Symbols |-> position[a][s].pnl]
    <3>1. \A s \in Symbols : p[s] \in Int
      <4>. SUFFICES ASSUME NEW s \in Symbols PROVE p[s] \in Int
        OBVIOUS
      <4>1. position[a][s] \in Position
        BY DEF LedgerTypeInv
      <4>. QED BY <4>1 DEF Position
    <3>. HIDE DEF p
    <3>2. SumFunctionOnSet(p, Symbols) \in Int
      BY <3>1, SumType, PaperConstants
    <3>. QED BY <3>2 DEF Realized, p
  <2>8. D \in Int
    <3>1. BookEntries(orders, fills)
      BY DEF LedgerTypeInv, BookEntries
    <3>. QED BY <3>1, DriftTyped, SumsOfTheRows
  <2>. HIDE DEF Value, Gain, V, G, Z, B, R, D, c
  <2>9. Near(c + V + Z, InitialCash + R + G, D)
    BY <2>3, <2>5, <2>6, <2>7, <2>8 DEF Near
  <2>. QED BY <2>4, <2>9 DEF Z, D
<1>. QED BY <1>1, LedgerInvAlways, PTL DEF SnapshotAddsUp, Spec

----
(***************************************************************************)
(* The timetable.  A match before the day's closes come meets no price.    *)
(***************************************************************************)
\* No later execution of the day will find a close, and none has matched.
NoMatchInv ==
  /\ \A h \in hour..Len(Timetable) : Timetable[h] = "execute" => \A s \in Symbols : close[s] = 0
  /\ job.running => hour <= Len(Timetable) /\ Timetable[hour] = "execute"
                    /\ job.fills = <<>> /\ job.rejected = {}
  /\ fills = <<>>
  /\ \A i \in DOMAIN orders : orders[i].status \in {"CREATED", "CANCELED"}

LEMMA NoMatchInvInit == Init => NoMatchInv
<1>. SUFFICES ASSUME Init PROVE NoMatchInv
  OBVIOUS
<1>1. DOMAIN orders = {} /\ ~job.running /\ fills = <<>> /\ \A s \in Symbols : close[s] = 0
  BY DEF Init, NoJob
<1>. QED BY <1>1 DEF NoMatchInv

LEMMA NoMatchInvNext ==
  ASSUME \A i, j \in DOMAIN Timetable : Timetable[i] = "execute" /\ Timetable[j] = "collect" => i < j,
         LedgerTypeInv, NoMatchInv, [Next]_vars
  PROVE  NoMatchInv'
<1>0. /\ Len(Timetable) \in Nat /\ DOMAIN Timetable = 1..Len(Timetable)
      /\ hour \in 1..(Len(Timetable) + 1)
  BY PaperConstants DEF LedgerTypeInv
<1>1. CASE UNCHANGED vars
  BY <1>1 DEF vars, ledger, market, NoMatchInv
<1>2. ASSUME NEW w \in Workers, Request(w) PROVE NoMatchInv'
  <2>1. UNCHANGED <<fills, close, hour, job>>
    BY <1>2 DEF Request, SubmitLookup, SubmitCommit, SubmitFails, CancelLoad, CancelCommit, ledger, market
  <2>2. \A i \in DOMAIN orders' : orders'[i].status \in {"CREATED", "CANCELED"}
    <3>1. CASE SubmitCommit(w)
      <4>. DEFINE o == [acct |-> tx[w].request.acct, sym |-> tx[w].request.sym,
                        side |-> tx[w].request.side, qty |-> tx[w].request.qty,
                        limit |-> tx[w].request.limit, key |-> tx[w].key, status |-> "CREATED"]
      <4>1. orders' = Append(orders, o) /\ o.status = "CREATED"
        BY <3>1 DEF SubmitCommit
      <4>2. orders \in Seq(Orders)
        BY DEF LedgerTypeInv
      <4>. HIDE DEF o
      <4>3. \A i \in DOMAIN orders' : (i \in DOMAIN orders /\ orders'[i] = orders[i]) \/ orders'[i] = o
        BY <4>1, <4>2
      <4>. QED BY <4>1, <4>3 DEF NoMatchInv
    <3>2. CASE CancelCommit(w)
      <4>1. /\ DOMAIN orders' = DOMAIN orders
            /\ \A i \in DOMAIN orders : orders'[i].status \in {orders[i].status, "CANCELED"}
        <5>1. orders \in Seq(Orders) /\ \A i \in DOMAIN orders : orders[i] \in Orders
          BY DEF LedgerTypeInv
        <5>2. orders' = [orders EXCEPT ![tx[w].order].status = "CANCELED"]
          BY <3>2 DEF CancelCommit
        <5>3. \A o \in Orders : [o EXCEPT !.status = "CANCELED"].status = "CANCELED"
          BY DEF Orders
        <5>. QED BY <5>1, <5>2, <5>3
      <4>. QED BY <4>1 DEF NoMatchInv
    <3>3. CASE UNCHANGED orders
      BY <3>3 DEF NoMatchInv
    <3>. QED BY <1>2, <3>1, <3>2, <3>3 DEF Request, SubmitLookup, SubmitFails, CancelLoad
  <2>. QED BY <2>1, <2>2 DEF NoMatchInv
<1>3. CASE Match
  <2>1. CASE ExecuteStart
    <3>1. job'.fills = <<>> /\ job'.rejected = {} /\ UNCHANGED <<orders, fills, close, hour>>
      BY <2>1 DEF ExecuteStart, ledger, market
    <3>2. hour <= Len(Timetable) /\ Timetable[hour] = "execute"
      BY <2>1 DEF ExecuteStart, Due
    <3>. QED BY <3>1, <3>2 DEF NoMatchInv
  <2>2. ASSUME NEW a \in Accounts, JobAccount(a) PROVE NoMatchInv'
    <3>1. /\ job.running /\ job'.fills = job.fills /\ job'.rejected = job.rejected
          /\ UNCHANGED <<orders, fills, close, hour>>
      <4>1. /\ job.running /\ UNCHANGED <<orders, fills, close, hour>>
            /\ job' = [job EXCEPT !.accts = @ \ {a}, !.todo = Pending(a)]
        BY <2>2 DEF JobAccount, ledger, market
      <4>2. job \in Jobs
        BY <4>1 DEF LedgerTypeInv, NoJob
      <4>. QED BY <4>1, <4>2 DEF Jobs
    <3>. QED BY <3>1 DEF NoMatchInv
  <2>3. ASSUME NEW i \in DOMAIN orders, SkipOrder(i) PROVE NoMatchInv'
    <3>1. /\ job.running /\ job'.fills = job.fills /\ job'.rejected = job.rejected
          /\ UNCHANGED <<orders, fills, close, hour>>
      <4>1. /\ job.running /\ UNCHANGED <<orders, fills, close, hour>>
            /\ job' = [job EXCEPT !.todo = @ \ {i}]
        BY <2>3 DEF SkipOrder, Turn, ledger, market
      <4>2. job \in Jobs
        BY <4>1 DEF LedgerTypeInv, NoJob
      <4>. QED BY <4>1, <4>2 DEF Jobs
    <3>. QED BY <3>1 DEF NoMatchInv
  <2>4. ASSUME NEW i \in DOMAIN orders, RejectOrder(i) \/ FillOrder(i) PROVE FALSE
    <3>1. job.running /\ close[orders[i].sym] # 0
      BY <2>4 DEF RejectOrder, FillOrder, Turn, Crosses
    <3>2. orders[i].sym \in Symbols
      <4>1. orders[i] \in Orders
        BY DEF LedgerTypeInv
      <4>. QED BY <4>1 DEF Orders
    <3>3. hour \in hour..Len(Timetable) /\ Timetable[hour] = "execute"
      BY <1>0, <3>1 DEF NoMatchInv
    <3>. QED BY <3>1, <3>2, <3>3 DEF NoMatchInv
  <2>5. CASE JobCommit
    <3>1. /\ job.running /\ job' = NoJob /\ fills' = fills \o job.fills
          /\ hour' = hour + 1 /\ UNCHANGED close
      BY <2>5 DEF JobCommit, market
    <3>2. fills' = <<>>
      BY <3>1 DEF NoMatchInv
    <3>3. ~job'.running
      BY <3>1 DEF NoJob
    <3>4. /\ DOMAIN orders' = DOMAIN orders
          /\ \A i \in DOMAIN orders : orders'[i].status = orders[i].status
      <4>1. FilledIn(job.fills) = {} /\ job.rejected = {}
        BY <3>1 DEF NoMatchInv, FilledIn
      <4>2. \A i \in DOMAIN orders : orders[i] \in Orders
        BY DEF LedgerTypeInv
      <4>3. orders' = [i \in DOMAIN orders |->
                  [orders[i] EXCEPT !.status =
                     IF i \in FilledIn(job.fills) THEN "FILLED"
                     ELSE IF i \in job.rejected THEN "REJECTED" ELSE @]]
        BY <2>5 DEF JobCommit
      <4>4. \A o \in Orders : \A s : [o EXCEPT !.status = s].status = s
        BY DEF Orders
      <4>5. \A i \in DOMAIN orders : orders'[i] = [orders[i] EXCEPT !.status = orders[i].status]
        BY <4>1, <4>3
      <4>6. DOMAIN orders' = DOMAIN orders
        BY <4>3
      <4>7. ASSUME NEW i \in DOMAIN orders PROVE orders'[i].status = orders[i].status
        <5>1. PICK o \in Orders : o = orders[i]
          BY <4>2
        <5>2. orders'[i] = [o EXCEPT !.status = o.status]
          BY <4>5, <5>1
        <5>. QED BY <4>4, <5>1, <5>2
      <4>. QED BY <4>6, <4>7
    <3>5. hour'..Len(Timetable) \subseteq hour..Len(Timetable)
      BY <1>0, <3>1
    <3>. QED BY <3>1, <3>2, <3>3, <3>4, <3>5 DEF NoMatchInv
  <2>. QED BY <1>3, <2>1, <2>2, <2>3, <2>4, <2>5 DEF Match
<1>4. CASE Clock
  <2>0. ~job.running /\ job' = job /\ UNCHANGED <<orders, fills>>
    BY <1>4 DEF Clock, PaperJobSkipped, TakeSnapshot, Collect, NewDay, ledger
  <2>1. CASE PaperJobSkipped \/ TakeSnapshot
    <3>1. UNCHANGED close /\ hour' = hour + 1
      BY <2>1 DEF PaperJobSkipped, TakeSnapshot, market
    <3>2. hour'..Len(Timetable) \subseteq hour..Len(Timetable)
      BY <1>0, <3>1
    <3>. QED BY <2>0, <3>1, <3>2 DEF NoMatchInv
  <2>2. CASE Collect
    <3>1. hour' = hour + 1 /\ hour \in DOMAIN Timetable /\ Timetable[hour] = "collect"
      BY <1>0, <2>2 DEF Collect, Due
    <3>2. \A h \in hour'..Len(Timetable) : Timetable[h] # "execute"
      <4>. SUFFICES ASSUME NEW h \in hour'..Len(Timetable), Timetable[h] = "execute" PROVE FALSE
        OBVIOUS
      <4>1. h \in DOMAIN Timetable /\ h > hour
        BY <1>0, <3>1
      <4>2. h < hour
        BY <3>1, <4>1
      <4>. QED BY <1>0, <4>1, <4>2
    <3>. QED BY <2>0, <3>2 DEF NoMatchInv
  <2>3. CASE NewDay
    <3>1. \A s \in Symbols : close'[s] = 0
      BY <2>3 DEF NewDay
    <3>. QED BY <2>0, <3>1 DEF NoMatchInv
  <2>. QED BY <1>4, <2>1, <2>2, <2>3 DEF Clock
<1>5. CASE Restart
  <2>1. ~job'.running /\ UNCHANGED <<orders, fills, close>>
    BY <1>5 DEF Restart, NoJob, ledger, market
  <2>2. hour' \in Int /\ hour' >= hour
    BY <1>0, <1>5 DEF Restart
  <2>3. hour'..Len(Timetable) \subseteq hour..Len(Timetable)
    BY <1>0, <2>2
  <2>. QED BY <2>1, <2>3 DEF NoMatchInv
<1>. QED BY <1>1, <1>2, <1>3, <1>4, <1>5 DEF Next

\* In a timetable that executes the day's orders before it collects the day's
\* closes (DEFAULT_SCHEDULE: 16:00 and 18:00) no paper order is ever filled or
\* rejected, whatever is ordered at whatever prices, over any number of days and
\* restarts: execute_paper_orders asks for the close of its own day.
THEOREM NothingMatchesBeforeTheCloses ==
  ASSUME \A i, j \in DOMAIN Timetable : Timetable[i] = "execute" /\ Timetable[j] = "collect" => i < j
  PROVE  Spec => [](fills = <<>> /\ \A i \in DOMAIN orders : orders[i].status \in {"CREATED", "CANCELED"})
<1>1. NoMatchInv => fills = <<>> /\ \A i \in DOMAIN orders : orders[i].status \in {"CREATED", "CANCELED"}
  BY DEF NoMatchInv
<1>2. LedgerTypeInv /\ NoMatchInv /\ [Next]_vars => NoMatchInv'
  BY NoMatchInvNext
<1>. QED BY <1>1, <1>2, NoMatchInvInit, LedgerTypeInit, TypeInvNext, PTL DEF Spec
====
