---- MODULE MCPaperBroker ----
(* Values for the constants of PaperBroker.                                *)
EXTENDS PaperBroker

CONSTANTS a1, x

Order(acct, side, qty, limit) ==
  [acct |-> acct, sym |-> x, side |-> side, qty |-> qty, limit |-> limit]

\* With closes of 2 and 3 a buy of two shares costs 5 or 8 with its fees: an
\* account of 12 affords two buys at 2 but not two at 3, and one of 7 affords
\* none at 3.
Trading == {Order(a1, "BUY", 2, 0), Order(a1, "SELL", 1, 0)}

\* The order of the jobs in which an order meets the close of its day.
CollectFirst == <<"collect", "execute", "snapshot">>

\* DEFAULT_SCHEDULE: 16:00 execute, 16:30 snapshot, 18:00 collect.
AsShipped == <<"execute", "snapshot", "collect">>
====
