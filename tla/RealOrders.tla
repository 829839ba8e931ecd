---- MODULE RealOrders ----
(***************************************************************************)
(* Orders at the real broker: RealOrderExecutor.execute                    *)
(* (app/broker/real_order_executor.py), FillSyncService.sync_fills behind  *)
(* POST /api/real-orders/{id}/sync (app/broker/fill_sync_service.py), the  *)
(* real_orders and real_fills tables, and the broker they talk to.         *)
(*                                                                         *)
(* A call runs in one transaction with network traffic in the middle.      *)
(* Its row and audit rows become visible when the caller commits, so       *)
(* `orders` holds committed rows and none of them is CREATED.  A gate that *)
(* blocks an execution changes nothing: it is a step that is not taken,    *)
(* and the risk engine (gate 9) may block at any time.                     *)
(***************************************************************************)
EXTENDS Integers, Sequences, FiniteSetsExt, Functions

CONSTANTS
  Candidates,      \* order candidates
  Approved,        \* those with status APPROVED
  Amount,          \* their estimated_amount
  Quantity,        \* their quantity: one for all
  MaxRealOrderAmount, MaxRealDailyOrderAmount,
  Executors,       \* callers of execute, each with a session of its own
  Syncers,         \* request threads of the sync endpoint
  Switches,        \* the settings a process may be started with
  FakeSync,        \* TRUE: sync_fills asks FakeKisOrderTransport, as the route does
  Deployments,     \* how the executor may be built and called
  MaxOrders, MaxSyncs, MaxRestarts   \* bounds

ASSUME RealOrderConstants ==
  /\ IsFiniteSet(Executors)
  /\ Approved \subseteq Candidates
  /\ Amount \in [Candidates -> Nat]
  /\ Quantity \in Nat \ {0}
  /\ MaxRealOrderAmount \in Nat
  /\ MaxRealDailyOrderAmount \in Nat
  /\ FakeSync \in BOOLEAN
  /\ MaxOrders \in Nat /\ MaxSyncs \in Nat /\ MaxRestarts \in Nat
  /\ \A s \in Switches : /\ s.kill \in BOOLEAN    \* KILL_SWITCH_ENABLED
                         /\ s.safety \in BOOLEAN  \* TRADING_SAFETY_ENABLED
                         /\ s.real \in BOOLEAN    \* REAL_TRADING_ENABLED
                         /\ s.kis \in BOOLEAN     \* KIS_ORDER_ENABLED
                         /\ s.dry \in BOOLEAN     \* REAL_ORDER_DRY_RUN
                         \* What the executor was built with.
                         /\ s.transport \in {"default", "injected", "factory"}
  /\ \A d \in Deployments :
       /\ d.oneCaller \in BOOLEAN  \* one execution and one sync at a time
       /\ d.injected \in BOOLEAN   \* a transport may be injected into an executor

VARIABLES
  orders,     \* real_orders in id order, each with the sum of its real_fills
  audit,      \* approval_audit_log: how often a candidate has each event
  today,      \* orders created on the current KST day
  broker,     \* external: the orders the broker has
  exec,       \* the call of execute each executor is in
  sync,       \* the call of sync_fills each syncer is in
  syncs,      \* how many syncs there were
  switches, restarts,
  deployment  \* never changes

process == <<switches, restarts, deployment>>
vars == <<orders, audit, today, broker, exec, sync, syncs, process>>

FailedStatuses == {"FAILED", "REJECTED", "CANCELED"}
SkipStatuses == {"FILLED"} \cup FailedStatuses
Events == {"REAL_ORDER_SUBMITTED", "REAL_ORDER_FAILED", "REAL_ORDER_FILL_SYNCED",
           "REAL_ORDER_FILL_FAILED", "FILL_SYNC_NEGATIVE_DELTA"}

NoCall == [op |-> "idle"]

\* The settings an executor may meet, by how it was built.
Startable == {s \in Switches : s.transport = "injected" => deployment.injected}

Init ==
  /\ orders = <<>>
  /\ audit = [c \in Candidates |-> [e \in Events |-> 0]]
  /\ today = {}
  /\ broker = <<>>
  /\ exec = [e \in Executors |-> NoCall]
  /\ sync = [s \in Syncers |-> NoCall]
  /\ syncs = 0
  /\ deployment \in Deployments
  /\ switches \in Startable
  /\ restarts = 0

Log(c, event) == audit' = [audit EXCEPT ![c][event] = @ + 1]

----
(***************************************************************************)
(* execute: the gates, the CREATED row that is flushed and not committed,  *)
(* the one place_order, and what the caller then commits.                  *)
(***************************************************************************)
\* Mutant: the guard knows the orders in flight only.
HasLiveOrderInFlight(c) ==
  \E i \in DOMAIN orders : orders[i].cand = c /\ orders[i].status \in {"SUBMITTED", "DRY_RUN"}

HasLiveOrder(c) == \E i \in DOMAIN orders : /\ orders[i].cand = c
                                            /\ orders[i].status \notin FailedStatuses

TradingOpen == ~switches.kill /\ switches.safety /\ switches.real /\ switches.kis

TodayTotal == SumFunctionOnSet([i \in DOMAIN orders |-> Amount[orders[i].cand]],
                               {i \in today : orders[i].status \notin FailedStatuses})

WithinCaps(c) == /\ Amount[c] <= MaxRealOrderAmount
                 /\ TodayTotal + Amount[c] <= MaxRealDailyOrderAmount

\* _resolve_real_transport: a fake is never one.
RealTransport == switches.transport \in {"injected", "factory"}

Execute(e, c) ==
  /\ exec[e].op = "idle"
  /\ deployment.oneCaller => \A d \in Executors : exec[d] = NoCall
  /\ Len(orders) < MaxOrders
  /\ c \in Approved
  /\ ~HasLiveOrder(c)
  /\ TradingOpen
  /\ WithinCaps(c)
  /\ switches.dry \/ RealTransport
  /\ exec' = [exec EXCEPT ![e] = [op |-> IF switches.dry THEN "dry" ELSE "place", cand |-> c,
                                  today |-> TRUE]]
  /\ UNCHANGED <<orders, audit, today, broker, sync, syncs, process>>

BrokerAccepts(c) == broker' = Append(broker, [cand |-> c, filled |-> 0, flag |-> "none"])

\* Mutant: the dry run uses the transport of the real branch.
PlaceDryResolved(e) ==
  /\ exec[e].op = "dry"
  /\ UNCHANGED broker \/ (RealTransport /\ BrokerAccepts(exec[e].cand))
  /\ exec' = [exec EXCEPT ![e].op = "recorddry"]
  /\ UNCHANGED <<orders, audit, today, sync, syncs, process>>

\* The dry-run branch places its order with the transport the executor holds,
\* which is the fake one unless another was injected, and ignores the answer.
PlaceDry(e) ==
  /\ exec[e].op = "dry"
  /\ \/ UNCHANGED broker
     \/ switches.transport = "injected" /\ BrokerAccepts(exec[e].cand)
  /\ exec' = [exec EXCEPT ![e].op = "recorddry"]
  /\ UNCHANGED <<orders, audit, today, sync, syncs, process>>

PlaceAccepted(e) ==
  /\ exec[e].op = "place"
  /\ BrokerAccepts(exec[e].cand)
  /\ exec' = [exec EXCEPT ![e] = [op |-> "submitted", cand |-> @.cand, today |-> @.today,
                                  ref |-> Len(broker) + 1]]
  /\ UNCHANGED <<orders, audit, today, sync, syncs, process>>

\* REJECTED for a reason KIS gave: the broker said no.
PlaceRejected(e) ==
  /\ exec[e].op = "place"
  /\ exec' = [exec EXCEPT ![e].op = "failed"]
  /\ UNCHANGED <<orders, audit, today, broker, sync, syncs, process>>

\* TIMEOUT, NETWORK_ERROR, UNKNOWN, and a REJECTED that has no reason to give (a
\* 200 without an rt_cd): the broker has the order, or it has not.  execute reads
\* no more than the prefix, so both kinds of REJECTED end in the same row.
PlaceLost(e) ==
  /\ exec[e].op = "place"
  /\ UNCHANGED broker \/ BrokerAccepts(exec[e].cand)
  /\ exec' = [exec EXCEPT ![e].op = "failed"]
  /\ UNCHANGED <<orders, audit, today, sync, syncs, process>>

\* created_at is the time of the flush: before place_order for a real order,
\* after it for a dry run.
RecordRow(e, st, ref) ==
  /\ orders' = Append(orders, [cand |-> exec[e].cand, status |-> st, ref |-> ref, filled |-> 0])
  /\ today' = IF exec[e].today \/ st = "DRY_RUN" THEN today \cup {Len(orders) + 1} ELSE today
  /\ exec' = [exec EXCEPT ![e] = NoCall]
  /\ UNCHANGED <<broker, sync, syncs, process>>

RecordDry(e) ==
  /\ exec[e].op = "recorddry"
  /\ RecordRow(e, "DRY_RUN", 0)
  /\ UNCHANGED audit

\* Mutant: the row's own id is kept in place of the broker's order number.
RecordSubmittedByRowId(e) ==
  /\ exec[e].op = "submitted"
  /\ RecordRow(e, "SUBMITTED", Len(orders) + 1)
  /\ Log(exec[e].cand, "REAL_ORDER_SUBMITTED")

RecordSubmitted(e) ==
  /\ exec[e].op = "submitted"
  /\ RecordRow(e, "SUBMITTED", exec[e].ref)
  /\ Log(exec[e].cand, "REAL_ORDER_SUBMITTED")

RecordFailed(e) ==
  /\ exec[e].op = "failed"
  /\ RecordRow(e, "FAILED", 0)
  /\ Log(exec[e].cand, "REAL_ORDER_FAILED")

----
(***************************************************************************)
(* The sync endpoint.  The row is read, the broker is asked, the fills     *)
(* recorded so far are added up, and then fill and status are written; the *)
(* status decides by what was read first.                                  *)
(***************************************************************************)
SyncOpen == switches.safety /\ ~switches.kill

SyncLoad(s, i) ==
  /\ sync[s].op = "idle"
  /\ deployment.oneCaller => \A t \in Syncers : sync[t] = NoCall
  /\ SyncOpen
  /\ syncs < MaxSyncs
  /\ orders[i].status \notin SkipStatuses \cup {"DRY_RUN"}
  /\ sync' = [sync EXCEPT ![s] = [op |-> "query", order |-> i, seen |-> orders[i].status]]
  /\ syncs' = syncs + 1
  /\ UNCHANGED <<orders, audit, today, broker, exec, process>>

\* HttpxKisOrderTransport._classify_fill_response on the broker's record.
Report(b) == CASE b.flag = "rejected" -> "REJECTED"
               [] b.flag = "canceled" -> "CANCELED"
               [] b.filled = Quantity -> "FULL"
               [] b.filled = 0        -> "NONE"
               [] OTHER               -> "PARTIAL"

(***************************************************************************)
(* What query_fill_status can answer.  With the order's number it is the   *)
(* broker's record; without it, KIS is asked for the row id and knows no   *)
(* such order, or refuses.  A query may fail also after its retries.  The  *)
(* fake says FILLED with quantity 0, which counts as the full quantity.    *)
(***************************************************************************)
Answers(i) ==
  IF FakeSync THEN {[class |-> "FULL", total |-> Quantity]}
  ELSE LET b == broker[orders[i].ref] IN
       {[class |-> "FAILED", total |-> 0], [class |-> "NONE", total |-> 0],
        [class |-> Report(b), total |-> IF Report(b) \in {"FULL", "PARTIAL"} THEN b.filled ELSE 0]}

SyncQuery(s) ==
  /\ sync[s].op = "query"
  /\ \E a \in Answers(sync[s].order) :
       sync' = [sync EXCEPT ![s] = [op |-> "answered", order |-> @.order, seen |-> @.seen,
                                    class |-> a.class, total |-> a.total]]
  /\ UNCHANGED <<orders, audit, today, broker, exec, syncs, process>>

EndSync(s, event) ==
  /\ Log(orders[sync[s].order].cand, event)
  /\ sync' = [sync EXCEPT ![s] = NoCall]
  /\ UNCHANGED <<today, broker, exec, syncs, process>>

SyncFailed(s) ==
  /\ sync[s].op = "answered"
  /\ sync[s].class = "FAILED"
  /\ EndSync(s, "REAL_ORDER_FILL_FAILED")
  /\ UNCHANGED orders

\* REJECTED or CANCELED: the status only, whatever was filled before.
SyncClosed(s) ==
  /\ sync[s].op = "answered"
  /\ sync[s].class \in {"REJECTED", "CANCELED"}
  /\ orders' = [orders EXCEPT ![sync[s].order].status = sync[s].class]
  /\ EndSync(s, "REAL_ORDER_FILL_SYNCED")

\* total_filled_quantity
SyncTotal(s) ==
  /\ sync[s].op = "answered"
  /\ sync[s].class \in {"FULL", "PARTIAL", "NONE"}
  /\ sync' = [sync EXCEPT ![s] = [op |-> "totalled", order |-> @.order, seen |-> @.seen,
                class |-> @.class, delta |-> @.total - orders[@.order].filled]]
  /\ UNCHANGED <<orders, audit, today, broker, exec, syncs, process>>

SyncNegative(s) ==
  /\ sync[s].op = "totalled"
  /\ sync[s].delta < 0
  /\ EndSync(s, "FILL_SYNC_NEGATIVE_DELTA")
  /\ UNCHANGED orders

\* Mutant: a partial answer closes the order.
SyncedStatusPartialCloses(s) == IF sync[s].class = "NONE" THEN orders[sync[s].order].status
                                ELSE "FILLED"

\* The status the sync writes, or the row's own.
SyncedStatus(s) ==
  CASE sync[s].class = "FULL" -> "FILLED"
    [] sync[s].class = "PARTIAL" /\ sync[s].seen # "PARTIALLY_FILLED" -> "PARTIALLY_FILLED"
    [] OTHER -> orders[sync[s].order].status

SyncRecord(s) ==
  LET i == sync[s].order IN
  /\ sync[s].op = "totalled"
  /\ sync[s].delta >= 0
  /\ orders' = [orders EXCEPT ![i].filled = @ + sync[s].delta, ![i].status = SyncedStatus(s)]
  /\ EndSync(s, "REAL_ORDER_FILL_SYNCED")

----
\* The broker: it fills, cancels or rejects what it has accepted.
BrokerFills(b) ==
  /\ broker[b].flag = "none"
  /\ broker[b].filled < Quantity
  /\ broker' = [broker EXCEPT ![b].filled = @ + 1]
  /\ UNCHANGED <<orders, audit, today, exec, sync, syncs, process>>

BrokerCloses(b) ==
  /\ broker[b].flag = "none"
  /\ broker[b].filled < Quantity
  /\ \E f \in {"canceled", "rejected"} :
       /\ f = "rejected" => broker[b].filled = 0
       /\ broker' = [broker EXCEPT ![b].flag = f]
  /\ UNCHANGED <<orders, audit, today, exec, sync, syncs, process>>

Midnight ==
  /\ today' = {}
  /\ exec' = [e \in Executors |-> IF exec[e] = NoCall THEN NoCall
                                  ELSE [exec[e] EXCEPT !.today = FALSE]]
  /\ UNCHANGED <<orders, audit, broker, sync, syncs, process>>

\* The process dies, or is restarted with other settings: open transactions
\* are rolled back; the broker keeps what it has.
Restart ==
  /\ restarts < MaxRestarts
  /\ restarts' = restarts + 1
  /\ switches' \in Startable
  /\ exec' = [e \in Executors |-> NoCall]
  /\ sync' = [s \in Syncers |-> NoCall]
  /\ UNCHANGED <<orders, audit, today, broker, syncs, deployment>>

----
Execution(e) == \/ \E c \in Candidates : Execute(e, c)
                \/ PlaceDry(e) \/ PlaceAccepted(e) \/ PlaceRejected(e) \/ PlaceLost(e)
                \/ RecordDry(e) \/ RecordSubmitted(e) \/ RecordFailed(e)

Synchronisation(s) == \/ \E i \in DOMAIN orders : SyncLoad(s, i)
                      \/ SyncQuery(s) \/ SyncFailed(s) \/ SyncClosed(s)
                      \/ SyncTotal(s) \/ SyncNegative(s) \/ SyncRecord(s)

Next == \/ \E e \in Executors : Execution(e)
        \/ \E s \in Syncers : Synchronisation(s)
        \/ \E b \in DOMAIN broker : BrokerFills(b) \/ BrokerCloses(b)
        \/ Midnight
        \/ Restart

Spec == Init /\ [][Next]_vars

----
(*                               Properties                                *)
----
RealStatuses == {"SUBMITTED", "PARTIALLY_FILLED", "FILLED", "CANCELED", "REJECTED"}

Rows == [cand : Approved, status : RealStatuses \cup {"DRY_RUN", "FAILED"},
         ref : Nat, filled : Nat]
BrokerOrders == [cand : Approved, filled : 0 .. Quantity,
                 flag : {"none", "canceled", "rejected"}]

ExecCalls == {NoCall} \cup [op : {"dry", "recorddry", "place", "failed"}, cand : Approved,
                            today : BOOLEAN]
                     \cup [op : {"submitted"}, cand : Approved, today : BOOLEAN, ref : Nat]

SyncCalls ==
  {NoCall}
  \cup [op : {"query"}, order : DOMAIN orders, seen : {"SUBMITTED", "PARTIALLY_FILLED"}]
  \cup [op : {"answered"}, order : DOMAIN orders, seen : {"SUBMITTED", "PARTIALLY_FILLED"},
        class : {"FULL", "PARTIAL", "NONE", "REJECTED", "CANCELED", "FAILED"},
        total : 0 .. Quantity]
  \cup [op : {"totalled"}, order : DOMAIN orders, seen : {"SUBMITTED", "PARTIALLY_FILLED"},
        class : {"FULL", "PARTIAL", "NONE"}, delta : Int]

\* Type invariant: in particular no committed order is CREATED.
TypeOK ==
  /\ orders \in Seq(Rows)
  /\ audit \in [Candidates -> [Events -> Nat]]
  /\ today \subseteq DOMAIN orders
  /\ broker \in Seq(BrokerOrders)
  /\ exec \in [Executors -> ExecCalls]
  /\ sync \in [Syncers -> SyncCalls]
  /\ syncs \in Nat
  /\ switches \in Switches
  /\ restarts \in 0 .. MaxRestarts
  /\ deployment \in Deployments

\* At most one order of a candidate is not a failed one.
OneLiveOrder ==
  \A i, j \in DOMAIN orders :
    /\ orders[i].cand = orders[j].cand
    /\ orders[i].status \notin FailedStatuses
    /\ orders[j].status \notin FailedStatuses
    => i = j

(***************************************************************************)
(* Every order recorded as submitted is backed by an order at the broker,  *)
(* for the same candidate and for no other row, however executions, syncs  *)
(* and restarts interleave; and only those have been.                      *)
(***************************************************************************)
BrokerBacksOrders ==
  /\ \A i \in DOMAIN orders :
       IF orders[i].status \in RealStatuses
       THEN /\ orders[i].ref \in DOMAIN broker
            /\ broker[orders[i].ref].cand = orders[i].cand
       ELSE orders[i].ref = 0
  /\ \A i, j \in DOMAIN orders :
       orders[i].ref = orders[j].ref /\ orders[i].ref # 0 => i = j

\* Rows are well formed, and a recorded broker number is one the broker gave.
RowsAreBacked == TypeOK /\ BrokerBacksOrders

\* The recorded fills never run ahead of the broker's, and the status tells
\* how much was recorded.
FillsFollowTheBroker ==
  \A i \in DOMAIN orders : orders[i].status \in RealStatuses =>
    /\ orders[i].filled <= broker[orders[i].ref].filled
    /\ orders[i].status = "FILLED" => orders[i].filled = Quantity
    /\ orders[i].status = "SUBMITTED" => orders[i].filled = 0
    /\ orders[i].status = "PARTIALLY_FILLED" => orders[i].filled \in 1 .. Quantity - 1

\* Each committed attempt has its one audit row.
AuditCountsAttempts ==
  \A c \in Candidates :
    /\ audit[c]["REAL_ORDER_SUBMITTED"] =
         Cardinality({i \in DOMAIN orders : /\ orders[i].cand = c
                                            /\ orders[i].status \in RealStatuses})
    /\ audit[c]["REAL_ORDER_FAILED"] =
         Cardinality({i \in DOMAIN orders : /\ orders[i].cand = c
                                            /\ orders[i].status = "FAILED"})

\* A dry run reaches the broker by an injected transport only.
MayHaveReached(st) == st # "DRY_RUN" \/ deployment.injected

RowsThatReach(c) == {i \in DOMAIN orders :
                       orders[i].cand = c /\ MayHaveReached(orders[i].status)}
CallsThatReach(c) == {e \in Executors :
                        /\ \/ exec[e].op \in {"submitted", "failed"}
                           \/ exec[e].op = "recorddry" /\ MayHaveReached("DRY_RUN")
                        /\ exec[e].cand = c}

\* The broker never has more orders of a candidate than the table and the
\* calls in flight account for; a restart loses what was in flight.
BrokerOrdersAreAccounted ==
  \A c \in Approved :
    Cardinality({b \in DOMAIN broker : broker[b].cand = c})
      <= Cardinality(RowsThatReach(c)) + Cardinality(CallsThatReach(c))
         + restarts * Cardinality(Executors)

(***************************************************************************)
(* Every attempt is on the books: each committed one has its one audit row *)
(* ("Exactly one REAL_ORDER_SUBMITTED or REAL_ORDER_FAILED row",           *)
(* _execute_real), and each order at the broker belongs to a row, or to an *)
(* attempt whose answer was lost or whose process died.                    *)
(***************************************************************************)
AttemptsAreOnTheBooks == AuditCountsAttempts /\ BrokerOrdersAreAccounted

\* What was recorded today and has not failed stays within the daily cap.
DailyCapHeld == TodayTotal <= MaxRealDailyOrderAmount

(***************************************************************************)
(* For one caller at a time, with syncs and restarts: a candidate has one  *)
(* order that has not failed ("a strict 1-candidate-1-RealOrder            *)
(* invariant", real_order.py), the daily cap holds of what was recorded,   *)
(* and the recorded fills follow the broker's when the broker is asked.    *)
(***************************************************************************)
SerialCallersKeepTheRules ==
  deployment.oneCaller =>
    OneLiveOrder /\ DailyCapHeld /\ (~FakeSync => FillsFollowTheBroker)

(***************************************************************************)
(* One caller of execute and one of the sync endpoint implement the status *)
(* machine of real_orders.                                                 *)
(***************************************************************************)
Lifecycle == INSTANCE RealOrderLifecycle WITH
               ledger <- [i \in DOMAIN orders |->
                            [cand |-> orders[i].cand, status |-> orders[i].status,
                             filled |-> orders[i].filled]]

SerialImplementsLifecycle ==
  /\ deployment.oneCaller => Lifecycle!Init
  /\ [][deployment.oneCaller => Lifecycle!Next \/ UNCHANGED orders]_vars

----
(***************************************************************************)
(* Statements of the repository that its code does not keep.               *)
(***************************************************************************)

\* "Statuses indicating a fill (full or partial) was confirmed at the broker"
\* (fill_sync_service.py): the route's fake transport confirms everything.
FillsAreConfirmed ==
  \A i \in DOMAIN orders :
    orders[i].status \in {"FILLED", "PARTIALLY_FILLED"} => broker[orders[i].ref].filled > 0
====
