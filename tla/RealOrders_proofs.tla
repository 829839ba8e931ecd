---- MODULE RealOrders_proofs ----
(***************************************************************************)
(* Proofs about RealOrders, for every set of candidates, executors and     *)
(* syncers, all settings, amounts and quantities, and any number of orders *)
(* and restarts.                                                           *)
(***************************************************************************)
EXTENDS RealOrders, SumTheorems, TLAPS

USE DEF process

\* Sequences of rows, with one more and with one changed.
LEMMA OneMore ==
  ASSUME NEW S, NEW q \in Seq(S), NEW x \in S
  PROVE  /\ Append(q, x) \in Seq(S)
         /\ DOMAIN q = 1 .. Len(q) /\ DOMAIN Append(q, x) = 1 .. Len(q) + 1
         /\ Append(q, x)[Len(q) + 1] = x
         /\ \A i \in DOMAIN q : Append(q, x)[i] = q[i]
OBVIOUS

LEMMA OneChanged ==
  ASSUME NEW S, NEW q \in Seq(S), NEW i \in DOMAIN q, NEW x \in S
  PROVE  /\ [q EXCEPT ![i] = x] \in Seq(S)
         /\ DOMAIN [q EXCEPT ![i] = x] = DOMAIN q
         /\ [q EXCEPT ![i] = x][i] = x
         /\ \A j \in DOMAIN q : j # i => [q EXCEPT ![i] = x][j] = q[j]
OBVIOUS

(***************************************************************************)
(* RowsAreBacked is not inductive alone: a number on its way into a row is *)
(* the broker's for that candidate and on no other way, and the row a sync *)
(* holds is of a real order.                                               *)
(***************************************************************************)
NumberIsNew(e) ==
  /\ exec[e].ref \in DOMAIN broker
  /\ broker[exec[e].ref].cand = exec[e].cand
  /\ \A i \in DOMAIN orders : orders[i].ref # exec[e].ref
  /\ \A d \in Executors : exec[d].op = "submitted" /\ exec[d].ref = exec[e].ref => d = e

NumbersAreNew == \A e \in Executors : exec[e].op = "submitted" => NumberIsNew(e)

SyncsHoldRealRows ==
  \A s \in Syncers : sync[s].op # "idle" => orders[sync[s].order].status \in RealStatuses

OrdersInv == TypeOK /\ BrokerBacksOrders /\ NumbersAreNew /\ SyncsHoldRealRows

LEMMA OrdersInvInit == Init => OrdersInv
<1>. SUFFICES ASSUME Init PROVE OrdersInv
  OBVIOUS
<1>1. NoCall \in ExecCalls /\ NoCall \in SyncCalls /\ NoCall.op = "idle"
  BY DEF NoCall, ExecCalls, SyncCalls
<1>2. TypeOK
  <2>1. 0 \in 0 .. MaxRestarts /\ \A S : <<>> \in Seq(S)
    BY RealOrderConstants
  <2>. QED BY <1>1, <2>1 DEF Init, TypeOK, Startable
<1>3. BrokerBacksOrders
  BY DEF Init, BrokerBacksOrders
<1>4. NumbersAreNew /\ SyncsHoldRealRows
  BY <1>1 DEF Init, NumbersAreNew, SyncsHoldRealRows
<1>. QED BY <1>2, <1>3, <1>4 DEF OrdersInv

----
\* A call of execute that neither places nor records.
Stays(e) == /\ UNCHANGED <<orders, audit, today, broker, sync, syncs, process>>
            /\ \E x \in ExecCalls : x.op # "submitted" /\ exec' = [exec EXCEPT ![e] = x]

LEMMA StaysStep ==
  ASSUME OrdersInv, NEW e \in Executors, Stays(e)
  PROVE  OrdersInv'
<1>. PICK x \in ExecCalls : x.op # "submitted" /\ exec' = [exec EXCEPT ![e] = x]
  BY DEF Stays
<1>. USE DEF Stays
<1>1. exec \in [Executors -> ExecCalls]
  BY DEF OrdersInv, TypeOK
<1>2. exec' \in [Executors -> ExecCalls]
  BY <1>1
<1>3. TypeOK'
  BY <1>2 DEF OrdersInv, TypeOK, SyncCalls
<1>4. BrokerBacksOrders'
  BY DEF OrdersInv, BrokerBacksOrders
<1>5. SyncsHoldRealRows'
  BY DEF OrdersInv, SyncsHoldRealRows
<1>6. \A d \in Executors : exec'[d].op = "submitted" => exec'[d] = exec[d]
  BY <1>1
<1>7. NumbersAreNew'
  BY <1>6 DEF OrdersInv, NumbersAreNew, NumberIsNew
<1>. QED BY <1>3, <1>4, <1>5, <1>7 DEF OrdersInv

\* The broker takes an order; whoever placed it knows its number or nothing.
LEMMA BrokerAcceptsStep ==
  ASSUME OrdersInv, NEW e \in Executors, exec[e].cand \in Approved, BrokerAccepts(exec[e].cand),
         UNCHANGED <<orders, audit, today, sync, syncs, process>>,
         NEW x \in ExecCalls, exec' = [exec EXCEPT ![e] = x],
         x.op = "submitted" => x.cand = exec[e].cand /\ x.ref = Len(broker) + 1
  PROVE  OrdersInv'
<1>. DEFINE b == [cand |-> exec[e].cand, filled |-> 0, flag |-> "none"]
<1>1. b \in BrokerOrders
  BY RealOrderConstants DEF BrokerOrders
<1>2. b.cand = exec[e].cand /\ broker' = Append(broker, b) /\ broker \in Seq(BrokerOrders)
  BY DEF BrokerAccepts, OrdersInv, TypeOK
<1>. HIDE DEF b
<1>3. /\ broker' \in Seq(BrokerOrders)
      /\ DOMAIN broker = 1 .. Len(broker) /\ DOMAIN broker' = 1 .. Len(broker) + 1
      /\ broker'[Len(broker) + 1] = b
      /\ \A n \in DOMAIN broker : broker'[n] = broker[n]
  BY <1>1, <1>2, OneMore
<1>4. exec \in [Executors -> ExecCalls] /\ exec' \in [Executors -> ExecCalls] /\ Len(broker) \in Nat
  BY <1>2 DEF OrdersInv, TypeOK
<1>5. TypeOK'
  BY <1>3, <1>4 DEF OrdersInv, TypeOK, SyncCalls
<1>6. BrokerBacksOrders'
  BY <1>3, <1>4 DEF OrdersInv, BrokerBacksOrders
<1>7. SyncsHoldRealRows'
  BY DEF OrdersInv, SyncsHoldRealRows
<1>8. \A i \in DOMAIN orders : orders[i].ref \in DOMAIN broker \cup {0}
  BY DEF OrdersInv, BrokerBacksOrders
<1>9. ASSUME NEW d \in Executors, exec'[d].op = "submitted"
      PROVE  NumberIsNew(d)'
  <2>1. CASE d # e
    <3>1. exec'[d] = exec[d] /\ NumberIsNew(d)
      BY <1>4, <1>9, <2>1 DEF OrdersInv, NumbersAreNew
    <3>2. ASSUME NEW c \in Executors, exec'[c].op = "submitted", exec'[c].ref = exec'[d].ref
          PROVE  c = d
      <4>1. c # e
        BY <1>3, <1>4, <3>1, <3>2 DEF NumberIsNew
      <4>. QED BY <1>4, <3>1, <3>2, <4>1 DEF NumberIsNew
    <3>. QED BY <1>3, <1>4, <3>1, <3>2 DEF NumberIsNew
  <2>2. CASE d = e
    <3>1. exec'[d].ref = Len(broker) + 1 /\ exec'[d].cand = exec[e].cand
      BY <1>4, <1>9, <2>2
    <3>2. ASSUME NEW c \in Executors, exec'[c].op = "submitted", exec'[c].ref = exec'[d].ref
          PROVE  c = d
      <4>1. CASE c # e
        <5>1. exec[c].ref \in DOMAIN broker /\ exec'[c] = exec[c]
          BY <1>4, <3>2, <4>1 DEF OrdersInv, NumbersAreNew, NumberIsNew
        <5>. QED BY <1>3, <1>4, <3>1, <3>2, <5>1
      <4>. QED BY <2>2, <4>1
    <3>3. \A i \in DOMAIN orders : orders[i].ref # Len(broker) + 1
      BY <1>3, <1>4, <1>8
    <3>. QED BY <1>2, <1>3, <1>4, <3>1, <3>2, <3>3 DEF NumberIsNew
  <2>. QED BY <2>1, <2>2
<1>. QED BY <1>5, <1>6, <1>7, <1>9 DEF OrdersInv, NumbersAreNew

\* A row is written: for a real order with the number the broker gave it.
LEMMA RecordRowStep ==
  ASSUME OrdersInv, NEW e \in Executors, NEW st, NEW ref, RecordRow(e, st, ref),
         exec[e].cand \in Approved, audit' \in [Candidates -> [Events -> Nat]],
         \/ st \in {"DRY_RUN", "FAILED"} /\ ref = 0
         \/ st = "SUBMITTED" /\ exec[e].op = "submitted" /\ ref = exec[e].ref
  PROVE  OrdersInv'
<1>. DEFINE row == [cand |-> exec[e].cand, status |-> st, ref |-> ref, filled |-> 0]
<1>1. /\ orders' = Append(orders, row) /\ exec' = [exec EXCEPT ![e] = NoCall]
      /\ UNCHANGED <<broker, sync, syncs, process>>
      /\ today' \subseteq today \cup {Len(orders) + 1}
  BY DEF RecordRow
<1>2. /\ orders \in Seq(Rows) /\ broker \in Seq(BrokerOrders) /\ Len(orders) \in Nat
      /\ exec \in [Executors -> ExecCalls] /\ today \subseteq DOMAIN orders
  BY DEF OrdersInv, TypeOK
<1>3. st = "SUBMITTED" => NumberIsNew(e)
  BY DEF OrdersInv, NumbersAreNew
<1>4. ref \in Nat /\ (ref = 0 \/ st = "SUBMITTED")
  BY <1>2, <1>3 DEF NumberIsNew
<1>5. row \in Rows
  BY <1>4 DEF Rows, RealStatuses
<1>6. row.cand = exec[e].cand /\ row.status = st /\ row.ref = ref
  OBVIOUS
<1>. HIDE DEF row
<1>7. /\ orders' \in Seq(Rows)
      /\ DOMAIN orders = 1 .. Len(orders) /\ DOMAIN orders' = 1 .. Len(orders) + 1
      /\ orders'[Len(orders) + 1] = row
      /\ \A i \in DOMAIN orders : orders'[i] = orders[i]
  BY <1>1, <1>2, <1>5, OneMore
<1>8. DOMAIN orders \subseteq DOMAIN orders' /\ NoCall \in ExecCalls /\ NoCall.op # "submitted"
  BY <1>2, <1>7 DEF ExecCalls, NoCall
<1>9. TypeOK'
  <2>1. today' \subseteq DOMAIN orders'
    BY <1>1, <1>2, <1>7
  <2>2. exec' \in [Executors -> ExecCalls]
    BY <1>1, <1>2, <1>8
  <2>3. SyncCalls \subseteq SyncCalls'
    BY <1>8 DEF SyncCalls
  <2>4. sync' \in [Syncers -> SyncCalls']
    BY <1>1, <2>3 DEF OrdersInv, TypeOK
  <2>. QED BY <1>1, <1>7, <2>1, <2>2, <2>4 DEF OrdersInv, TypeOK
<1>10. BrokerBacksOrders'
  <2>1. ASSUME NEW i \in DOMAIN orders'
        PROVE  IF orders'[i].status \in RealStatuses
               THEN orders'[i].ref \in DOMAIN broker /\ broker[orders'[i].ref].cand = orders'[i].cand
               ELSE orders'[i].ref = 0
    <3>1. CASE i \in DOMAIN orders
      BY <1>7, <3>1 DEF OrdersInv, BrokerBacksOrders
    <3>2. CASE i = Len(orders) + 1
      BY <1>3, <1>6, <1>7, <3>2 DEF NumberIsNew, RealStatuses
    <3>. QED BY <1>2, <1>7, <3>1, <3>2
  <2>2. ASSUME NEW i \in DOMAIN orders', NEW j \in DOMAIN orders',
               orders'[i].ref = orders'[j].ref, orders'[i].ref # 0
        PROVE  i = j
    <3>1. \A k \in DOMAIN orders' : k \in DOMAIN orders \/ k = Len(orders) + 1
      BY <1>2, <1>7
    <3>2. ref # 0 => \A k \in DOMAIN orders : orders[k].ref # ref
      BY <1>3, <1>4 DEF NumberIsNew
    <3>. QED BY <1>6, <1>7, <2>2, <3>1, <3>2 DEF OrdersInv, BrokerBacksOrders
  <2>. QED BY <1>1, <2>1, <2>2 DEF BrokerBacksOrders
<1>11. SyncsHoldRealRows'
  <2>1. ASSUME NEW s \in Syncers, sync[s].op # "idle"
        PROVE  sync[s].order \in DOMAIN orders
    <3>1. sync[s] \in SyncCalls
      BY DEF OrdersInv, TypeOK
    <3>. QED BY <2>1, <3>1 DEF SyncCalls, NoCall
  <2>. QED BY <1>1, <1>7, <2>1 DEF OrdersInv, SyncsHoldRealRows
<1>12. ASSUME NEW d \in Executors, exec'[d].op = "submitted"
       PROVE  NumberIsNew(d)'
  <2>1. d # e /\ exec'[d] = exec[d]
    BY <1>1, <1>2, <1>8, <1>12
  <2>2. NumberIsNew(d)
    BY <1>12, <2>1 DEF OrdersInv, NumbersAreNew
  <2>3. row.ref # exec[d].ref
    <3>1. CASE ref = 0
      <4>1. exec[d].ref \in 1 .. Len(broker)
        BY <1>2, <2>2 DEF NumberIsNew
      <4>. QED BY <1>6, <3>1, <4>1
    <3>2. CASE ref # 0
      BY <1>3, <1>4, <1>6, <1>12, <2>1, <2>2, <3>2 DEF NumberIsNew
    <3>. QED BY <3>1, <3>2
  <2>4. \A i \in DOMAIN orders' : orders'[i].ref # exec[d].ref
    BY <1>2, <1>7, <2>2, <2>3 DEF NumberIsNew
  <2>5. \A c \in Executors : exec'[c].op = "submitted" => exec'[c] = exec[c]
    BY <1>1, <1>2, <1>8
  <2>. QED BY <1>1, <2>1, <2>2, <2>4, <2>5 DEF NumberIsNew
<1>. QED BY <1>9, <1>10, <1>11, <1>12 DEF OrdersInv, NumbersAreNew

LEMMA LogTyped ==
  ASSUME TypeOK, NEW c \in Approved, NEW event \in Events, Log(c, event)
  PROVE  audit' \in [Candidates -> [Events -> Nat]]
BY RealOrderConstants DEF TypeOK, Log

LEMMA ExecutionStep ==
  ASSUME OrdersInv, NEW e \in Executors, Execution(e)
  PROVE  OrdersInv'
<1>1. exec \in [Executors -> ExecCalls] /\ TypeOK
  BY DEF OrdersInv, TypeOK
<1>2. exec[e].op # "idle" =>
        /\ exec[e].cand \in Approved /\ exec[e].today \in BOOLEAN
        /\ exec[e].op # "submitted" =>
             exec[e] \in [op : {"dry", "recorddry", "place", "failed"}, cand : Approved, today : BOOLEAN]
  BY <1>1 DEF ExecCalls, NoCall
<1>3. CASE \E c \in Candidates : Execute(e, c)
  <2>. PICK c \in Candidates : Execute(e, c)
    BY <1>3
  <2>. DEFINE x == [op |-> IF switches.dry THEN "dry" ELSE "place", cand |-> c, today |-> TRUE]
  <2>1. x \in ExecCalls /\ x.op # "submitted"
    BY DEF Execute, ExecCalls
  <2>. QED BY <2>1, StaysStep DEF Execute, Stays
<1>4. CASE PlaceDry(e)
  <2>. DEFINE x == [exec[e] EXCEPT !.op = "recorddry"]
  <2>1. exec[e].op = "dry" /\ exec' = [exec EXCEPT ![e] = x]
    BY <1>4 DEF PlaceDry
  <2>2. x \in ExecCalls /\ x.op # "submitted"
    BY <1>2, <2>1 DEF ExecCalls
  <2>. HIDE DEF x
  <2>3. CASE UNCHANGED broker
    BY <1>4, <2>1, <2>2, <2>3, StaysStep DEF PlaceDry, Stays
  <2>4. CASE BrokerAccepts(exec[e].cand)
    BY <1>2, <1>4, <2>1, <2>2, <2>4, BrokerAcceptsStep DEF PlaceDry
  <2>. QED BY <1>4, <2>3, <2>4 DEF PlaceDry
<1>5. CASE PlaceAccepted(e)
  <2>. DEFINE x == [op |-> "submitted", cand |-> exec[e].cand, today |-> exec[e].today,
                    ref |-> Len(broker) + 1]
  <2>1. exec[e].op = "place" /\ exec' = [exec EXCEPT ![e] = x]
    BY <1>5 DEF PlaceAccepted
  <2>2. Len(broker) \in Nat
    BY DEF OrdersInv, TypeOK
  <2>3. x \in ExecCalls /\ x.cand = exec[e].cand /\ x.ref = Len(broker) + 1
    BY <1>2, <2>1, <2>2 DEF ExecCalls
  <2>. HIDE DEF x
  <2>. QED BY <1>2, <1>5, <2>1, <2>3, BrokerAcceptsStep DEF PlaceAccepted
<1>6. CASE PlaceRejected(e) \/ PlaceLost(e)
  <2>. DEFINE x == [exec[e] EXCEPT !.op = "failed"]
  <2>1. exec[e].op = "place" /\ exec' = [exec EXCEPT ![e] = x]
    BY <1>6 DEF PlaceRejected, PlaceLost
  <2>2. x \in ExecCalls /\ x.op # "submitted"
    BY <1>2, <2>1 DEF ExecCalls
  <2>. HIDE DEF x
  <2>3. CASE UNCHANGED broker
    BY <1>6, <2>1, <2>2, <2>3, StaysStep DEF PlaceRejected, PlaceLost, Stays
  <2>4. CASE BrokerAccepts(exec[e].cand) /\ ~PlaceRejected(e)
    BY <1>2, <1>6, <2>1, <2>2, <2>4, BrokerAcceptsStep DEF PlaceLost
  <2>. QED BY <1>6, <2>3, <2>4 DEF PlaceRejected, PlaceLost
<1>7. CASE RecordDry(e)
  BY <1>1, <1>2, <1>7, RecordRowStep DEF RecordDry, TypeOK
<1>8. CASE RecordSubmitted(e)
  <2>1. audit' \in [Candidates -> [Events -> Nat]]
    BY <1>1, <1>2, <1>8, LogTyped DEF RecordSubmitted, Events
  <2>. QED BY <1>2, <1>8, <2>1, RecordRowStep DEF RecordSubmitted
<1>9. CASE RecordFailed(e)
  <2>1. audit' \in [Candidates -> [Events -> Nat]]
    BY <1>1, <1>2, <1>9, LogTyped DEF RecordFailed, Events
  <2>. QED BY <1>2, <1>9, <2>1, RecordRowStep DEF RecordFailed
<1>. QED BY <1>3, <1>4, <1>5, <1>6, <1>7, <1>8, <1>9 DEF Execution

----
\* A sync that only reads.
LEMMA ReadingStep ==
  ASSUME OrdersInv, NEW s \in Syncers, NEW x \in SyncCalls, sync' = [sync EXCEPT ![s] = x],
         x.op # "idle" => orders[x.order].status \in RealStatuses,
         UNCHANGED <<orders, audit, today, broker, exec, process>>, syncs' \in Nat
  PROVE  OrdersInv'
<1>1. sync \in [Syncers -> SyncCalls]
  BY DEF OrdersInv, TypeOK
<1>2. sync' \in [Syncers -> SyncCalls] /\ SyncCalls' = SyncCalls
  BY <1>1 DEF SyncCalls
<1>3. TypeOK'
  BY <1>2 DEF OrdersInv, TypeOK
<1>4. BrokerBacksOrders' /\ NumbersAreNew'
  BY DEF OrdersInv, BrokerBacksOrders, NumbersAreNew, NumberIsNew
<1>5. SyncsHoldRealRows'
  BY <1>1 DEF OrdersInv, SyncsHoldRealRows
<1>. QED BY <1>3, <1>4, <1>5 DEF OrdersInv

\* A sync that ends with what it makes of its row: the same broker order, and a
\* status of a real order again.
LEMMA EndSyncStep ==
  ASSUME OrdersInv, NEW s \in Syncers, sync[s].op # "idle", NEW event \in Events, EndSync(s, event),
         \/ UNCHANGED orders
         \/ \E x \in Rows : /\ orders' = [orders EXCEPT ![sync[s].order] = x]
                           /\ x.cand = orders[sync[s].order].cand
                           /\ x.ref = orders[sync[s].order].ref
                           /\ x.status \in RealStatuses
  PROVE  OrdersInv'
<1>. DEFINE i == sync[s].order
<1>1. /\ sync \in [Syncers -> SyncCalls] /\ orders \in Seq(Rows) /\ TypeOK
      /\ UNCHANGED <<today, broker, exec, syncs, process>>
      /\ sync' = [sync EXCEPT ![s] = NoCall]
  BY DEF OrdersInv, TypeOK, EndSync
<1>2. i \in DOMAIN orders /\ orders[i].status \in RealStatuses
  <2>1. sync[s] \in SyncCalls
    BY <1>1
  <2>. QED BY <2>1 DEF SyncCalls, NoCall, OrdersInv, SyncsHoldRealRows
<1>. HIDE DEF i
<1>3. /\ orders' \in Seq(Rows) /\ DOMAIN orders' = DOMAIN orders
      /\ \A j \in DOMAIN orders : /\ orders'[j].cand = orders[j].cand
                                 /\ orders'[j].ref = orders[j].ref
                                 /\ \/ orders'[j].status = orders[j].status
                                    \/ {orders'[j].status, orders[j].status} \subseteq RealStatuses
  <2>1. CASE UNCHANGED orders
    BY <1>1, <2>1
  <2>2. CASE ~UNCHANGED orders
    <3>1. PICK x \in Rows : /\ orders' = [orders EXCEPT ![i] = x] /\ x.cand = orders[i].cand
                            /\ x.ref = orders[i].ref /\ x.status \in RealStatuses
      BY <2>2 DEF i
    <3>2. /\ orders' \in Seq(Rows) /\ DOMAIN orders' = DOMAIN orders /\ orders'[i] = x
          /\ \A j \in DOMAIN orders : j # i => orders'[j] = orders[j]
      BY <1>1, <1>2, <3>1, OneChanged
    <3>. QED BY <1>2, <3>1, <3>2
  <2>. QED BY <2>1, <2>2
<1>4. NoCall \in SyncCalls /\ NoCall.op = "idle"
  BY DEF SyncCalls, NoCall
<1>5. sync' \in [Syncers -> SyncCalls] /\ SyncCalls' = SyncCalls
  BY <1>1, <1>3, <1>4 DEF SyncCalls
<1>6. audit' \in [Candidates -> [Events -> Nat]]
  <2>1. orders[i] \in Rows
    BY <1>1, <1>2
  <2>2. orders[i].cand \in Approved
    BY <2>1 DEF Rows
  <2>. QED BY <1>1, <2>2, LogTyped DEF EndSync, i
<1>7. TypeOK'
  BY <1>1, <1>3, <1>5, <1>6 DEF TypeOK
<1>8. BrokerBacksOrders'
  BY <1>1, <1>3 DEF OrdersInv, BrokerBacksOrders, RealStatuses
<1>9. NumbersAreNew'
  BY <1>1, <1>3 DEF OrdersInv, NumbersAreNew, NumberIsNew
<1>10. SyncsHoldRealRows'
  <2>1. ASSUME NEW r \in Syncers, sync'[r].op # "idle"
        PROVE  orders'[sync'[r].order].status \in RealStatuses
    <3>1. sync'[r] = sync[r] /\ sync[r] \in SyncCalls
      BY <1>1, <1>4, <2>1
    <3>2. sync[r].order \in DOMAIN orders
      BY <2>1, <3>1 DEF SyncCalls, NoCall
    <3>. QED BY <1>3, <2>1, <3>1, <3>2 DEF OrdersInv, SyncsHoldRealRows
  <2>. QED BY <2>1 DEF SyncsHoldRealRows
<1>. QED BY <1>7, <1>8, <1>9, <1>10 DEF OrdersInv

\* What the broker answers to a sync of a real order.
LEMMA AnswersTyped ==
  ASSUME OrdersInv, NEW i \in DOMAIN orders, orders[i].status \in RealStatuses, NEW a \in Answers(i)
  PROVE  /\ a.class \in {"FULL", "PARTIAL", "NONE", "REJECTED", "CANCELED", "FAILED"}
         /\ a.total \in 0 .. Quantity
<1>1. CASE FakeSync
  BY <1>1, RealOrderConstants DEF Answers
<1>2. CASE ~FakeSync
  <2>. DEFINE b == broker[orders[i].ref]
  <2>1. b \in BrokerOrders
    BY DEF OrdersInv, BrokerBacksOrders, TypeOK
  <2>2. b.filled \in 0 .. Quantity /\ 0 \in 0 .. Quantity
    BY <2>1, RealOrderConstants DEF BrokerOrders
  <2>3. Report(b) \in {"REJECTED", "CANCELED", "FULL", "NONE", "PARTIAL"}
    BY DEF Report
  <2>4. \/ a = [class |-> "FAILED", total |-> 0] \/ a = [class |-> "NONE", total |-> 0]
        \/ a = [class |-> Report(b), total |-> IF Report(b) \in {"FULL", "PARTIAL"} THEN b.filled ELSE 0]
    BY <1>2 DEF Answers
  <2>. HIDE DEF b
  <2>. QED BY <2>2, <2>3, <2>4
<1>. QED BY <1>1, <1>2

LEMMA SynchronisationStep ==
  ASSUME OrdersInv, NEW s \in Syncers, Synchronisation(s)
  PROVE  OrdersInv'
<1>. DEFINE i == sync[s].order
<1>1. sync[s] \in SyncCalls /\ orders \in Seq(Rows) /\ syncs \in Nat
  BY DEF OrdersInv, TypeOK
<1>2. sync[s].op # "idle" => /\ i \in DOMAIN orders /\ orders[i].status \in RealStatuses
                             /\ orders[i] \in Rows
                             /\ sync[s].seen \in {"SUBMITTED", "PARTIALLY_FILLED"}
  BY <1>1 DEF SyncCalls, NoCall, OrdersInv, SyncsHoldRealRows
<1>3. CASE \E n \in DOMAIN orders : SyncLoad(s, n)
  <2>. PICK n \in DOMAIN orders : SyncLoad(s, n)
    BY <1>3
  <2>. DEFINE x == [op |-> "query", order |-> n, seen |-> orders[n].status]
  <2>1. orders[n].status \in {"SUBMITTED", "PARTIALLY_FILLED"}
    <3>1. orders[n] \in Rows
      BY <1>1
    <3>. QED BY <3>1 DEF SyncLoad, SkipStatuses, FailedStatuses, Rows, RealStatuses
  <2>2. x \in SyncCalls /\ x.order = n
    BY <2>1 DEF SyncCalls
  <2>3. syncs' \in Nat /\ orders[n].status \in RealStatuses
    BY <1>1, <2>1 DEF SyncLoad, RealStatuses
  <2>4. sync' = [sync EXCEPT ![s] = x] /\ UNCHANGED <<orders, audit, today, broker, exec, process>>
    BY DEF SyncLoad
  <2>. HIDE DEF x
  <2>. QED BY <2>2, <2>3, <2>4, ReadingStep
<1>4. CASE SyncQuery(s)
  <2>1. PICK a \in Answers(i) :
          sync' = [sync EXCEPT ![s] = [op |-> "answered", order |-> @.order, seen |-> @.seen,
                                       class |-> a.class, total |-> a.total]]
    BY <1>4 DEF SyncQuery
  <2>. DEFINE x == [op |-> "answered", order |-> i, seen |-> sync[s].seen,
                    class |-> a.class, total |-> a.total]
  <2>2. sync[s].op # "idle"
    BY <1>4 DEF SyncQuery
  <2>3. x \in SyncCalls /\ x.order = i
    BY <1>2, <2>2, AnswersTyped DEF SyncCalls
  <2>4. sync' = [sync EXCEPT ![s] = x]
    BY <2>1
  <2>. HIDE DEF x
  <2>. QED BY <1>1, <1>2, <1>4, <2>2, <2>3, <2>4, ReadingStep DEF SyncQuery
<1>5. CASE SyncFailed(s)
  BY <1>5, EndSyncStep DEF SyncFailed, Events
<1>6. CASE SyncClosed(s)
  <2>1. sync[s].op # "idle" /\ sync[s].class \in {"REJECTED", "CANCELED"}
    BY <1>6 DEF SyncClosed
  <2>. DEFINE x == [orders[i] EXCEPT !.status = sync[s].class]
  <2>2. /\ x \in Rows /\ x.cand = orders[i].cand /\ x.ref = orders[i].ref
        /\ x.status \in RealStatuses
    BY <1>2, <2>1 DEF Rows, RealStatuses
  <2>3. orders' = [orders EXCEPT ![i] = x] /\ EndSync(s, "REAL_ORDER_FILL_SYNCED")
    BY <1>6 DEF SyncClosed
  <2>. HIDE DEF x
  <2>. QED BY <2>1, <2>2, <2>3, EndSyncStep DEF Events
<1>7. CASE SyncTotal(s)
  <2>. DEFINE x == [op |-> "totalled", order |-> i, seen |-> sync[s].seen,
                    class |-> sync[s].class, delta |-> sync[s].total - orders[i].filled]
  <2>1. sync[s].op = "answered" /\ sync[s].class \in {"FULL", "PARTIAL", "NONE"}
    BY <1>7 DEF SyncTotal
  <2>2. sync[s].total \in 0 .. Quantity /\ orders[i].filled \in Nat
    BY <1>1, <1>2, <2>1 DEF SyncCalls, NoCall, Rows
  <2>3. sync[s].total - orders[i].filled \in Int
    BY <2>2
  <2>4. x \in SyncCalls /\ x.order = i
    BY <1>2, <2>1, <2>3 DEF SyncCalls
  <2>5. sync' = [sync EXCEPT ![s] = x]
    BY <1>7 DEF SyncTotal
  <2>. HIDE DEF x
  <2>. QED BY <1>1, <1>2, <1>7, <2>1, <2>4, <2>5, ReadingStep DEF SyncTotal
<1>8. CASE SyncNegative(s)
  BY <1>8, EndSyncStep DEF SyncNegative, Events
<1>9. CASE SyncRecord(s)
  <2>1. /\ sync[s].op = "totalled" /\ sync[s].delta >= 0 /\ EndSync(s, "REAL_ORDER_FILL_SYNCED")
        /\ orders' = [orders EXCEPT ![i].filled = @ + sync[s].delta, ![i].status = SyncedStatus(s)]
    BY <1>9 DEF SyncRecord
  <2>. DEFINE x == [orders[i] EXCEPT !.filled = @ + sync[s].delta, !.status = SyncedStatus(s)]
  <2>2. SyncedStatus(s) \in RealStatuses
    BY <1>2, <2>1 DEF SyncedStatus, RealStatuses
  <2>3. orders[i].filled + sync[s].delta \in Nat
    <3>1. sync[s].delta \in Int
      BY <1>1, <2>1 DEF SyncCalls, NoCall
    <3>. QED BY <1>2, <2>1, <3>1 DEF Rows
  <2>4. /\ x \in Rows /\ x.cand = orders[i].cand /\ x.ref = orders[i].ref
        /\ x.status \in RealStatuses
    BY <1>2, <2>1, <2>2, <2>3 DEF Rows
  <2>5. orders' = [orders EXCEPT ![i] = x]
    BY <1>1, <1>2, <2>1
  <2>. HIDE DEF x
  <2>. QED BY <2>1, <2>4, <2>5, EndSyncStep DEF Events
<1>. QED BY <1>3, <1>4, <1>5, <1>6, <1>7, <1>8, <1>9 DEF Synchronisation

----
LEMMA BrokerStep ==
  ASSUME OrdersInv, NEW n \in DOMAIN broker, BrokerFills(n) \/ BrokerCloses(n)
  PROVE  OrdersInv'
<1>1. broker[n] \in BrokerOrders /\ broker \in Seq(BrokerOrders)
  BY DEF OrdersInv, TypeOK
<1>2. PICK x \in BrokerOrders : /\ x.cand = broker[n].cand /\ broker' = [broker EXCEPT ![n] = x]
  <2>1. CASE BrokerFills(n)
    <3>1. [broker[n] EXCEPT !.filled = @ + 1] \in BrokerOrders
      <4>1. broker[n].filled + 1 \in 0 .. Quantity
        BY <1>1, <2>1, RealOrderConstants DEF BrokerFills, BrokerOrders
      <4>. QED BY <1>1, <4>1 DEF BrokerOrders
    <3>. QED BY <1>1, <2>1, <3>1 DEF BrokerFills, BrokerOrders
  <2>2. CASE BrokerCloses(n)
    <3>1. PICK f \in {"canceled", "rejected"} : broker' = [broker EXCEPT ![n].flag = f]
      BY <2>2 DEF BrokerCloses
    <3>2. [broker[n] EXCEPT !.flag = f] \in BrokerOrders
      BY <1>1 DEF BrokerOrders
    <3>. QED BY <1>1, <3>1, <3>2 DEF BrokerOrders
  <2>. QED BY <2>1, <2>2
<1>3. /\ broker' \in Seq(BrokerOrders) /\ DOMAIN broker' = DOMAIN broker
      /\ \A b \in DOMAIN broker : broker'[b].cand = broker[b].cand
  BY <1>1, <1>2, OneChanged
<1>4. UNCHANGED <<orders, audit, today, exec, sync, syncs, process>>
  BY DEF BrokerFills, BrokerCloses
<1>5. TypeOK'
  BY <1>3, <1>4 DEF OrdersInv, TypeOK, SyncCalls
<1>6. BrokerBacksOrders' /\ NumbersAreNew' /\ SyncsHoldRealRows'
  BY <1>3, <1>4 DEF OrdersInv, BrokerBacksOrders, NumbersAreNew, NumberIsNew, SyncsHoldRealRows
<1>. QED BY <1>5, <1>6 DEF OrdersInv

LEMMA MidnightStep ==
  ASSUME OrdersInv, Midnight
  PROVE  OrdersInv'
<1>1. exec \in [Executors -> ExecCalls]
  BY DEF OrdersInv, TypeOK
<1>2. ASSUME NEW e \in Executors
      PROVE  /\ exec'[e] \in ExecCalls /\ exec'[e].op = exec[e].op
             /\ exec[e].op = "submitted" => exec'[e].ref = exec[e].ref /\ exec'[e].cand = exec[e].cand
  <2>1. exec'[e] = IF exec[e] = NoCall THEN NoCall ELSE [exec[e] EXCEPT !.today = FALSE]
    BY DEF Midnight
  <2>. QED BY <1>1, <2>1 DEF ExecCalls, NoCall
<1>3. exec' \in [Executors -> ExecCalls]
  BY <1>2 DEF Midnight
<1>4. today' = {} /\ UNCHANGED <<orders, audit, broker, sync, syncs, process>>
  BY DEF Midnight
<1>5. TypeOK'
  BY <1>3, <1>4 DEF OrdersInv, TypeOK, SyncCalls
<1>6. BrokerBacksOrders' /\ SyncsHoldRealRows'
  BY <1>4 DEF OrdersInv, BrokerBacksOrders, SyncsHoldRealRows
<1>7. NumbersAreNew'
  BY <1>2, <1>4 DEF OrdersInv, NumbersAreNew, NumberIsNew
<1>. QED BY <1>5, <1>6, <1>7 DEF OrdersInv

LEMMA RestartStep ==
  ASSUME OrdersInv, Restart
  PROVE  OrdersInv'
<1>1. NoCall \in ExecCalls /\ NoCall \in SyncCalls /\ NoCall.op = "idle"
  BY DEF ExecCalls, SyncCalls, NoCall
<1>2. restarts' \in 0 .. MaxRestarts
  BY RealOrderConstants DEF OrdersInv, TypeOK, Restart
<1>3. SyncCalls' = SyncCalls
  BY DEF Restart, SyncCalls
<1>4. TypeOK'
  BY <1>1, <1>2, <1>3 DEF OrdersInv, TypeOK, Restart, Startable
<1>5. BrokerBacksOrders'
  BY DEF OrdersInv, BrokerBacksOrders, Restart
<1>6. NumbersAreNew' /\ SyncsHoldRealRows'
  BY <1>1 DEF Restart, NumbersAreNew, SyncsHoldRealRows
<1>. QED BY <1>4, <1>5, <1>6 DEF OrdersInv

LEMMA OrdersInvStep == OrdersInv /\ [Next]_vars => OrdersInv'
<1>1. ASSUME OrdersInv, Next
      PROVE  OrdersInv'
  BY <1>1, ExecutionStep, SynchronisationStep, BrokerStep, MidnightStep, RestartStep DEF Next
<1>2. ASSUME OrdersInv, UNCHANGED vars
      PROVE  OrdersInv'
  BY <1>2 DEF vars, OrdersInv, TypeOK, SyncCalls, BrokerBacksOrders, NumbersAreNew, NumberIsNew,
              SyncsHoldRealRows
<1>. QED BY <1>1, <1>2

LEMMA OrdersInvHolds == Spec => []OrdersInv
BY OrdersInvInit, OrdersInvStep, PTL DEF Spec

(***************************************************************************)
(* Rows are well formed, none committed as CREATED, and every order        *)
(* recorded as submitted (RealOrderExecutor._execute_real) is backed by an *)
(* order at the broker of the same candidate that no other row has,        *)
(* whatever executions, syncs, lost answers, midnights and restarts there  *)
(* are.                                                                    *)
(***************************************************************************)
THEOREM RowsStayBacked == Spec => []RowsAreBacked
<1>1. OrdersInv => RowsAreBacked
  BY DEF OrdersInv, RowsAreBacked
<1>. QED BY <1>1, OrdersInvHolds, PTL

----
(***************************************************************************)
(* The audit trail: a row is counted once, when it is written.             *)
(***************************************************************************)
RealRowsOf(c) == {i \in DOMAIN orders : orders[i].cand = c /\ orders[i].status \in RealStatuses}
FailedRowsOf(c) == {i \in DOMAIN orders : orders[i].cand = c /\ orders[i].status = "FAILED"}

RowsCounted ==
  \A c \in Candidates : /\ audit[c]["REAL_ORDER_SUBMITTED"] = Cardinality(RealRowsOf(c))
                        /\ audit[c]["REAL_ORDER_FAILED"] = Cardinality(FailedRowsOf(c))

LEMMA AuditCountsRows == /\ AuditCountsAttempts <=> RowsCounted
                         /\ AuditCountsAttempts' <=> RowsCounted'
BY DEF AuditCountsAttempts, RowsCounted, RealRowsOf, FailedRowsOf

\* A step that keeps what kind of order every row is, and logs no attempt.
LEMMA KindsKept ==
  ASSUME AuditCountsAttempts, DOMAIN orders' = DOMAIN orders,
         \A i \in DOMAIN orders :
           /\ orders'[i].cand = orders[i].cand
           /\ orders'[i].status \in RealStatuses <=> orders[i].status \in RealStatuses
           /\ orders'[i].status = "FAILED" <=> orders[i].status = "FAILED",
         \A c \in Candidates : \A event \in {"REAL_ORDER_SUBMITTED", "REAL_ORDER_FAILED"} :
           audit'[c][event] = audit[c][event]
  PROVE  AuditCountsAttempts'
<1>1. ASSUME NEW c
      PROVE  RealRowsOf(c)' = RealRowsOf(c) /\ FailedRowsOf(c)' = FailedRowsOf(c)
  BY DEF RealRowsOf, FailedRowsOf
<1>. QED BY <1>1, AuditCountsRows DEF RowsCounted

LEMMA LogCounts ==
  ASSUME audit \in [Candidates -> [Events -> Nat]], NEW k \in Candidates, NEW event \in Events,
         Log(k, event), NEW c \in Candidates, NEW f \in Events
  PROVE  audit'[c][f] = IF c = k /\ f = event THEN audit[c][f] + 1 ELSE audit[c][f]
<1>1. audit[k] \in [Events -> Nat] /\ audit[c] \in [Events -> Nat]
  OBVIOUS
<1>2. audit' = [audit EXCEPT ![k] = [audit[k] EXCEPT ![event] = audit[k][event] + 1]]
  BY DEF Log
<1>3. CASE c = k
  BY <1>1, <1>2, <1>3
<1>4. CASE c # k
  BY <1>1, <1>2, <1>4
<1>. QED BY <1>3, <1>4

\* A row that is written belongs to its candidate and to one kind.
LEMMA RowCounted ==
  ASSUME OrdersInv, AuditCountsAttempts, NEW e \in Executors, NEW st, NEW ref, RecordRow(e, st, ref),
         exec[e].cand \in Approved, st \in {"DRY_RUN", "FAILED", "SUBMITTED"},
         st = "DRY_RUN" => UNCHANGED audit,
         st = "FAILED" => Log(exec[e].cand, "REAL_ORDER_FAILED"),
         st = "SUBMITTED" => Log(exec[e].cand, "REAL_ORDER_SUBMITTED")
  PROVE  AuditCountsAttempts'
<1>. DEFINE n == Len(orders) + 1
            row == [cand |-> exec[e].cand, status |-> st, ref |-> ref, filled |-> 0]
<1>1. orders \in Seq(Rows) /\ Len(orders) \in Nat /\ orders' = Append(orders, row)
      /\ audit \in [Candidates -> [Events -> Nat]] /\ Approved \subseteq Candidates
  BY RealOrderConstants DEF OrdersInv, TypeOK, RecordRow
<1>2. /\ DOMAIN orders = 1 .. Len(orders) /\ DOMAIN orders' = DOMAIN orders \cup {n}
      /\ n \notin DOMAIN orders
      /\ orders'[n].cand = exec[e].cand /\ orders'[n].status = st
      /\ \A i \in DOMAIN orders : orders'[i] = orders[i]
  BY <1>1
<1>. HIDE DEF n, row
<1>3. ASSUME NEW c \in Candidates
      PROVE  /\ IsFiniteSet(RealRowsOf(c)) /\ n \notin RealRowsOf(c)
             /\ IsFiniteSet(FailedRowsOf(c)) /\ n \notin FailedRowsOf(c)
             /\ RealRowsOf(c)' = IF c = exec[e].cand /\ st = "SUBMITTED"
                                 THEN RealRowsOf(c) \cup {n} ELSE RealRowsOf(c)
             /\ FailedRowsOf(c)' = IF c = exec[e].cand /\ st = "FAILED"
                                   THEN FailedRowsOf(c) \cup {n} ELSE FailedRowsOf(c)
  <2>1. IsFiniteSet(DOMAIN orders)
    BY <1>1, <1>2, FS_Interval
  <2>2. IsFiniteSet(RealRowsOf(c)) /\ IsFiniteSet(FailedRowsOf(c))
    BY <2>1, FS_Subset DEF RealRowsOf, FailedRowsOf
  <2>. QED BY <1>2, <2>2 DEF RealRowsOf, FailedRowsOf, RealStatuses
<1>4. ASSUME NEW c \in Candidates
      PROVE  /\ audit'[c]["REAL_ORDER_SUBMITTED"] =
                  IF c = exec[e].cand /\ st = "SUBMITTED" THEN audit[c]["REAL_ORDER_SUBMITTED"] + 1
                  ELSE audit[c]["REAL_ORDER_SUBMITTED"]
             /\ audit'[c]["REAL_ORDER_FAILED"] =
                  IF c = exec[e].cand /\ st = "FAILED" THEN audit[c]["REAL_ORDER_FAILED"] + 1
                  ELSE audit[c]["REAL_ORDER_FAILED"]
  <2>1. CASE st = "DRY_RUN"
    BY <2>1
  <2>2. CASE st = "FAILED"
    BY <1>1, <2>2, LogCounts DEF Events
  <2>3. CASE st = "SUBMITTED"
    BY <1>1, <2>3, LogCounts DEF Events
  <2>. QED BY <2>1, <2>2, <2>3
<1>5. ASSUME NEW c \in Candidates
      PROVE  /\ audit'[c]["REAL_ORDER_SUBMITTED"] = Cardinality(RealRowsOf(c)')
             /\ audit'[c]["REAL_ORDER_FAILED"] = Cardinality(FailedRowsOf(c)')
  <2>1. /\ audit[c]["REAL_ORDER_SUBMITTED"] = Cardinality(RealRowsOf(c))
        /\ audit[c]["REAL_ORDER_FAILED"] = Cardinality(FailedRowsOf(c))
    BY AuditCountsRows DEF RowsCounted
  <2>2. /\ Cardinality(RealRowsOf(c) \cup {n}) = Cardinality(RealRowsOf(c)) + 1
        /\ Cardinality(FailedRowsOf(c) \cup {n}) = Cardinality(FailedRowsOf(c)) + 1
    BY <1>3, FS_AddElement
  <2>. QED BY <1>3, <1>4, <2>1, <2>2
<1>. QED BY <1>5, AuditCountsRows DEF RowsCounted

LEMMA AuditStep ==
  ASSUME OrdersInv, OrdersInv', AuditCountsAttempts, [Next]_vars
  PROVE  AuditCountsAttempts'
<1>1. /\ audit \in [Candidates -> [Events -> Nat]] /\ orders \in Seq(Rows)
      /\ exec \in [Executors -> ExecCalls] /\ sync \in [Syncers -> SyncCalls]
  BY DEF OrdersInv, TypeOK
<1>2. CASE UNCHANGED <<orders, audit>>
  BY <1>2, KindsKept
<1>3. CASE \E e \in Executors : RecordDry(e) \/ RecordSubmitted(e) \/ RecordFailed(e)
  <2>. PICK e \in Executors : RecordDry(e) \/ RecordSubmitted(e) \/ RecordFailed(e)
    BY <1>3
  <2>1. exec[e].cand \in Approved
    BY <1>1 DEF RecordDry, RecordSubmitted, RecordFailed, ExecCalls, NoCall
  <2>. QED BY <2>1, RowCounted DEF RecordDry, RecordSubmitted, RecordFailed
<1>4. CASE \E s \in Syncers : SyncFailed(s) \/ SyncClosed(s) \/ SyncNegative(s) \/ SyncRecord(s)
  <2>. PICK s \in Syncers : SyncFailed(s) \/ SyncClosed(s) \/ SyncNegative(s) \/ SyncRecord(s)
    BY <1>4
  <2>. DEFINE i == sync[s].order
  <2>1. i \in DOMAIN orders /\ orders[i].status \in RealStatuses /\ orders[i] \in Rows
    <3>1. sync[s] \in SyncCalls /\ sync[s].op # "idle"
      BY <1>1 DEF SyncFailed, SyncClosed, SyncNegative, SyncRecord
    <3>2. i \in DOMAIN orders
      BY <3>1 DEF SyncCalls, NoCall
    <3>. QED BY <1>1, <3>1, <3>2 DEF OrdersInv, SyncsHoldRealRows
  <2>2. PICK event \in Events \ {"REAL_ORDER_SUBMITTED", "REAL_ORDER_FAILED"} :
          Log(orders[i].cand, event)
    BY DEF SyncFailed, SyncClosed, SyncNegative, SyncRecord, EndSync, Events
  <2>3. \A c \in Candidates : \A ev \in {"REAL_ORDER_SUBMITTED", "REAL_ORDER_FAILED"} :
          audit'[c][ev] = audit[c][ev]
    BY <1>1, <2>2 DEF Log, Events
  <2>. HIDE DEF i
  <2>4. CASE UNCHANGED orders
    BY <2>3, <2>4, KindsKept
  <2>5. CASE SyncClosed(s)
    <3>1. orders' = [orders EXCEPT ![i].status = sync[s].class]
          /\ sync[s].class \in RealStatuses
      BY <2>5 DEF SyncClosed, RealStatuses, i
    <3>2. /\ DOMAIN orders' = DOMAIN orders
          /\ orders'[i].cand = orders[i].cand /\ orders'[i].status \in RealStatuses
          /\ \A j \in DOMAIN orders : j # i => orders'[j] = orders[j]
      BY <1>1, <2>1, <3>1 DEF Rows
    <3>. QED BY <2>1, <2>3, <3>2, KindsKept DEF RealStatuses
  <2>6. CASE SyncRecord(s)
    <3>1. orders' = [orders EXCEPT ![i].filled = @ + sync[s].delta, ![i].status = SyncedStatus(s)]
      BY <2>6 DEF SyncRecord, i
    <3>2. SyncedStatus(s) \in RealStatuses
      BY <2>1 DEF SyncedStatus, RealStatuses, i
    <3>3. /\ DOMAIN orders' = DOMAIN orders
          /\ orders'[i].cand = orders[i].cand /\ orders'[i].status \in RealStatuses
          /\ \A j \in DOMAIN orders : j # i => orders'[j] = orders[j]
      BY <1>1, <2>1, <3>1, <3>2 DEF Rows
    <3>. QED BY <2>1, <2>3, <3>3, KindsKept DEF RealStatuses
  <2>. QED BY <2>4, <2>5, <2>6 DEF SyncFailed, SyncNegative
<1>. QED BY <1>2, <1>3, <1>4
     DEF Next, Execution, Synchronisation, Execute, PlaceDry, PlaceAccepted, PlaceRejected, PlaceLost,
         SyncLoad, SyncQuery, SyncTotal, BrokerFills, BrokerCloses, Midnight, Restart, vars

(***************************************************************************)
(* "Exactly one REAL_ORDER_SUBMITTED or REAL_ORDER_FAILED row" per real    *)
(* attempt that was committed (RealOrderExecutor._execute_real), whatever  *)
(* the syncs later make of its order.                                      *)
(***************************************************************************)
THEOREM AttemptsAreAudited == Spec => []AuditCountsAttempts
<1>1. Init => AuditCountsAttempts
  <2>. SUFFICES ASSUME Init PROVE AuditCountsAttempts
    OBVIOUS
  <2>1. \A c \in Candidates : RealRowsOf(c) = {} /\ FailedRowsOf(c) = {}
    BY DEF Init, RealRowsOf, FailedRowsOf
  <2>2. Cardinality({}) = 0
    BY FS_EmptySet
  <2>3. \A c \in Candidates : audit[c]["REAL_ORDER_SUBMITTED"] = 0 /\ audit[c]["REAL_ORDER_FAILED"] = 0
    BY DEF Init, Events
  <2>. QED BY <2>1, <2>2, <2>3, AuditCountsRows DEF RowsCounted
<1>2. OrdersInv /\ OrdersInv' /\ AuditCountsAttempts /\ [Next]_vars => AuditCountsAttempts'
  BY AuditStep
<1>. QED BY <1>1, <1>2, OrdersInvHolds, PTL DEF Spec

----
(***************************************************************************)
(* The orders at the broker: one that arrives belongs to a call, the call  *)
(* turns into a row, and only a restart loses calls.  A dry run brings one *)
(* only if a transport may be injected.                                    *)
(***************************************************************************)
InjectedByDesign == switches.transport = "injected" => deployment.injected

LEMMA InjectedByDesignHolds == Spec => []InjectedByDesign
<1>1. Init => InjectedByDesign
  BY DEF Init, Startable, InjectedByDesign
<1>2. InjectedByDesign /\ [Next]_vars => InjectedByDesign'
  <2>1. CASE UNCHANGED process
    BY <2>1 DEF InjectedByDesign
  <2>2. CASE Restart
    <3>1. switches' \in Startable /\ UNCHANGED deployment
      BY <2>2 DEF Restart
    <3>. QED BY <3>1 DEF Startable, InjectedByDesign
  <2>. QED BY <2>1, <2>2
       DEF Next, Execution, Synchronisation, Execute, PlaceDry, PlaceAccepted, PlaceRejected,
           PlaceLost, RecordDry, RecordSubmitted, RecordFailed, RecordRow, SyncLoad, SyncQuery,
           SyncFailed, SyncClosed, SyncTotal, SyncNegative, SyncRecord, EndSync, BrokerFills,
           BrokerCloses, Midnight, vars
<1>. QED BY <1>1, <1>2, PTL DEF Spec

BrokerOrdersOf(c) == {b \in DOMAIN broker : broker[b].cand = c}

Accounted(c) ==
  Cardinality(BrokerOrdersOf(c))
    <= Cardinality(RowsThatReach(c)) + Cardinality(CallsThatReach(c))
       + restarts * Cardinality(Executors)

LEMMA BooksAreAccounted ==
  /\ BrokerOrdersAreAccounted <=> \A c \in Approved : Accounted(c)
  /\ BrokerOrdersAreAccounted' <=> \A c \in Approved : Accounted(c)'
BY DEF BrokerOrdersAreAccounted, Accounted, BrokerOrdersOf

LEMMA BooksAreFinite ==
  ASSUME OrdersInv, NEW c
  PROVE  /\ IsFiniteSet(BrokerOrdersOf(c)) /\ Cardinality(BrokerOrdersOf(c)) \in Nat
         /\ IsFiniteSet(RowsThatReach(c)) /\ Cardinality(RowsThatReach(c)) \in Nat
         /\ IsFiniteSet(CallsThatReach(c)) /\ Cardinality(CallsThatReach(c)) \in Nat
         /\ Cardinality(CallsThatReach(c)) <= Cardinality(Executors)
         /\ Cardinality(Executors) \in Nat /\ restarts \in Nat
<1>1. orders \in Seq(Rows) /\ broker \in Seq(BrokerOrders) /\ restarts \in Nat
  BY RealOrderConstants DEF OrdersInv, TypeOK
<1>2. IsFiniteSet(DOMAIN orders) /\ IsFiniteSet(DOMAIN broker) /\ IsFiniteSet(Executors)
  <2>1. DOMAIN orders = 1 .. Len(orders) /\ DOMAIN broker = 1 .. Len(broker)
        /\ Len(orders) \in Nat /\ Len(broker) \in Nat
    BY <1>1
  <2>. QED BY <2>1, FS_Interval, RealOrderConstants
<1>3. /\ BrokerOrdersOf(c) \subseteq DOMAIN broker /\ RowsThatReach(c) \subseteq DOMAIN orders
      /\ CallsThatReach(c) \subseteq Executors
  BY DEF BrokerOrdersOf, RowsThatReach, CallsThatReach
<1>. QED BY <1>1, <1>2, <1>3, FS_Subset, FS_CardinalityType

\* Rows that stay, of kinds that stay, reach the broker as before.
LEMMA ReachKept ==
  ASSUME DOMAIN orders' = DOMAIN orders, UNCHANGED deployment, NEW c,
         \A i \in DOMAIN orders : /\ orders'[i].cand = orders[i].cand
                                  /\ orders'[i].status = "DRY_RUN" <=> orders[i].status = "DRY_RUN"
  PROVE  RowsThatReach(c)' = RowsThatReach(c)
BY DEF RowsThatReach, MayHaveReached

LEMMA CallsKept ==
  ASSUME UNCHANGED <<exec, deployment>>, NEW c
  PROVE  CallsThatReach(c)' = CallsThatReach(c)
BY DEF CallsThatReach, MayHaveReached

\* A call that goes on stays counted; it may come to be counted.
LEMMA CallAnswered ==
  ASSUME OrdersInv, \A c \in Approved : Accounted(c), NEW e \in Executors,
         exec[e].op \in {"dry", "place"}, exec[e].cand \in Approved,
         UNCHANGED <<orders, process>>,
         NEW x, exec' = [exec EXCEPT ![e] = x], x.cand = exec[e].cand,
         x.op \in {"recorddry", "submitted", "failed"},
         \/ UNCHANGED broker
         \/ /\ BrokerAccepts(exec[e].cand)
            /\ x.op = "recorddry" => deployment.injected,
         NEW c \in Approved
  PROVE  Accounted(c)'
<1>1. exec \in [Executors -> ExecCalls] /\ broker \in Seq(BrokerOrders) /\ Len(broker) \in Nat
  BY DEF OrdersInv, TypeOK
<1>2. RowsThatReach(c)' = RowsThatReach(c)
  BY ReachKept
<1>3. e \notin CallsThatReach(c)
  BY DEF CallsThatReach
<1>4. CallsThatReach(c)' \in {CallsThatReach(c), CallsThatReach(c) \cup {e}}
  BY <1>1, <1>3 DEF CallsThatReach, MayHaveReached
<1>5. Cardinality(CallsThatReach(c) \cup {e}) = Cardinality(CallsThatReach(c)) + 1
  BY <1>3, BooksAreFinite, FS_AddElement
<1>. DEFINE k == Cardinality(CallsThatReach(c)')
<1>6. k \in Nat /\ k >= Cardinality(CallsThatReach(c))
  <2>1. CASE CallsThatReach(c)' = CallsThatReach(c)
    BY <2>1, BooksAreFinite
  <2>2. CASE CallsThatReach(c)' = CallsThatReach(c) \cup {e}
    BY <1>5, <2>2, BooksAreFinite
  <2>. QED BY <1>4, <2>1, <2>2
<1>7. Accounted(c)' <=> Cardinality(BrokerOrdersOf(c)')
                          <= Cardinality(RowsThatReach(c)') + k + restarts * Cardinality(Executors)
  BY DEF Accounted
<1>. HIDE DEF k
<1>8. Accounted(c)
  OBVIOUS
<1>9. CASE UNCHANGED broker
  <2>1. BrokerOrdersOf(c)' = BrokerOrdersOf(c)
    BY <1>9 DEF BrokerOrdersOf
  <2>. QED BY <1>2, <1>6, <1>7, <1>8, <2>1, BooksAreFinite DEF Accounted
<1>10. CASE BrokerAccepts(exec[e].cand) /\ (x.op = "recorddry" => deployment.injected)
  <2>. DEFINE n == Len(broker) + 1
  <2>1. /\ DOMAIN broker' = DOMAIN broker \cup {n} /\ n \notin DOMAIN broker
        /\ broker'[n].cand = exec[e].cand /\ \A b \in DOMAIN broker : broker'[b] = broker[b]
    BY <1>1, <1>10 DEF BrokerAccepts
  <2>. HIDE DEF n
  <2>2. CASE c # exec[e].cand
    <3>1. BrokerOrdersOf(c)' = BrokerOrdersOf(c)
      BY <2>1, <2>2 DEF BrokerOrdersOf
    <3>. QED BY <1>2, <1>6, <1>7, <1>8, <3>1, BooksAreFinite DEF Accounted
  <2>3. CASE c = exec[e].cand
    <3>1. BrokerOrdersOf(c)' = BrokerOrdersOf(c) \cup {n} /\ n \notin BrokerOrdersOf(c)
      BY <2>1, <2>3 DEF BrokerOrdersOf
    <3>2. Cardinality(BrokerOrdersOf(c) \cup {n}) = Cardinality(BrokerOrdersOf(c)) + 1
      BY <3>1, BooksAreFinite, FS_AddElement
    <3>3. CallsThatReach(c)' = CallsThatReach(c) \cup {e}
      BY <1>1, <1>10, <2>3 DEF CallsThatReach, MayHaveReached
    <3>. QED BY <1>2, <1>5, <3>1, <3>2, <3>3, BooksAreFinite DEF Accounted
  <2>. QED BY <2>2, <2>3
<1>. QED BY <1>9, <1>10

\* What a call is counted for, its row is counted for.
LEMMA CallRecorded ==
  ASSUME OrdersInv, \A c \in Approved : Accounted(c), NEW e \in Executors, NEW st, NEW ref,
         RecordRow(e, st, ref),
         \/ exec[e].op = "recorddry" /\ st = "DRY_RUN"
         \/ exec[e].op \in {"submitted", "failed"} /\ st # "DRY_RUN",
         NEW c \in Approved
  PROVE  Accounted(c)'
<1>. DEFINE n == Len(orders) + 1
<1>1. exec \in [Executors -> ExecCalls] /\ orders \in Seq(Rows) /\ Len(orders) \in Nat
  BY DEF OrdersInv, TypeOK
<1>2. /\ DOMAIN orders' = DOMAIN orders \cup {n} /\ n \notin DOMAIN orders
      /\ orders'[n].cand = exec[e].cand /\ orders'[n].status = st
      /\ \A i \in DOMAIN orders : orders'[i] = orders[i]
  BY <1>1 DEF RecordRow
<1>3. exec' = [exec EXCEPT ![e] = NoCall] /\ UNCHANGED <<broker, process>>
  BY DEF RecordRow
<1>. HIDE DEF n
<1>4. BrokerOrdersOf(c)' = BrokerOrdersOf(c)
  BY <1>3 DEF BrokerOrdersOf
<1>5. CallsThatReach(c)' = CallsThatReach(c) \ {e}
  BY <1>1, <1>3 DEF CallsThatReach, MayHaveReached, NoCall
<1>6. e \in CallsThatReach(c) <=> exec[e].cand = c /\ MayHaveReached(st)
  BY DEF CallsThatReach, MayHaveReached
<1>7. CASE e \in CallsThatReach(c)
  <2>1. RowsThatReach(c)' = RowsThatReach(c) \cup {n} /\ n \notin RowsThatReach(c)
    BY <1>2, <1>3, <1>6, <1>7 DEF RowsThatReach, MayHaveReached
  <2>2. Cardinality(RowsThatReach(c) \cup {n}) = Cardinality(RowsThatReach(c)) + 1
    BY <2>1, BooksAreFinite, FS_AddElement
  <2>3. Cardinality(CallsThatReach(c) \ {e}) = Cardinality(CallsThatReach(c)) - 1
    BY <1>7, BooksAreFinite, FS_RemoveElement
  <2>. QED BY <1>3, <1>4, <1>5, <2>1, <2>2, <2>3, BooksAreFinite DEF Accounted
<1>8. CASE e \notin CallsThatReach(c)
  <2>1. CallsThatReach(c)' = CallsThatReach(c)
    BY <1>5, <1>8
  <2>2. RowsThatReach(c)' = RowsThatReach(c)
    BY <1>2, <1>3, <1>6, <1>8 DEF RowsThatReach, MayHaveReached
  <2>. QED BY <1>3, <1>4, <2>1, <2>2 DEF Accounted
<1>. QED BY <1>7, <1>8

LEMMA BooksStep ==
  ASSUME OrdersInv, InjectedByDesign, BrokerOrdersAreAccounted, [Next]_vars
  PROVE  BrokerOrdersAreAccounted'
<1>. SUFFICES ASSUME NEW c \in Approved PROVE Accounted(c)'
  BY BooksAreAccounted
<1>1. /\ exec \in [Executors -> ExecCalls] /\ orders \in Seq(Rows) /\ broker \in Seq(BrokerOrders)
      /\ sync \in [Syncers -> SyncCalls] /\ \A d \in Approved : Accounted(d)
  BY BooksAreAccounted DEF OrdersInv, TypeOK
<1>2. \A e \in Executors : exec[e].op # "idle" => exec[e].cand \in Approved
  BY <1>1 DEF ExecCalls, NoCall
<1>3. CASE UNCHANGED <<orders, broker, exec, process>>
  <2>1. BrokerOrdersOf(c)' = BrokerOrdersOf(c) /\ RowsThatReach(c)' = RowsThatReach(c)
        /\ CallsThatReach(c)' = CallsThatReach(c)
    BY <1>3, ReachKept, CallsKept DEF BrokerOrdersOf
  <2>. QED BY <1>1, <1>3, <2>1 DEF Accounted
<1>4. ASSUME NEW e \in Executors, NEW k \in Candidates, Execute(e, k)
      PROVE  Accounted(c)'
  <2>. DEFINE x == [op |-> IF switches.dry THEN "dry" ELSE "place", cand |-> k, today |-> TRUE]
  <2>1. exec[e].op = "idle" /\ UNCHANGED <<orders, broker, process>>
        /\ exec' = [exec EXCEPT ![e] = x] /\ x.op \in {"dry", "place"}
    BY <1>4 DEF Execute
  <2>. HIDE DEF x
  <2>2. CallsThatReach(c)' = CallsThatReach(c)
    BY <1>1, <2>1 DEF CallsThatReach, MayHaveReached
  <2>3. BrokerOrdersOf(c)' = BrokerOrdersOf(c) /\ RowsThatReach(c)' = RowsThatReach(c)
    BY <2>1, ReachKept DEF BrokerOrdersOf
  <2>. QED BY <1>1, <2>1, <2>2, <2>3 DEF Accounted
<1>5. ASSUME NEW e \in Executors, PlaceDry(e) \/ PlaceRejected(e) \/ PlaceLost(e)
      PROVE  Accounted(c)'
  <2>1. PICK o \in {"recorddry", "failed"} : exec' = [exec EXCEPT ![e].op = o]
                                            /\ (o = "recorddry" => PlaceDry(e))
    BY <1>5 DEF PlaceDry, PlaceRejected, PlaceLost
  <2>. DEFINE x == [exec[e] EXCEPT !.op = o]
  <2>2. /\ exec[e].op \in {"dry", "place"} /\ exec[e].cand \in Approved /\ UNCHANGED <<orders, process>>
        /\ \/ UNCHANGED broker
           \/ BrokerAccepts(exec[e].cand) /\ (o = "recorddry" => switches.transport = "injected")
    BY <1>2, <1>5, <2>1 DEF PlaceDry, PlaceRejected, PlaceLost
  <2>3. exec' = [exec EXCEPT ![e] = x] /\ x.op = o /\ x.cand = exec[e].cand
    <3>1. exec[e] \in [op : {"dry", "recorddry", "place", "failed"}, cand : Approved, today : BOOLEAN]
      BY <1>1, <2>2 DEF ExecCalls, NoCall
    <3>. QED BY <2>1, <3>1
  <2>. HIDE DEF x
  <2>. QED BY <1>1, <2>1, <2>2, <2>3, CallAnswered DEF InjectedByDesign
<1>6. ASSUME NEW e \in Executors, PlaceAccepted(e)
      PROVE  Accounted(c)'
  <2>. DEFINE x == [op |-> "submitted", cand |-> exec[e].cand, today |-> exec[e].today,
                    ref |-> Len(broker) + 1]
  <2>1. /\ exec[e].op = "place" /\ exec[e].cand \in Approved /\ UNCHANGED <<orders, process>>
        /\ BrokerAccepts(exec[e].cand) /\ exec' = [exec EXCEPT ![e] = x]
        /\ x.op = "submitted" /\ x.cand = exec[e].cand
    BY <1>2, <1>6 DEF PlaceAccepted
  <2>. HIDE DEF x
  <2>. QED BY <1>1, <2>1, CallAnswered
<1>7. ASSUME NEW e \in Executors, RecordDry(e) \/ RecordSubmitted(e) \/ RecordFailed(e)
      PROVE  Accounted(c)'
  BY <1>1, <1>7, CallRecorded DEF RecordDry, RecordSubmitted, RecordFailed
<1>8. ASSUME NEW s \in Syncers, Synchronisation(s), ~UNCHANGED orders
      PROVE  Accounted(c)'
  <2>. DEFINE i == sync[s].order
  <2>1. i \in DOMAIN orders /\ orders[i].status \in RealStatuses /\ orders[i] \in Rows
    <3>1. sync[s] \in SyncCalls /\ sync[s].op # "idle"
      BY <1>1, <1>8 DEF Synchronisation, SyncLoad, SyncQuery, SyncFailed, SyncClosed, SyncTotal,
                        SyncNegative, SyncRecord
    <3>2. i \in DOMAIN orders
      BY <3>1 DEF SyncCalls, NoCall
    <3>. QED BY <1>1, <3>1, <3>2 DEF OrdersInv, SyncsHoldRealRows
  <2>2. UNCHANGED <<broker, exec, process>>
    BY <1>8 DEF Synchronisation, SyncLoad, SyncQuery, SyncFailed, SyncClosed, SyncTotal,
                SyncNegative, SyncRecord, EndSync
  <2>3. PICK x : /\ orders' = [orders EXCEPT ![i] = x]
                 /\ x.cand = orders[i].cand /\ x.status \in RealStatuses
    <3>1. CASE SyncClosed(s)
      <4>. DEFINE x == [orders[i] EXCEPT !.status = sync[s].class]
      <4>1. orders' = [orders EXCEPT ![i] = x] /\ x.cand = orders[i].cand /\ x.status \in RealStatuses
        BY <1>1, <2>1, <3>1 DEF SyncClosed, RealStatuses, Rows
      <4>. QED BY <4>1
    <3>2. CASE SyncRecord(s)
      <4>. DEFINE x == [orders[i] EXCEPT !.filled = @ + sync[s].delta, !.status = SyncedStatus(s)]
      <4>1. SyncedStatus(s) \in RealStatuses
        BY <2>1 DEF SyncedStatus, RealStatuses
      <4>2. orders' = [orders EXCEPT ![i] = x] /\ x.cand = orders[i].cand /\ x.status \in RealStatuses
        BY <1>1, <2>1, <3>2, <4>1 DEF SyncRecord, Rows
      <4>. QED BY <4>2
    <3>. QED BY <1>8, <3>1, <3>2 DEF Synchronisation, SyncLoad, SyncQuery, SyncFailed, SyncTotal,
                                     SyncNegative
  <2>. HIDE DEF i
  <2>4. /\ DOMAIN orders' = DOMAIN orders /\ orders'[i] = x
        /\ \A j \in DOMAIN orders : j # i => orders'[j] = orders[j]
    BY <1>1, <2>1, <2>3
  <2>5. RowsThatReach(c)' = RowsThatReach(c)
    BY <2>1, <2>2, <2>3, <2>4, ReachKept DEF RealStatuses
  <2>6. BrokerOrdersOf(c)' = BrokerOrdersOf(c) /\ CallsThatReach(c)' = CallsThatReach(c)
    BY <2>2, CallsKept DEF BrokerOrdersOf
  <2>. QED BY <1>1, <2>2, <2>5, <2>6 DEF Accounted
<1>9. ASSUME NEW s \in Syncers, Synchronisation(s), UNCHANGED orders
      PROVE  Accounted(c)'
  <2>1. UNCHANGED <<broker, exec, process>>
    BY <1>9 DEF Synchronisation, SyncLoad, SyncQuery, SyncFailed, SyncClosed, SyncTotal,
                SyncNegative, SyncRecord, EndSync
  <2>. QED BY <1>3, <1>9, <2>1
<1>10. ASSUME NEW n \in DOMAIN broker, BrokerFills(n) \/ BrokerCloses(n)
       PROVE  Accounted(c)'
  <2>1. UNCHANGED <<orders, exec, process>> /\ broker[n] \in BrokerOrders
    BY <1>1, <1>10 DEF BrokerFills, BrokerCloses
  <2>2. PICK x : broker' = [broker EXCEPT ![n] = x] /\ x.cand = broker[n].cand
    <3>1. CASE BrokerFills(n)
      <4>. DEFINE x == [broker[n] EXCEPT !.filled = @ + 1]
      <4>1. broker' = [broker EXCEPT ![n] = x] /\ x.cand = broker[n].cand
        BY <1>1, <2>1, <3>1 DEF BrokerFills, BrokerOrders
      <4>. QED BY <4>1
    <3>2. CASE BrokerCloses(n)
      BY <1>1, <2>1, <3>2 DEF BrokerCloses, BrokerOrders
    <3>. QED BY <1>10, <3>1, <3>2
  <2>3. BrokerOrdersOf(c)' = BrokerOrdersOf(c)
    BY <1>1, <2>2 DEF BrokerOrdersOf
  <2>4. RowsThatReach(c)' = RowsThatReach(c) /\ CallsThatReach(c)' = CallsThatReach(c)
    BY <2>1, ReachKept, CallsKept
  <2>. QED BY <1>1, <2>1, <2>3, <2>4 DEF Accounted
<1>11. ASSUME Midnight
       PROVE  Accounted(c)'
  <2>1. UNCHANGED <<orders, broker, process>>
    BY <1>11 DEF Midnight
  <2>2. ASSUME NEW e \in Executors
        PROVE  /\ exec'[e].op = exec[e].op
               /\ exec[e].op # "idle" => exec'[e].cand = exec[e].cand
    <3>1. exec'[e] = IF exec[e] = NoCall THEN NoCall ELSE [exec[e] EXCEPT !.today = FALSE]
      BY <1>11 DEF Midnight
    <3>. QED BY <1>1, <3>1 DEF ExecCalls, NoCall
  <2>3. CallsThatReach(c)' = CallsThatReach(c)
    BY <2>1, <2>2 DEF CallsThatReach, MayHaveReached
  <2>4. BrokerOrdersOf(c)' = BrokerOrdersOf(c) /\ RowsThatReach(c)' = RowsThatReach(c)
    BY <2>1, ReachKept DEF BrokerOrdersOf
  <2>. QED BY <1>1, <2>1, <2>3, <2>4 DEF Accounted
<1>12. ASSUME Restart
       PROVE  Accounted(c)'
  <2>1. UNCHANGED <<orders, broker, deployment>> /\ restarts' = restarts + 1
        /\ exec' = [e \in Executors |-> NoCall]
    BY <1>12 DEF Restart
  <2>2. CallsThatReach(c)' = {}
    BY <2>1 DEF CallsThatReach, NoCall
  <2>3. BrokerOrdersOf(c)' = BrokerOrdersOf(c) /\ RowsThatReach(c)' = RowsThatReach(c)
    BY <2>1, ReachKept DEF BrokerOrdersOf
  <2>4. (restarts + 1) * Cardinality(Executors) = restarts * Cardinality(Executors) + Cardinality(Executors)
        /\ restarts * Cardinality(Executors) \in Nat
    BY BooksAreFinite
  <2>5. Cardinality({}) = 0
    BY FS_EmptySet
  <2>. DEFINE r == restarts * Cardinality(Executors)
  <2>6. /\ Accounted(c) <=> Cardinality(BrokerOrdersOf(c))
                             <= Cardinality(RowsThatReach(c)) + Cardinality(CallsThatReach(c)) + r
        /\ Accounted(c)' <=> Cardinality(BrokerOrdersOf(c))
                             <= Cardinality(RowsThatReach(c)) + 0 + (r + Cardinality(Executors))
    BY <2>1, <2>2, <2>3, <2>4, <2>5 DEF Accounted
  <2>7. r \in Nat /\ Accounted(c)
    BY <1>1, <2>4
  <2>. HIDE DEF r
  <2>. QED BY <2>6, <2>7, BooksAreFinite
<1>13. CASE Next
  BY <1>4, <1>5, <1>6, <1>7, <1>8, <1>9, <1>10, <1>11, <1>12, <1>13 DEF Next, Execution
<1>. QED BY <1>3, <1>13 DEF vars

(***************************************************************************)
(* Every attempt is on the books: its one audit row if it was committed    *)
(* (RealOrderExecutor._execute_real), and an order at the broker belongs   *)
(* to a row or to a call that a restart cut off; a dry run (_execute_dry)  *)
(* brings none unless a transport was injected.                            *)
(***************************************************************************)
THEOREM AttemptsStayOnTheBooks == Spec => []AttemptsAreOnTheBooks
<1>1. Init => BrokerOrdersAreAccounted
  <2>. SUFFICES ASSUME Init, NEW c \in Approved PROVE Accounted(c)
    BY BooksAreAccounted
  <2>1. BrokerOrdersOf(c) = {}
    BY DEF Init, BrokerOrdersOf
  <2>2. RowsThatReach(c) = {} /\ CallsThatReach(c) = {} /\ restarts = 0
    BY DEF Init, RowsThatReach, CallsThatReach, NoCall
  <2>3. Cardinality({}) = 0 /\ Cardinality(Executors) \in Nat
    BY FS_EmptySet, FS_CardinalityType, RealOrderConstants
  <2>. QED BY <2>1, <2>2, <2>3 DEF Accounted
<1>2. OrdersInv /\ InjectedByDesign /\ BrokerOrdersAreAccounted /\ [Next]_vars
        => BrokerOrdersAreAccounted'
  BY BooksStep
<1>3. AuditCountsAttempts /\ BrokerOrdersAreAccounted => AttemptsAreOnTheBooks
  BY DEF AttemptsAreOnTheBooks
<1>. QED BY <1>1, <1>2, <1>3, OrdersInvHolds, InjectedByDesignHolds, AttemptsAreAudited, PTL DEF Spec

----
(***************************************************************************)
(* One caller at a time.  What execute found in the gates still stands     *)
(* when the row is written: nobody else writes one, and a sync only takes  *)
(* live orders away.                                                       *)
(***************************************************************************)
OneExecution == \A d, e \in Executors : exec[d].op # "idle" /\ exec[e].op # "idle" => d = e

GateStands ==
  \A e \in Executors : exec[e].op # "idle" =>
    /\ ~HasLiveOrder(exec[e].cand)
    /\ TodayTotal + Amount[exec[e].cand] <= MaxRealDailyOrderAmount

CallersInv == OneExecution /\ GateStands /\ OneLiveOrder /\ DailyCapHeld

\* TodayTotal is a sum over the rows that count.
AmountOfRow == [i \in DOMAIN orders |-> Amount[orders[i].cand]]
CountToday == {i \in today : orders[i].status \notin FailedStatuses}

LEMMA TodayIsASum == /\ TodayTotal = SumFunctionOnSet(AmountOfRow, CountToday)
                     /\ TodayTotal' = SumFunctionOnSet(AmountOfRow', CountToday')
BY DEF TodayTotal, AmountOfRow, CountToday

LEMMA TodayTyped ==
  ASSUME OrdersInv
  PROVE  /\ IsFiniteSet(CountToday) /\ CountToday \subseteq DOMAIN orders
         /\ \A i \in DOMAIN orders : AmountOfRow[i] \in Nat
         /\ TodayTotal \in Nat
<1>1. orders \in Seq(Rows) /\ Len(orders) \in Nat /\ DOMAIN orders = 1 .. Len(orders)
  BY DEF OrdersInv, TypeOK
<1>2. CountToday \subseteq DOMAIN orders
  BY DEF OrdersInv, TypeOK, CountToday
<1>3. IsFiniteSet(CountToday)
  <2>1. IsFiniteSet(DOMAIN orders)
    BY <1>1, FS_Interval
  <2>. QED BY <1>2, <2>1, FS_Subset
<1>4. ASSUME NEW i \in DOMAIN orders
      PROVE  AmountOfRow[i] \in Nat
  <2>1. orders[i] \in Rows
    BY <1>1
  <2>2. orders[i].cand \in Approved
    BY <2>1 DEF Rows
  <2>. QED BY <2>2, RealOrderConstants DEF AmountOfRow
<1>5. SumFunctionOnSet(AmountOfRow, CountToday) \in Nat
  BY <1>2, <1>3, <1>4, SumNat
<1>. QED BY <1>2, <1>3, <1>4, <1>5, TodayIsASum

\* Orders that fail free their amount, and what execute found stays true.
LEMMA RowsSettle ==
  ASSUME OrdersInv, CallersInv, UNCHANGED <<exec, today>>, DOMAIN orders' = DOMAIN orders,
         \A i \in DOMAIN orders :
           /\ orders'[i].cand = orders[i].cand
           /\ orders[i].status \in FailedStatuses => orders'[i].status \in FailedStatuses
  PROVE  CallersInv'
<1>1. AmountOfRow' = AmountOfRow /\ CountToday' \subseteq CountToday
  BY DEF AmountOfRow, CountToday, OrdersInv, TypeOK
<1>2. SumFunctionOnSet(AmountOfRow, CountToday') <= SumFunctionOnSet(AmountOfRow, CountToday)
  BY <1>1, TodayTyped, SumSubset
<1>3. SumFunctionOnSet(AmountOfRow, CountToday') \in Nat
  BY <1>1, TodayTyped, FS_Subset, SumNat
<1>4. TodayTotal' \in Nat /\ TodayTotal' <= TodayTotal
  BY <1>1, <1>2, <1>3, TodayIsASum
<1>5. \A c : HasLiveOrder(c)' => HasLiveOrder(c)
  BY DEF HasLiveOrder
<1>6. OneExecution' /\ OneLiveOrder'
  BY DEF CallersInv, OneExecution, OneLiveOrder
<1>7. DailyCapHeld'
  BY <1>4, TodayTyped, RealOrderConstants DEF CallersInv, DailyCapHeld
<1>8. ASSUME NEW e \in Executors, exec'[e].op # "idle"
      PROVE  /\ ~HasLiveOrder(exec[e].cand)'
             /\ TodayTotal' + Amount[exec[e].cand] <= MaxRealDailyOrderAmount
  <2>1. exec[e].op # "idle" /\ ~HasLiveOrder(exec[e].cand)
        /\ TodayTotal + Amount[exec[e].cand] <= MaxRealDailyOrderAmount
    BY <1>8 DEF CallersInv, GateStands
  <2>2. exec[e].cand \in Approved
    <3>1. exec[e] \in ExecCalls
      BY DEF OrdersInv, TypeOK
    <3>. QED BY <2>1, <3>1 DEF ExecCalls, NoCall
  <2>. QED BY <1>4, <1>5, <2>1, <2>2, TodayTyped, RealOrderConstants
<1>9. GateStands'
  BY <1>8 DEF GateStands
<1>. QED BY <1>6, <1>7, <1>9 DEF CallersInv

\* A call that begins passed the gates; one that goes on is for the same candidate.
LEMMA CallGoesOn ==
  ASSUME OrdersInv, CallersInv, UNCHANGED <<orders, today>>, NEW e \in Executors, NEW x,
         exec' = [exec EXCEPT ![e] = x],
         \/ exec[e].op # "idle" /\ x.cand = exec[e].cand
         \/ /\ \A d \in Executors : exec[d].op = "idle"
            /\ ~HasLiveOrder(x.cand) /\ WithinCaps(x.cand)
  PROVE  CallersInv'
<1>1. exec \in [Executors -> ExecCalls]
  BY DEF OrdersInv, TypeOK
<1>2. TodayTotal' = TodayTotal /\ \A c : HasLiveOrder(c)' <=> HasLiveOrder(c)
  BY DEF TodayTotal, HasLiveOrder
<1>3. OneLiveOrder' /\ DailyCapHeld'
  BY <1>2 DEF CallersInv, OneLiveOrder, DailyCapHeld
<1>4. OneExecution'
  BY <1>1 DEF CallersInv, OneExecution
<1>5. ~HasLiveOrder(x.cand) /\ TodayTotal + Amount[x.cand] <= MaxRealDailyOrderAmount
  BY DEF CallersInv, GateStands, WithinCaps
<1>6. ASSUME NEW d \in Executors, exec'[d].op # "idle"
      PROVE  /\ ~HasLiveOrder(exec'[d].cand)
             /\ TodayTotal + Amount[exec'[d].cand] <= MaxRealDailyOrderAmount
  <2>1. CASE d = e
    BY <1>1, <1>5, <2>1
  <2>2. CASE d # e
    BY <1>1, <1>6, <2>2 DEF CallersInv, GateStands
  <2>. QED BY <2>1, <2>2
<1>7. GateStands'
  BY <1>2, <1>6 DEF GateStands
<1>. QED BY <1>3, <1>4, <1>7 DEF CallersInv

LEMMA CallWritten ==
  ASSUME OrdersInv, CallersInv, NEW e \in Executors, exec[e].op # "idle",
         NEW st, NEW ref, RecordRow(e, st, ref)
  PROVE  CallersInv'
<1>. DEFINE n == Len(orders) + 1
            c == exec[e].cand
<1>1. exec \in [Executors -> ExecCalls] /\ orders \in Seq(Rows) /\ Len(orders) \in Nat
      /\ today \subseteq DOMAIN orders
  BY DEF OrdersInv, TypeOK
<1>2. /\ DOMAIN orders' = DOMAIN orders \cup {n} /\ n \notin DOMAIN orders
      /\ orders'[n].cand = c /\ orders'[n].status = st
      /\ \A i \in DOMAIN orders : orders'[i] = orders[i]
  BY <1>1 DEF RecordRow
<1>3. exec' = [exec EXCEPT ![e] = NoCall] /\ today' \in {today, today \cup {n}}
  BY DEF RecordRow
<1>4. /\ ~HasLiveOrder(c) /\ TodayTotal + Amount[c] <= MaxRealDailyOrderAmount
      /\ c \in Approved /\ Amount[c] \in Nat
  <2>1. c \in Approved
    BY <1>1 DEF ExecCalls, NoCall
  <2>. QED BY <2>1, RealOrderConstants DEF CallersInv, GateStands
<1>. HIDE DEF n, c
<1>5. \A d \in Executors : exec'[d].op = "idle"
  BY <1>1, <1>3 DEF CallersInv, OneExecution, NoCall
<1>6. OneExecution' /\ GateStands'
  BY <1>5 DEF OneExecution, GateStands
<1>7. OneLiveOrder'
  BY <1>2, <1>4 DEF CallersInv, OneLiveOrder, HasLiveOrder
<1>8. CountToday' \in {CountToday, CountToday \cup {n}} /\ n \notin CountToday
  BY <1>1, <1>2, <1>3 DEF CountToday
<1>9. /\ AmountOfRow'[n] = Amount[c] /\ \A i \in CountToday : AmountOfRow'[i] = AmountOfRow[i]
  BY <1>2, TodayTyped DEF AmountOfRow
<1>10. SumFunctionOnSet(AmountOfRow', CountToday) = TodayTotal
  <2>1. SumFunctionOnSet(AmountOfRow, CountToday) = SumFunctionOnSet(AmountOfRow', CountToday)
    BY <1>9, TodayTyped, SumSame
  <2>. QED BY <2>1, TodayIsASum
<1>11. SumFunctionOnSet(AmountOfRow', CountToday \cup {n}) = TodayTotal + Amount[c]
  <2>. DEFINE f == AmountOfRow'
  <2>1. IsFiniteSet(CountToday) /\ (\A i \in CountToday : f[i] \in Int) /\ f[n] \in Int
    BY <1>4, <1>9, TodayTyped
  <2>. HIDE DEF f
  <2>2. SumFunctionOnSet(f, CountToday \cup {n}) = SumFunctionOnSet(f, CountToday) + f[n]
    BY <1>8, <2>1, SumAdd
  <2>. QED BY <1>9, <1>10, <2>2 DEF f
<1>12. TodayTotal' \in {TodayTotal, TodayTotal + Amount[c]}
  BY <1>8, <1>10, <1>11, TodayIsASum
<1>13. DailyCapHeld'
  BY <1>4, <1>12, TodayTyped, RealOrderConstants DEF DailyCapHeld
<1>. QED BY <1>6, <1>7, <1>13 DEF CallersInv

LEMMA CallersAtMidnight ==
  ASSUME OrdersInv, CallersInv, Midnight
  PROVE  CallersInv'
<1>1. exec \in [Executors -> ExecCalls] /\ UNCHANGED orders /\ today' = {}
  BY DEF OrdersInv, TypeOK, Midnight
<1>2. ASSUME NEW e \in Executors
      PROVE  /\ exec'[e].op = exec[e].op
             /\ exec[e].op # "idle" => exec'[e].cand = exec[e].cand /\ exec[e].cand \in Approved
  <2>1. exec'[e] = IF exec[e] = NoCall THEN NoCall ELSE [exec[e] EXCEPT !.today = FALSE]
    BY DEF Midnight
  <2>. QED BY <1>1, <2>1 DEF ExecCalls, NoCall
<1>3. TodayTotal' = 0
  <2>1. CountToday' = {}
    BY <1>1 DEF CountToday
  <2>2. SumFunctionOnSet(AmountOfRow', {}) = 0
    BY SumEmpty
  <2>. QED BY <2>1, <2>2, TodayIsASum
<1>4. OneExecution' /\ OneLiveOrder' /\ DailyCapHeld'
  BY <1>1, <1>2, <1>3, RealOrderConstants
     DEF CallersInv, OneExecution, OneLiveOrder, DailyCapHeld
<1>5. \A c : HasLiveOrder(c)' <=> HasLiveOrder(c)
  BY <1>1 DEF HasLiveOrder
<1>6. ASSUME NEW e \in Executors, exec'[e].op # "idle"
      PROVE  /\ ~HasLiveOrder(exec'[e].cand)
             /\ 0 + Amount[exec'[e].cand] <= MaxRealDailyOrderAmount
  <2>1. TodayTotal + Amount[exec[e].cand] <= MaxRealDailyOrderAmount /\ ~HasLiveOrder(exec[e].cand)
    BY <1>2, <1>6 DEF CallersInv, GateStands
  <2>2. Amount[exec[e].cand] \in Nat
    BY <1>2, <1>6, RealOrderConstants
  <2>. QED BY <1>2, <1>6, <2>1, <2>2, TodayTyped, RealOrderConstants
<1>7. GateStands'
  BY <1>3, <1>5, <1>6 DEF GateStands
<1>. QED BY <1>4, <1>7 DEF CallersInv

LEMMA CallersAfterRestart ==
  ASSUME CallersInv, Restart
  PROVE  CallersInv'
<1>1. UNCHANGED <<orders, today>> /\ \A e \in Executors : exec'[e].op = "idle"
  BY DEF Restart, NoCall
<1>2. OneLiveOrder' /\ DailyCapHeld'
  BY <1>1 DEF CallersInv, OneLiveOrder, DailyCapHeld, TodayTotal
<1>3. OneExecution' /\ GateStands'
  BY <1>1 DEF OneExecution, GateStands
<1>. QED BY <1>2, <1>3 DEF CallersInv

----
(***************************************************************************)
(* One sync at a time: its row keeps the status it was read with, so what  *)
(* was answered and added up still says how much is filled when it is      *)
(* written; the broker only fills more meanwhile.                          *)
(***************************************************************************)
OneSync == \A s, t \in Syncers : sync[s].op # "idle" /\ sync[t].op # "idle" => s = t

\* What a status says of the quantity filled, and what an answer does.
StatusTells(st, q) == /\ st = "FILLED" => q = Quantity
                      /\ st = "SUBMITTED" => q = 0
                      /\ st = "PARTIALLY_FILLED" => q \in 1 .. Quantity - 1
AnswerTells(class, q) == /\ class = "FULL" => q = Quantity
                         /\ class = "PARTIAL" => q \in 1 .. Quantity - 1
                         /\ class = "NONE" => q = 0

StatusTellsFills ==
  \A i \in DOMAIN orders : orders[i].status \in RealStatuses =>
    StatusTells(orders[i].status, orders[i].filled)

FillsWithin ==
  ~FakeSync => \A i \in DOMAIN orders :
    orders[i].status \in RealStatuses => orders[i].filled <= broker[orders[i].ref].filled

Stands(x) ==
  /\ orders[x.order].status = x.seen
  /\ x.op = "answered" =>
       /\ AnswerTells(x.class, x.total)
       /\ ~FakeSync => x.total <= broker[orders[x.order].ref].filled
  /\ x.op = "totalled" =>
       /\ AnswerTells(x.class, orders[x.order].filled + x.delta)
       /\ ~FakeSync => orders[x.order].filled + x.delta <= broker[orders[x.order].ref].filled

SyncsStand == \A s \in Syncers : sync[s].op # "idle" => Stands(sync[s])

SyncersInv == OneSync /\ StatusTellsFills /\ FillsWithin /\ SyncsStand

\* The row a sync holds, and the order behind it.
LEMMA HeldRow ==
  ASSUME OrdersInv, NEW s \in Syncers, sync[s].op # "idle"
  PROVE  /\ sync[s].order \in DOMAIN orders /\ orders[sync[s].order] \in Rows
         /\ orders[sync[s].order].status \in RealStatuses
         /\ orders[sync[s].order].ref \in DOMAIN broker
         /\ broker[orders[sync[s].order].ref] \in BrokerOrders
         /\ sync[s].op = "answered" => sync[s].total \in 0 .. Quantity
         /\ sync[s].op = "totalled" => sync[s].delta \in Int
<1>1. sync[s] \in SyncCalls /\ orders \in Seq(Rows) /\ broker \in Seq(BrokerOrders)
  BY DEF OrdersInv, TypeOK
<1>2. /\ sync[s].order \in DOMAIN orders
      /\ sync[s].op = "answered" => sync[s].total \in 0 .. Quantity
      /\ sync[s].op = "totalled" => sync[s].delta \in Int
  BY <1>1 DEF SyncCalls, NoCall
<1>3. orders[sync[s].order].status \in RealStatuses
  BY DEF OrdersInv, SyncsHoldRealRows
<1>4. orders[sync[s].order].ref \in DOMAIN broker
  BY <1>2, <1>3 DEF OrdersInv, BrokerBacksOrders
<1>. QED BY <1>1, <1>2, <1>3, <1>4

\* New rows and more fills at the broker leave what the syncs know true.
LEMMA BooksGrow ==
  ASSUME OrdersInv, OrdersInv', SyncersInv, UNCHANGED sync,
         DOMAIN orders \subseteq DOMAIN orders', \A i \in DOMAIN orders : orders'[i] = orders[i],
         \A i \in DOMAIN orders' \ DOMAIN orders :
           orders'[i].status \in RealStatuses =>
             orders'[i].status = "SUBMITTED" /\ orders'[i].filled = 0,
         DOMAIN broker \subseteq DOMAIN broker',
         \A b \in DOMAIN broker : broker'[b].filled >= broker[b].filled
  PROVE  SyncersInv'
<1>1. /\ orders \in Seq(Rows) /\ broker \in Seq(BrokerOrders) /\ broker' \in Seq(BrokerOrders)
      /\ Quantity \in Nat
  BY RealOrderConstants DEF OrdersInv, TypeOK
<1>2. \A b \in DOMAIN broker' : broker'[b].filled \in Nat
  <2>1. \A b \in DOMAIN broker' : broker'[b] \in BrokerOrders
    BY <1>1
  <2>. QED BY <1>1, <2>1 DEF BrokerOrders
<1>3. \A b \in DOMAIN broker : broker[b].filled \in Nat
  <2>1. \A b \in DOMAIN broker : broker[b] \in BrokerOrders
    BY <1>1
  <2>. QED BY <1>1, <2>1 DEF BrokerOrders
<1>4. OneSync'
  BY DEF SyncersInv, OneSync
<1>5. StatusTellsFills'
  BY DEF SyncersInv, StatusTellsFills, StatusTells
<1>6. ASSUME ~FakeSync, NEW i \in DOMAIN orders', orders'[i].status \in RealStatuses
      PROVE  orders'[i].filled <= broker'[orders'[i].ref].filled
  <2>1. orders'[i].ref \in DOMAIN broker'
    BY <1>6 DEF OrdersInv, BrokerBacksOrders
  <2>2. CASE i \in DOMAIN orders
    <3>1. orders[i].ref \in DOMAIN broker /\ orders[i].filled <= broker[orders[i].ref].filled
      BY <1>6, <2>2 DEF OrdersInv, BrokerBacksOrders, SyncersInv, FillsWithin
    <3>2. orders[i] \in Rows
      BY <1>1, <2>2
    <3>. QED BY <1>2, <1>3, <2>1, <2>2, <3>1, <3>2 DEF Rows
  <2>3. CASE i \notin DOMAIN orders
    BY <1>2, <1>6, <2>1, <2>3
  <2>. QED BY <2>2, <2>3
<1>7. FillsWithin'
  BY <1>6 DEF FillsWithin
<1>8. ASSUME NEW s \in Syncers, sync[s].op # "idle"
      PROVE  Stands(sync[s])'
  <2>1. Stands(sync[s])
    BY <1>8 DEF SyncersInv, SyncsStand
  <2>. DEFINE i == sync[s].order
  <2>2. /\ i \in DOMAIN orders /\ orders'[i] = orders[i]
        /\ orders[i].ref \in DOMAIN broker /\ orders[i].filled \in Nat
        /\ sync[s].op = "answered" => sync[s].total \in 0 .. Quantity
        /\ sync[s].op = "totalled" => sync[s].delta \in Int
    BY <1>8, HeldRow DEF Rows
  <2>3. broker'[orders[i].ref].filled \in Nat /\ broker[orders[i].ref].filled \in Nat
        /\ broker'[orders[i].ref].filled >= broker[orders[i].ref].filled
    BY <1>2, <1>3, <2>2
  <2>. QED BY <2>1, <2>2, <2>3 DEF Stands
<1>9. SyncsStand'
  BY <1>8 DEF SyncsStand
<1>. QED BY <1>4, <1>5, <1>7, <1>9 DEF SyncersInv

LEMMA SyncReads ==
  ASSUME OrdersInv, SyncersInv, UNCHANGED <<orders, broker>>, NEW s \in Syncers, NEW x,
         sync' = [sync EXCEPT ![s] = x],
         \/ x.op = "idle"
         \/ /\ Stands(x)
            /\ sync[s].op # "idle" \/ \A t \in Syncers : sync[t].op = "idle"
  PROVE  SyncersInv'
<1>1. sync \in [Syncers -> SyncCalls]
  BY DEF OrdersInv, TypeOK
<1>2. OneSync'
  BY <1>1 DEF SyncersInv, OneSync
<1>3. StatusTellsFills' /\ FillsWithin'
  BY DEF SyncersInv, StatusTellsFills, FillsWithin
<1>4. ASSUME NEW t \in Syncers, sync'[t].op # "idle"
      PROVE  Stands(sync'[t])
  <2>1. CASE t = s
    BY <1>1, <1>4, <2>1
  <2>2. CASE t # s
    BY <1>1, <1>4, <2>2 DEF SyncersInv, SyncsStand
  <2>. QED BY <2>1, <2>2
<1>5. SyncsStand'
  BY <1>4 DEF SyncsStand, Stands
<1>. QED BY <1>2, <1>3, <1>5 DEF SyncersInv

LEMMA SyncWrites ==
  ASSUME OrdersInv, SyncersInv, UNCHANGED broker, NEW s \in Syncers, sync[s].op # "idle",
         sync' = [sync EXCEPT ![s] = NoCall], NEW x,
         orders' = [orders EXCEPT ![sync[s].order] = x],
         StatusTells(x.status, x.filled), ~FakeSync => x.filled <= broker[x.ref].filled
  PROVE  SyncersInv'
<1>1. sync \in [Syncers -> SyncCalls] /\ orders \in Seq(Rows)
  BY DEF OrdersInv, TypeOK
<1>2. \A t \in Syncers : sync'[t].op = "idle"
  BY <1>1 DEF SyncersInv, OneSync, NoCall
<1>3. OneSync' /\ SyncsStand'
  BY <1>2 DEF OneSync, SyncsStand
<1>4. DOMAIN orders' = DOMAIN orders /\ \A i \in DOMAIN orders : orders'[i] \in {x, orders[i]}
  BY <1>1
<1>5. StatusTellsFills'
  BY <1>4 DEF SyncersInv, StatusTellsFills
<1>6. FillsWithin'
  BY <1>4 DEF SyncersInv, FillsWithin
<1>. QED BY <1>3, <1>5, <1>6 DEF SyncersInv

\* What the broker answers is what it has filled.
LEMMA AnswersTell ==
  ASSUME OrdersInv, NEW s \in Syncers, sync[s].op # "idle", NEW a \in Answers(sync[s].order)
  PROVE  /\ AnswerTells(a.class, a.total)
         /\ ~FakeSync => a.total <= broker[orders[sync[s].order].ref].filled
<1>. DEFINE b == broker[orders[sync[s].order].ref]
<1>1. b.filled \in 0 .. Quantity /\ Quantity \in Nat
  BY HeldRow, RealOrderConstants DEF BrokerOrders
<1>2. CASE FakeSync
  BY <1>2 DEF Answers, AnswerTells
<1>3. CASE ~FakeSync
  <2>1. \/ a = [class |-> "FAILED", total |-> 0] \/ a = [class |-> "NONE", total |-> 0]
        \/ a = [class |-> Report(b),
                total |-> IF Report(b) \in {"FULL", "PARTIAL"} THEN b.filled ELSE 0]
    BY <1>3 DEF Answers
  <2>. HIDE DEF b
  <2>2. /\ Report(b) = "FULL" => b.filled = Quantity
        /\ Report(b) = "PARTIAL" => b.filled # Quantity /\ b.filled # 0
    BY DEF Report
  <2>3. AnswerTells(a.class, a.total) /\ a.total <= b.filled
    BY <1>1, <2>1, <2>2 DEF AnswerTells
  <2>. QED BY <1>3, <2>3 DEF b
<1>. QED BY <1>2, <1>3

\* What a sync makes of its row.
ClosedRow(s) == [orders[sync[s].order] EXCEPT !.status = sync[s].class]
RecordedRow(s) == [orders[sync[s].order] EXCEPT !.filled = @ + sync[s].delta,
                                                !.status = SyncedStatus(s)]

LEMMA RowClosed ==
  ASSUME OrdersInv, NEW s \in Syncers, SyncClosed(s)
  PROVE  /\ sync[s].op # "idle" /\ orders' = [orders EXCEPT ![sync[s].order] = ClosedRow(s)]
         /\ ClosedRow(s) = [cand |-> orders[sync[s].order].cand, status |-> sync[s].class,
                            ref |-> orders[sync[s].order].ref,
                            filled |-> orders[sync[s].order].filled]
<1>1. sync[s].op # "idle" /\ orders \in Seq(Rows)
  BY DEF SyncClosed, OrdersInv, TypeOK
<1>2. sync[s].order \in DOMAIN orders /\ orders[sync[s].order] \in Rows
  BY <1>1, HeldRow
<1>. QED BY <1>1, <1>2 DEF SyncClosed, ClosedRow, Rows

LEMMA RowRecorded ==
  ASSUME OrdersInv, NEW s \in Syncers, SyncRecord(s)
  PROVE  /\ sync[s].op # "idle" /\ orders' = [orders EXCEPT ![sync[s].order] = RecordedRow(s)]
         /\ RecordedRow(s) = [cand |-> orders[sync[s].order].cand, status |-> SyncedStatus(s),
                              ref |-> orders[sync[s].order].ref,
                              filled |-> orders[sync[s].order].filled + sync[s].delta]
<1>1. sync[s].op # "idle" /\ orders \in Seq(Rows)
  BY DEF SyncRecord, OrdersInv, TypeOK
<1>2. sync[s].order \in DOMAIN orders /\ orders[sync[s].order] \in Rows
  BY <1>1, HeldRow
<1>. DEFINE i == sync[s].order
            q == orders[i].filled + sync[s].delta
            st == SyncedStatus(s)
<1>3. orders' = [orders EXCEPT ![i].filled = q, ![i].status = st]
  BY <1>1, <1>2 DEF SyncRecord
<1>4. RecordedRow(s) = [orders[i] EXCEPT !.filled = q, !.status = st]
  BY DEF RecordedRow
<1>. HIDE DEF i, q, st
<1>5. orders' = [orders EXCEPT ![i] = RecordedRow(s)]
  BY <1>1, <1>2, <1>3, <1>4 DEF i
<1>6. RecordedRow(s) = [cand |-> orders[i].cand, status |-> st, ref |-> orders[i].ref, filled |-> q]
  BY <1>2, <1>4 DEF i, Rows
<1>. QED BY <1>1, <1>5, <1>6 DEF i, q, st

\* The status that is written tells the quantity that is written.
LEMMA RecordedRowTells ==
  ASSUME OrdersInv, SyncersInv, NEW s \in Syncers, SyncRecord(s)
  PROVE  /\ sync[s].seen \in {"SUBMITTED", "PARTIALLY_FILLED"}
         /\ orders[sync[s].order].status = sync[s].seen
         /\ AnswerTells(sync[s].class, orders[sync[s].order].filled + sync[s].delta)
         /\ sync[s].class \in {"FULL", "PARTIAL", "NONE"}
         /\ StatusTells(orders[sync[s].order].status, orders[sync[s].order].filled)
         /\ StatusTells(SyncedStatus(s), orders[sync[s].order].filled + sync[s].delta)
<1>. DEFINE i == sync[s].order
            st == orders[i].status
            q == orders[i].filled
            d == sync[s].delta
<1>1. sync[s].op = "totalled" /\ d >= 0
  BY DEF SyncRecord
<1>2. /\ sync[s].seen \in {"SUBMITTED", "PARTIALLY_FILLED"}
      /\ sync[s].class \in {"FULL", "PARTIAL", "NONE"}
  <2>1. sync[s] \in SyncCalls
    BY DEF OrdersInv, TypeOK
  <2>. QED BY <1>1, <2>1 DEF SyncCalls, NoCall
<1>3. st = sync[s].seen /\ AnswerTells(sync[s].class, q + d)
  BY <1>1 DEF SyncersInv, SyncsStand, Stands
<1>4. d \in Int /\ q \in Nat /\ StatusTells(st, q)
  BY <1>1, HeldRow DEF Rows, SyncersInv, StatusTellsFills
<1>5. SyncedStatus(s) = CASE sync[s].class = "FULL" -> "FILLED"
                          [] sync[s].class = "PARTIAL" /\ sync[s].seen # "PARTIALLY_FILLED"
                               -> "PARTIALLY_FILLED"
                          [] OTHER -> st
  BY DEF SyncedStatus
<1>. HIDE DEF i, st, q, d
<1>6. StatusTells(SyncedStatus(s), q + d)
  <2>1. CASE sync[s].class = "FULL"
    BY <1>3, <1>5, <2>1 DEF StatusTells, AnswerTells
  <2>2. CASE sync[s].class = "PARTIAL"
    BY <1>2, <1>3, <1>5, <2>2 DEF StatusTells, AnswerTells
  <2>3. CASE sync[s].class = "NONE"
    <3>1. q + d = 0 /\ SyncedStatus(s) = st
      BY <1>3, <1>5, <2>3 DEF AnswerTells
    <3>2. q = 0
      BY <1>1, <1>4, <3>1
    <3>. QED BY <1>2, <1>3, <1>4, <3>1, <3>2 DEF StatusTells
  <2>. QED BY <1>2, <2>1, <2>2, <2>3
<1>. QED BY <1>2, <1>3, <1>4, <1>6 DEF i, st, q, d

LEMMA CallersStep ==
  ASSUME OrdersInv, CallersInv, SyncersInv, deployment.oneCaller, [Next]_vars
  PROVE  CallersInv'
<1>1. /\ exec \in [Executors -> ExecCalls] /\ orders \in Seq(Rows)
      /\ sync \in [Syncers -> SyncCalls] /\ NoCall.op = "idle"
  BY DEF OrdersInv, TypeOK, NoCall
<1>2. CASE UNCHANGED <<orders, exec, today>>
  BY <1>2, RowsSettle
<1>3. ASSUME NEW e \in Executors, NEW c \in Candidates, Execute(e, c)
      PROVE  CallersInv'
  <2>. DEFINE x == [op |-> IF switches.dry THEN "dry" ELSE "place", cand |-> c, today |-> TRUE]
  <2>1. /\ \A d \in Executors : exec[d].op = "idle"
        /\ UNCHANGED <<orders, today>> /\ exec' = [exec EXCEPT ![e] = x] /\ x.cand = c
        /\ ~HasLiveOrder(c) /\ WithinCaps(c)
    BY <1>1, <1>3 DEF Execute
  <2>. HIDE DEF x
  <2>. QED BY <2>1, CallGoesOn
<1>4. ASSUME NEW e \in Executors,
             PlaceDry(e) \/ PlaceAccepted(e) \/ PlaceRejected(e) \/ PlaceLost(e)
      PROVE  CallersInv'
  <2>1. exec[e].op # "idle" /\ UNCHANGED <<orders, today>>
    BY <1>4 DEF PlaceDry, PlaceAccepted, PlaceRejected, PlaceLost
  <2>2. PICK x : exec' = [exec EXCEPT ![e] = x] /\ x.cand = exec[e].cand
    <3>1. CASE PlaceAccepted(e)
      <4>. DEFINE x == [op |-> "submitted", cand |-> exec[e].cand, today |-> exec[e].today,
                        ref |-> Len(broker) + 1]
      <4>1. exec' = [exec EXCEPT ![e] = x] /\ x.cand = exec[e].cand
        BY <3>1 DEF PlaceAccepted
      <4>. QED BY <4>1
    <3>2. CASE ~PlaceAccepted(e)
      <4>1. PICK o \in {"recorddry", "failed"} : exec' = [exec EXCEPT ![e].op = o]
        BY <1>4, <3>2 DEF PlaceDry, PlaceRejected, PlaceLost
      <4>. DEFINE x == [exec[e] EXCEPT !.op = o]
      <4>2. exec[e].op \in {"dry", "place"}
        BY <1>4, <3>2 DEF PlaceDry, PlaceRejected, PlaceLost
      <4>3. exec[e] \in [op : {"dry", "recorddry", "place", "failed"}, cand : Approved, today : BOOLEAN]
        BY <1>1, <4>2 DEF ExecCalls, NoCall
      <4>4. exec' = [exec EXCEPT ![e] = x] /\ x.cand = exec[e].cand
        BY <4>1, <4>3
      <4>. QED BY <4>4
    <3>. QED BY <3>1, <3>2
  <2>. QED BY <2>1, <2>2, CallGoesOn
<1>5. ASSUME NEW e \in Executors, RecordDry(e) \/ RecordSubmitted(e) \/ RecordFailed(e)
      PROVE  CallersInv'
  BY <1>5, CallWritten DEF RecordDry, RecordSubmitted, RecordFailed
<1>6. ASSUME NEW s \in Syncers, SyncClosed(s) \/ SyncRecord(s)
      PROVE  CallersInv'
  <2>. DEFINE i == sync[s].order
  <2>1. sync[s].op # "idle" /\ UNCHANGED <<exec, today>>
    BY <1>6 DEF SyncClosed, SyncRecord, EndSync
  <2>2. i \in DOMAIN orders /\ orders[i].status \notin FailedStatuses
    <3>1. sync[s] \in SyncCalls /\ orders[i].status = sync[s].seen
      BY <1>1, <2>1 DEF SyncersInv, SyncsStand, Stands
    <3>2. sync[s].seen \in {"SUBMITTED", "PARTIALLY_FILLED"} /\ i \in DOMAIN orders
      BY <2>1, <3>1 DEF SyncCalls, NoCall
    <3>. QED BY <3>1, <3>2 DEF FailedStatuses
  <2>3. PICK x : orders' = [orders EXCEPT ![i] = x] /\ x.cand = orders[i].cand
    <3>1. CASE SyncClosed(s)
      <4>1. ClosedRow(s).cand = orders[i].cand /\ orders' = [orders EXCEPT ![i] = ClosedRow(s)]
        BY <3>1, RowClosed
      <4>. QED BY <4>1
    <3>2. CASE SyncRecord(s)
      <4>1. RecordedRow(s).cand = orders[i].cand /\ orders' = [orders EXCEPT ![i] = RecordedRow(s)]
        BY <3>2, RowRecorded
      <4>. QED BY <4>1
    <3>. QED BY <1>6, <3>1, <3>2
  <2>. HIDE DEF i
  <2>4. /\ DOMAIN orders' = DOMAIN orders /\ orders'[i] = x
        /\ \A j \in DOMAIN orders : j # i => orders'[j] = orders[j]
    BY <1>1, <2>2, <2>3
  <2>. QED BY <2>1, <2>2, <2>3, <2>4, RowsSettle
<1>7. CASE Midnight
  BY <1>7, CallersAtMidnight
<1>8. CASE Restart
  BY <1>8, CallersAfterRestart
<1>. QED BY <1>2, <1>3, <1>4, <1>5, <1>6, <1>7, <1>8
     DEF Next, Execution, Synchronisation, SyncLoad, SyncQuery, SyncFailed, SyncTotal, SyncNegative,
         EndSync, BrokerFills, BrokerCloses, vars

LEMMA SyncersStep ==
  ASSUME OrdersInv, OrdersInv', SyncersInv, deployment.oneCaller, [Next]_vars
  PROVE  SyncersInv'
<1>1. /\ orders \in Seq(Rows) /\ broker \in Seq(BrokerOrders) /\ Len(broker) \in Nat
      /\ Len(orders) \in Nat /\ sync \in [Syncers -> SyncCalls] /\ NoCall.op = "idle"
  BY DEF OrdersInv, TypeOK, NoCall
<1>2. CASE UNCHANGED <<orders, broker, sync>>
  BY <1>2 DEF SyncersInv, OneSync, StatusTellsFills, FillsWithin, SyncsStand, Stands
<1>3. ASSUME NEW e \in Executors, Execution(e), ~UNCHANGED broker
      PROVE  SyncersInv'
  <2>1. UNCHANGED <<orders, sync>> /\ BrokerAccepts(exec[e].cand)
    BY <1>3 DEF Execution, Execute, PlaceDry, PlaceAccepted, PlaceRejected, PlaceLost, RecordDry,
                RecordSubmitted, RecordFailed, RecordRow
  <2>2. /\ DOMAIN broker \subseteq DOMAIN broker'
        /\ \A b \in DOMAIN broker : broker'[b] = broker[b] /\ broker[b].filled \in Nat
    <3>1. /\ DOMAIN broker \subseteq DOMAIN broker'
          /\ \A b \in DOMAIN broker : broker'[b] = broker[b] /\ broker[b] \in BrokerOrders
      BY <1>1, <2>1 DEF BrokerAccepts
    <3>. QED BY <3>1, RealOrderConstants DEF BrokerOrders
  <2>3. \A b \in DOMAIN broker : broker'[b].filled >= broker[b].filled
    BY <2>2
  <2>. QED BY <2>1, <2>2, <2>3, BooksGrow
<1>4. ASSUME NEW e \in Executors, RecordDry(e) \/ RecordSubmitted(e) \/ RecordFailed(e)
      PROVE  SyncersInv'
  <2>1. PICK st \in {"DRY_RUN", "SUBMITTED", "FAILED"} : \E ref : RecordRow(e, st, ref)
    BY <1>4 DEF RecordDry, RecordSubmitted, RecordFailed
  <2>2. PICK ref : RecordRow(e, st, ref)
    BY <2>1
  <2>. DEFINE x == [cand |-> exec[e].cand, status |-> st, ref |-> ref, filled |-> 0]
  <2>3. UNCHANGED <<broker, sync>> /\ orders' = Append(orders, x) /\ x.status = st /\ x.filled = 0
    BY <2>2 DEF RecordRow
  <2>. HIDE DEF x
  <2>4. /\ DOMAIN orders \subseteq DOMAIN orders' /\ \A i \in DOMAIN orders : orders'[i] = orders[i]
        /\ \A i \in DOMAIN orders' \ DOMAIN orders : orders'[i] = x
    BY <1>1, <2>3
  <2>5. \A b \in DOMAIN broker : broker'[b].filled >= broker[b].filled
    <3>1. \A b \in DOMAIN broker : broker[b] \in BrokerOrders
      BY <1>1
    <3>. QED BY <2>3, <3>1, RealOrderConstants DEF BrokerOrders
  <2>. QED BY <2>1, <2>3, <2>4, <2>5, BooksGrow DEF RealStatuses
<1>5. ASSUME NEW n \in DOMAIN broker, BrokerFills(n) \/ BrokerCloses(n)
      PROVE  SyncersInv'
  <2>1. UNCHANGED <<orders, sync>> /\ broker[n] \in BrokerOrders
    BY <1>1, <1>5 DEF BrokerFills, BrokerCloses
  <2>2. PICK x : broker' = [broker EXCEPT ![n] = x] /\ x.filled >= broker[n].filled
    <3>1. CASE BrokerFills(n)
      <4>. DEFINE x == [broker[n] EXCEPT !.filled = @ + 1]
      <4>1. broker' = [broker EXCEPT ![n] = x] /\ x.filled = broker[n].filled + 1
        BY <1>1, <2>1, <3>1 DEF BrokerFills, BrokerOrders
      <4>2. x.filled >= broker[n].filled
        BY <2>1, <4>1, RealOrderConstants DEF BrokerOrders
      <4>. QED BY <4>1, <4>2
    <3>2. CASE BrokerCloses(n)
      <4>1. PICK f : broker' = [broker EXCEPT ![n].flag = f]
        BY <3>2 DEF BrokerCloses
      <4>. DEFINE x == [broker[n] EXCEPT !.flag = f]
      <4>2. broker' = [broker EXCEPT ![n] = x] /\ x.filled = broker[n].filled
        BY <1>1, <2>1, <4>1 DEF BrokerOrders
      <4>3. x.filled >= broker[n].filled
        BY <2>1, <4>2, RealOrderConstants DEF BrokerOrders
      <4>. QED BY <4>2, <4>3
    <3>. QED BY <1>5, <3>1, <3>2
  <2>3. DOMAIN broker' = DOMAIN broker /\ \A b \in DOMAIN broker : broker'[b].filled >= broker[b].filled
    <3>1. \A b \in DOMAIN broker : broker[b] \in BrokerOrders
      BY <1>1
    <3>2. \A b \in DOMAIN broker : broker[b].filled \in Nat
      BY <3>1, RealOrderConstants DEF BrokerOrders
    <3>. QED BY <1>1, <2>2, <3>2
  <2>. QED BY <2>1, <2>3, BooksGrow
<1>6. ASSUME NEW s \in Syncers, NEW i \in DOMAIN orders, SyncLoad(s, i)
      PROVE  SyncersInv'
  <2>. DEFINE x == [op |-> "query", order |-> i, seen |-> orders[i].status]
  <2>1. /\ sync' = [sync EXCEPT ![s] = x] /\ Stands(x) /\ UNCHANGED <<orders, broker>>
        /\ \A t \in Syncers : sync[t].op = "idle"
    BY <1>1, <1>6 DEF SyncLoad, Stands
  <2>. HIDE DEF x
  <2>. QED BY <2>1, SyncReads
<1>7. ASSUME NEW s \in Syncers, SyncQuery(s)
      PROVE  SyncersInv'
  <2>1. PICK a \in Answers(sync[s].order) :
          sync' = [sync EXCEPT ![s] = [op |-> "answered", order |-> @.order, seen |-> @.seen,
                                       class |-> a.class, total |-> a.total]]
    BY <1>7 DEF SyncQuery
  <2>. DEFINE x == [op |-> "answered", order |-> sync[s].order, seen |-> sync[s].seen,
                    class |-> a.class, total |-> a.total]
  <2>2. sync[s].op # "idle" /\ UNCHANGED <<orders, broker>> /\ sync' = [sync EXCEPT ![s] = x]
    BY <1>7, <2>1 DEF SyncQuery
  <2>3. Stands(x)
    BY <2>2, AnswersTell DEF SyncersInv, SyncsStand, Stands
  <2>. HIDE DEF x
  <2>. QED BY <2>2, <2>3, SyncReads
<1>8. ASSUME NEW s \in Syncers, SyncTotal(s)
      PROVE  SyncersInv'
  <2>. DEFINE i == sync[s].order
              x == [op |-> "totalled", order |-> i, seen |-> sync[s].seen, class |-> sync[s].class,
                    delta |-> sync[s].total - orders[i].filled]
  <2>1. /\ sync[s].op = "answered" /\ UNCHANGED <<orders, broker>>
        /\ sync' = [sync EXCEPT ![s] = x]
    BY <1>8 DEF SyncTotal
  <2>2. orders[i].filled + (sync[s].total - orders[i].filled) = sync[s].total
    <3>1. orders[i].filled \in Nat /\ sync[s].total \in Nat
      BY <2>1, HeldRow, RealOrderConstants DEF Rows
    <3>. QED BY <3>1
  <2>3. Stands(x)
    BY <2>1, <2>2 DEF SyncersInv, SyncsStand, Stands
  <2>. HIDE DEF x
  <2>. QED BY <2>1, <2>3, SyncReads
<1>9. ASSUME NEW s \in Syncers, SyncFailed(s) \/ SyncNegative(s)
      PROVE  SyncersInv'
  BY <1>1, <1>9, SyncReads DEF SyncFailed, SyncNegative, EndSync
<1>10. ASSUME NEW s \in Syncers, SyncClosed(s)
       PROVE  SyncersInv'
  <2>. DEFINE x == ClosedRow(s)
              i == sync[s].order
  <2>1. /\ sync[s].op # "idle" /\ orders' = [orders EXCEPT ![sync[s].order] = x]
        /\ x.status \in {"REJECTED", "CANCELED"} /\ x.ref = orders[i].ref
        /\ x.filled = orders[i].filled
    <3>1. sync[s].class \in {"REJECTED", "CANCELED"}
      BY <1>10 DEF SyncClosed
    <3>. HIDE DEF x
    <3>2. /\ sync[s].op # "idle" /\ orders' = [orders EXCEPT ![sync[s].order] = x]
          /\ x = [cand |-> orders[sync[s].order].cand, status |-> sync[s].class,
                  ref |-> orders[sync[s].order].ref, filled |-> orders[sync[s].order].filled]
      BY <1>10, RowClosed DEF x
    <3>. QED BY <3>1, <3>2
  <2>2. UNCHANGED broker /\ sync' = [sync EXCEPT ![s] = NoCall]
    BY <1>10 DEF SyncClosed, EndSync
  <2>3. StatusTells(x.status, x.filled)
    BY <2>1 DEF StatusTells
  <2>4. ~FakeSync => x.filled <= broker[x.ref].filled
    BY <2>1, HeldRow DEF SyncersInv, FillsWithin
  <2>. HIDE DEF x
  <2>. QED BY <2>1, <2>2, <2>3, <2>4, SyncWrites
<1>11. ASSUME NEW s \in Syncers, SyncRecord(s)
       PROVE  SyncersInv'
  <2>. DEFINE x == RecordedRow(s)
              i == sync[s].order
  <2>1. /\ sync[s].op # "idle" /\ orders' = [orders EXCEPT ![sync[s].order] = x]
        /\ x.status = SyncedStatus(s) /\ x.ref = orders[i].ref
        /\ x.filled = orders[i].filled + sync[s].delta
    BY <1>11, RowRecorded
  <2>2. UNCHANGED broker /\ sync' = [sync EXCEPT ![s] = NoCall] /\ sync[s].op = "totalled"
    BY <1>11 DEF SyncRecord, EndSync
  <2>3. StatusTells(x.status, x.filled)
    BY <1>11, <2>1, RecordedRowTells
  <2>4. ~FakeSync => x.filled <= broker[x.ref].filled
    BY <2>1, <2>2 DEF SyncersInv, SyncsStand, Stands
  <2>. HIDE DEF x
  <2>. QED BY <2>1, <2>2, <2>3, <2>4, SyncWrites
<1>12. CASE Restart
  <2>1. UNCHANGED <<orders, broker>> /\ \A s \in Syncers : sync'[s].op = "idle"
    BY <1>1, <1>12 DEF Restart
  <2>. QED BY <2>1 DEF SyncersInv, OneSync, StatusTellsFills, FillsWithin, SyncsStand
<1>13. CASE \E e \in Executors : Execution(e)
  BY <1>2, <1>3, <1>4, <1>13
     DEF Execution, Execute, PlaceDry, PlaceAccepted, PlaceRejected, PlaceLost
<1>. QED BY <1>2, <1>5, <1>6, <1>7, <1>8, <1>9, <1>10, <1>11, <1>12, <1>13
     DEF Next, Synchronisation, Midnight, vars

SerialInv == deployment.oneCaller => CallersInv /\ SyncersInv

LEMMA SerialInvHolds == Spec => []SerialInv
<1>1. Init => SerialInv
  <2>. SUFFICES ASSUME Init PROVE CallersInv /\ SyncersInv
    BY DEF SerialInv
  <2>1. /\ orders = <<>> /\ today = {}
        /\ \A e \in Executors : exec[e].op = "idle"
        /\ \A s \in Syncers : sync[s].op = "idle"
    BY DEF Init, NoCall
  <2>2. TodayTotal = 0
    <3>1. CountToday = {}
      BY <2>1 DEF CountToday
    <3>. QED BY <3>1, TodayIsASum, SumEmpty
  <2>3. CallersInv
    BY <2>1, <2>2, RealOrderConstants
       DEF CallersInv, OneExecution, GateStands, OneLiveOrder, DailyCapHeld
  <2>4. SyncersInv
    BY <2>1 DEF SyncersInv, OneSync, StatusTellsFills, FillsWithin, SyncsStand
  <2>. QED BY <2>3, <2>4
<1>2. OrdersInv /\ OrdersInv' /\ SerialInv /\ [Next]_vars => SerialInv'
  <2>. SUFFICES ASSUME OrdersInv, OrdersInv', SerialInv, [Next]_vars, deployment.oneCaller'
                PROVE  CallersInv' /\ SyncersInv'
    BY DEF SerialInv
  <2>1. deployment' = deployment
    BY DEF Next, Execution, Synchronisation, Execute, PlaceDry, PlaceAccepted, PlaceRejected,
           PlaceLost, RecordDry, RecordSubmitted, RecordFailed, RecordRow, SyncLoad, SyncQuery,
           SyncFailed, SyncClosed, SyncTotal, SyncNegative, SyncRecord, EndSync, BrokerFills,
           BrokerCloses, Midnight, Restart, vars
  <2>2. deployment.oneCaller /\ CallersInv /\ SyncersInv
    BY <2>1 DEF SerialInv
  <2>. QED BY <2>2, CallersStep, SyncersStep
<1>. QED BY <1>1, <1>2, OrdersInvHolds, PTL DEF Spec

(***************************************************************************)
(* "A strict 1-candidate-1-RealOrder invariant" (real_order.py), the daily *)
(* cap of what was recorded (RealOrderExecutor gate 8), and recorded fills *)
(* that follow the broker's (FillSyncService.sync_fills), for one caller   *)
(* of execute and of the sync endpoint at a time.                          *)
(***************************************************************************)
THEOREM SerialCallersAreSafe == Spec => []SerialCallersKeepTheRules
<1>1. OrdersInv /\ SerialInv => SerialCallersKeepTheRules
  <2>. SUFFICES ASSUME OrdersInv, CallersInv, SyncersInv
                PROVE  OneLiveOrder /\ DailyCapHeld /\ (~FakeSync => FillsFollowTheBroker)
    BY DEF SerialInv, SerialCallersKeepTheRules
  <2>1. OneLiveOrder /\ DailyCapHeld
    BY DEF CallersInv
  <2>2. ~FakeSync => FillsFollowTheBroker
    BY DEF SyncersInv, StatusTellsFills, StatusTells, FillsWithin, FillsFollowTheBroker
  <2>. QED BY <2>1, <2>2
<1>. QED BY <1>1, OrdersInvHolds, SerialInvHolds, PTL

----
(***************************************************************************)
(* The refinement: a row that is recorded is a Record, an answer that adds *)
(* fills a Fill, one that closes a Close; an answer that adds none leaves  *)
(* the row as it is.                                                       *)
(***************************************************************************)
Ledger == [i \in DOMAIN orders |->
             [cand |-> orders[i].cand, status |-> orders[i].status, filled |-> orders[i].filled]]

LEMMA RecordImplements ==
  ASSUME OrdersInv, CallersInv, NEW e \in Executors, exec[e].op # "idle",
         NEW st \in {"DRY_RUN", "SUBMITTED", "FAILED"}, NEW ref, RecordRow(e, st, ref)
  PROVE  Lifecycle!Next
<1>1. orders \in Seq(Rows) /\ Len(orders) \in Nat /\ exec[e] \in ExecCalls
  BY DEF OrdersInv, TypeOK
<1>2. PICK c \in Candidates : c = exec[e].cand
  BY <1>1, RealOrderConstants DEF ExecCalls, NoCall
<1>. DEFINE n == Len(orders) + 1
            row == [cand |-> c, status |-> st, filled |-> 0]
<1>3. \A i \in DOMAIN orders : orders[i].cand = c => orders[i].status \in FailedStatuses
  BY <1>2 DEF CallersInv, GateStands, HasLiveOrder
<1>4. /\ DOMAIN orders = 1 .. Len(orders) /\ DOMAIN orders' = 1 .. n
      /\ orders'[n].cand = c /\ orders'[n].status = st /\ orders'[n].filled = 0
      /\ \A i \in DOMAIN orders : orders'[i] = orders[i]
  BY <1>1, <1>2 DEF RecordRow
<1>5. Ledger' = Append(Ledger, row)
  <2>1. Len(Ledger) = Len(orders) /\ Append(Ledger, row) = [i \in 1 .. n |-> IF i = n THEN row ELSE Ledger[i]]
    BY <1>1, <1>4 DEF Ledger
  <2>2. ASSUME NEW i \in 1 .. n
        PROVE  Ledger'[i] = IF i = n THEN row ELSE Ledger[i]
    BY <1>1, <1>4 DEF Ledger
  <2>3. Ledger' = [i \in 1 .. n |-> Ledger'[i]]
    BY <1>4 DEF Ledger
  <2>. QED BY <2>1, <2>2, <2>3
<1>6. Lifecycle!Record(c)
  <2>1. \A i \in DOMAIN Ledger : Ledger[i].cand = c => Ledger[i].status \in Lifecycle!Failed
    BY <1>3 DEF Ledger, FailedStatuses, Lifecycle!Failed
  <2>2. \E t \in {"DRY_RUN", "SUBMITTED", "FAILED"} :
          Ledger' = Append(Ledger, [cand |-> c, status |-> t, filled |-> 0])
    BY <1>5
  <2>. QED BY <2>1, <2>2 DEF Lifecycle!Record, Ledger
<1>. QED BY <1>6 DEF Lifecycle!Next

LEMMA RowInLedger ==
  ASSUME NEW i \in DOMAIN orders, orders \in Seq(Rows), NEW x,
         orders' = [orders EXCEPT ![i] = x], x.cand = orders[i].cand
  PROVE  /\ Ledger[i].cand = orders[i].cand /\ Ledger[i].status = orders[i].status
         /\ Ledger[i].filled = orders[i].filled /\ i \in DOMAIN Ledger
         /\ Ledger' = [Ledger EXCEPT ![i] = [cand |-> x.cand, status |-> x.status,
                                             filled |-> x.filled]]
         /\ Ledger[i] = [cand |-> x.cand, status |-> orders[i].status, filled |-> orders[i].filled]
<1>1. /\ DOMAIN orders' = DOMAIN orders /\ orders'[i] = x
      /\ \A j \in DOMAIN orders : j # i => orders'[j] = orders[j]
  OBVIOUS
<1>. QED BY <1>1 DEF Ledger

Entries == [cand : Approved, status : RealStatuses \cup {"DRY_RUN", "FAILED"}, filled : Nat]

LEMMA LedgerTyped ==
  ASSUME orders \in Seq(Rows)
  PROVE  Ledger \in [DOMAIN Ledger -> Entries]
<1>1. \A i \in DOMAIN orders : orders[i] \in Rows
  OBVIOUS
<1>2. ASSUME NEW i \in DOMAIN orders
      PROVE  [cand |-> orders[i].cand, status |-> orders[i].status, filled |-> orders[i].filled]
               \in Entries
  BY <1>1 DEF Rows, Entries
<1>. QED BY <1>2 DEF Ledger

LEMMA LedgerChanged ==
  ASSUME NEW D, NEW L \in [D -> Entries], NEW i \in D, NEW p, NEW t
  PROVE  /\ [L EXCEPT ![i].status = t]
              = [L EXCEPT ![i] = [cand |-> L[i].cand, status |-> t, filled |-> L[i].filled]]
         /\ [L EXCEPT ![i].filled = p, ![i].status = t]
              = [L EXCEPT ![i] = [cand |-> L[i].cand, status |-> t, filled |-> p]]
<1>. DEFINE x == [L[i] EXCEPT !.status = t]
            y == [L[i] EXCEPT !.filled = p, !.status = t]
<1>1. [L EXCEPT ![i].status = t] = [L EXCEPT ![i] = x]
  OBVIOUS
<1>2. [L EXCEPT ![i].filled = p, ![i].status = t] = [L EXCEPT ![i] = y]
  OBVIOUS
<1>3. x = [L[i] EXCEPT !.status = t] /\ y = [L[i] EXCEPT !.filled = p, !.status = t]
  OBVIOUS
<1>. HIDE DEF x, y
<1>4. /\ x = [cand |-> L[i].cand, status |-> t, filled |-> L[i].filled]
      /\ y = [cand |-> L[i].cand, status |-> t, filled |-> p]
  <2>. DEFINE r == L[i]
  <2>1. r \in Entries /\ x = [r EXCEPT !.status = t] /\ y = [r EXCEPT !.filled = p, !.status = t]
    BY <1>3
  <2>. HIDE DEF r
  <2>2. /\ x = [cand |-> r.cand, status |-> t, filled |-> r.filled]
        /\ y = [cand |-> r.cand, status |-> t, filled |-> p]
    BY <2>1 DEF Entries
  <2>. QED BY <2>2 DEF r
<1>. QED BY <1>1, <1>2, <1>4

LEMMA SyncRecordImplements ==
  ASSUME OrdersInv, SyncersInv, NEW s \in Syncers, SyncRecord(s)
  PROVE  Lifecycle!Next \/ UNCHANGED orders
<1>1. sync[s].op = "totalled" /\ sync[s].delta >= 0 /\ orders \in Seq(Rows) /\ Quantity \in Nat \ {0}
  BY RealOrderConstants DEF SyncRecord, OrdersInv, TypeOK
<1>2. PICK i \in DOMAIN orders : i = sync[s].order
  BY <1>1, HeldRow
<1>. DEFINE q == orders[i].filled + sync[s].delta
            x == RecordedRow(s)
<1>3. /\ orders' = [orders EXCEPT ![i] = x] /\ x.cand = orders[i].cand
      /\ x = [cand |-> orders[i].cand, status |-> SyncedStatus(s), ref |-> orders[i].ref, filled |-> q]
  BY <1>2, RowRecorded
<1>4. /\ sync[s].seen \in {"SUBMITTED", "PARTIALLY_FILLED"} /\ orders[i].status = sync[s].seen
      /\ sync[s].class \in {"FULL", "PARTIAL", "NONE"} /\ AnswerTells(sync[s].class, q)
      /\ StatusTells(orders[i].status, orders[i].filled)
  BY <1>2, RecordedRowTells
<1>5. orders[i] \in Rows /\ orders[i].filled \in Nat /\ sync[s].delta \in Nat
  BY <1>1, <1>2, HeldRow DEF Rows
<1>6. SyncedStatus(s) = CASE sync[s].class = "FULL" -> "FILLED"
                          [] sync[s].class = "PARTIAL" /\ sync[s].seen # "PARTIALLY_FILLED"
                               -> "PARTIALLY_FILLED"
                          [] OTHER -> orders[i].status
  BY <1>2 DEF SyncedStatus
<1>7. CASE sync[s].delta = 0
  <2>1. q = orders[i].filled /\ q < Quantity
    BY <1>1, <1>4, <1>5, <1>7 DEF StatusTells
  <2>2. sync[s].class # "FULL"
    BY <1>1, <1>4, <2>1 DEF AnswerTells
  <2>3. sync[s].class = "PARTIAL" => sync[s].seen = "PARTIALLY_FILLED"
    BY <1>4, <2>1 DEF AnswerTells, StatusTells
  <2>4. SyncedStatus(s) = orders[i].status
    BY <1>4, <1>6, <2>2, <2>3
  <2>5. x = orders[i]
    BY <1>3, <1>5, <2>1, <2>4 DEF Rows
  <2>6. orders' = orders
    BY <1>1, <1>3, <2>5
  <2>. QED BY <2>6
<1>8. CASE sync[s].delta > 0
  <2>1. q \in orders[i].filled + 1 .. Quantity
    <3>1. q <= Quantity
      BY <1>1, <1>4, <1>5, <1>8 DEF AnswerTells
    <3>. QED BY <1>1, <1>5, <1>8, <3>1
  <2>2. SyncedStatus(s) = IF q = Quantity THEN "FILLED" ELSE "PARTIALLY_FILLED"
    <3>1. sync[s].class # "NONE"
      BY <1>4, <1>5, <1>8 DEF AnswerTells
    <3>. QED BY <1>1, <1>4, <1>6, <3>1 DEF AnswerTells
  <2>3. PICK p \in orders[i].filled + 1 .. Quantity : p = q
    BY <2>1
  <2>. HIDE DEF q, x
  <2>4. /\ Ledger[i].status = orders[i].status /\ Ledger[i].filled = orders[i].filled
        /\ i \in DOMAIN Ledger
        /\ Ledger' = [Ledger EXCEPT ![i] = [cand |-> x.cand, status |-> x.status, filled |-> x.filled]]
        /\ Ledger[i] = [cand |-> x.cand, status |-> orders[i].status, filled |-> orders[i].filled]
    BY <1>1, <1>3, RowInLedger
  <2>5. x.status = (IF p = Quantity THEN "FILLED" ELSE "PARTIALLY_FILLED") /\ x.filled = p
    BY <1>3, <2>2, <2>3
  <2>6. Ledger' = [Ledger EXCEPT ![i].filled = p,
                     ![i].status = IF p = Quantity THEN "FILLED" ELSE "PARTIALLY_FILLED"]
    <3>1. Ledger[i].cand = x.cand /\ Ledger \in [DOMAIN Ledger -> Entries]
      BY <1>1, <2>4, LedgerTyped
    <3>. QED BY <2>4, <2>5, <3>1, LedgerChanged
  <2>7. Ledger[i].status \in Lifecycle!Live /\ p \in Ledger[i].filled + 1 .. Quantity
    BY <1>4, <2>3, <2>4 DEF Lifecycle!Live
  <2>8. Lifecycle!Fill(i)
    BY <2>6, <2>7 DEF Lifecycle!Fill, Ledger
  <2>. QED BY <2>4, <2>8 DEF Lifecycle!Next, Ledger
<1>. QED BY <1>5, <1>7, <1>8

LEMMA SyncClosedImplements ==
  ASSUME OrdersInv, SyncersInv, NEW s \in Syncers, SyncClosed(s)
  PROVE  Lifecycle!Next
<1>1. /\ sync[s].op = "answered" /\ sync[s].class \in {"CANCELED", "REJECTED"} /\ orders \in Seq(Rows)
      /\ sync[s] \in SyncCalls
  BY DEF SyncClosed, OrdersInv, TypeOK
<1>2. PICK i \in DOMAIN orders : i = sync[s].order
  BY <1>1, HeldRow
<1>. DEFINE x == ClosedRow(s)
<1>3. PICK t \in {"CANCELED", "REJECTED"} : t = sync[s].class
  BY <1>1
<1>4. /\ orders' = [orders EXCEPT ![i] = x]
      /\ x = [cand |-> orders[i].cand, status |-> t, ref |-> orders[i].ref, filled |-> orders[i].filled]
      /\ x.cand = orders[i].cand
  BY <1>2, <1>3, RowClosed
<1>5. orders[i].status \in {"SUBMITTED", "PARTIALLY_FILLED"}
  <2>1. orders[i].status = sync[s].seen
    BY <1>1, <1>2 DEF SyncersInv, SyncsStand, Stands
  <2>. QED BY <1>1, <2>1 DEF SyncCalls, NoCall
<1>. HIDE DEF x
<1>6. /\ Ledger[i].status = orders[i].status /\ Ledger[i].filled = orders[i].filled
      /\ i \in DOMAIN Ledger
      /\ Ledger' = [Ledger EXCEPT ![i] = [cand |-> x.cand, status |-> x.status, filled |-> x.filled]]
      /\ Ledger[i] = [cand |-> x.cand, status |-> orders[i].status, filled |-> orders[i].filled]
  BY <1>1, <1>4, RowInLedger
<1>7. Ledger' = [Ledger EXCEPT ![i].status = t]
  <2>1. Ledger[i].cand = x.cand /\ Ledger \in [DOMAIN Ledger -> Entries]
    BY <1>1, <1>6, LedgerTyped
  <2>2. x.status = t /\ x.filled = Ledger[i].filled
    BY <1>4, <1>6
  <2>. QED BY <1>6, <2>1, <2>2, LedgerChanged
<1>8. Ledger[i].status \in Lifecycle!Live
  BY <1>5, <1>6 DEF Lifecycle!Live
<1>9. Lifecycle!Close(i)
  BY <1>7, <1>8 DEF Lifecycle!Close, Ledger
<1>. QED BY <1>6, <1>9 DEF Lifecycle!Next, Ledger

LEMMA SerialStepImplements ==
  ASSUME OrdersInv, CallersInv, SyncersInv, [Next]_vars
  PROVE  Lifecycle!Next \/ UNCHANGED orders
<1>1. CASE UNCHANGED orders
  BY <1>1
<1>2. ASSUME NEW e \in Executors, RecordDry(e) \/ RecordSubmitted(e) \/ RecordFailed(e)
      PROVE  Lifecycle!Next
  BY <1>2, RecordImplements DEF RecordDry, RecordSubmitted, RecordFailed
<1>3. ASSUME NEW s \in Syncers, SyncClosed(s)
      PROVE  Lifecycle!Next
  BY <1>3, SyncClosedImplements
<1>4. ASSUME NEW s \in Syncers, SyncRecord(s)
      PROVE  Lifecycle!Next \/ UNCHANGED orders
  BY <1>4, SyncRecordImplements
<1>. QED BY <1>1, <1>2, <1>3, <1>4
     DEF Next, Execution, Execute, PlaceDry, PlaceAccepted, PlaceRejected, PlaceLost, Synchronisation,
         SyncLoad, SyncQuery, SyncFailed, SyncTotal, SyncNegative, BrokerFills, BrokerCloses, Midnight,
         Restart, vars

(***************************************************************************)
(* One caller of execute and of the sync endpoint at a time implement the  *)
(* status machine of real_orders (app/db/models.py), with lost answers,    *)
(* refused queries and restarts.                                           *)
(***************************************************************************)
THEOREM SerialOrdersImplementLifecycle == Spec => SerialImplementsLifecycle
<1>1. Init => (deployment.oneCaller => Lifecycle!Init)
  <2>1. Init => [i \in DOMAIN orders |->
                   [cand |-> orders[i].cand, status |-> orders[i].status,
                    filled |-> orders[i].filled]] = <<>>
    BY DEF Init
  <2>. QED BY <2>1 DEF Lifecycle!Init
<1>2. OrdersInv /\ SerialInv /\ [Next]_vars
        => [deployment.oneCaller => Lifecycle!Next \/ UNCHANGED orders]_vars
  BY SerialStepImplements DEF SerialInv
<1>. QED BY <1>1, <1>2, OrdersInvHolds, SerialInvHolds, PTL DEF Spec, SerialImplementsLifecycle

====
