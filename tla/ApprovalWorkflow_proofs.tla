---- MODULE ApprovalWorkflow_proofs ----
(***************************************************************************)
(* Proofs about ApprovalWorkflow, for every set of candidates, workers,    *)
(* accounts, profiles and settings, any number of restarts, and both kinds *)
(* of locking.                                                             *)
(***************************************************************************)
EXTENDS ApprovalWorkflow, SumTheorems, TLAPS

(***************************************************************************)
(* TypeOK needs one fact of the orders: a request that found an order of   *)
(* its key still finds it when it commits, or what it links would not be   *)
(* an order id at all.                                                     *)
(***************************************************************************)
FoundStays ==
  \A w \in Workers : tx[w].op = "approve:found" =>
    \E i \in DOMAIN orders : orders[i].key = <<"approval", tx[w].cand>>

TypeInv == TypeOK /\ FoundStays

\* Nothing is there yet, so the initial state is well formed.
LEMMA TypeInvInit == Init => TypeInv
  BY WorkflowConstants DEF Init, TypeInv, TypeOK, FoundStays, Statuses, Requests,
     Idle, NoJob, Orders, Events


\* Every request a worker turns to is a request, and being idle is one.
LEMMA RequestTyped ==
  /\ Idle \in Requests
  /\ \A o \in Ops \ {"idle"}, c \in Candidates, p \in Profiles \cup {NoProfile} :
       [op |-> o, cand |-> c, profile |-> p] \in Requests
  BY DEF Requests

\* A step that moves one worker and drops no order keeps FoundStays, when
\* what the worker turns to knows of an order by its key.
LEMMA FoundStaysStep ==
  ASSUME TypeOK, FoundStays,
         \A i \in DOMAIN orders : i \in DOMAIN orders' /\ orders'[i] = orders[i],
         NEW w \in Workers, NEW r, tx' = [tx EXCEPT ![w] = r],
         r.op = "approve:found" =>
           \E i \in DOMAIN orders : orders[i].key = <<"approval", r.cand>>
  PROVE  FoundStays'
<1>1. ASSUME NEW v \in Workers, tx'[v].op = "approve:found"
      PROVE  \E i \in DOMAIN orders' : orders'[i].key = <<"approval", tx'[v].cand>>
  <2>1. tx'[v] = IF v = w THEN r ELSE tx[v]
    BY DEF TypeOK
  <2>2. \E i \in DOMAIN orders : orders[i].key = <<"approval", tx'[v].cand>>
    BY <1>1, <2>1 DEF FoundStays
  <2> QED
    BY <2>2
<1> QED
  BY <1>1 DEF FoundStays

\* A worker that serves a request serves it for a candidate.
LEMMA ServedCandidate ==
  ASSUME TypeOK, NEW w \in Workers, tx[w].op # "idle"
  PROVE  tx[w].cand \in Candidates /\ tx[w].profile \in Profiles \cup {NoProfile}
<1>1. tx[w] \in Requests /\ tx[w] # Idle
  BY DEF TypeOK, Idle
<1> QED
  BY <1>1 DEF Requests

\* A decision keeps the candidate rows and the audit log well formed.
LEMMA DecideTyped ==
  ASSUME TypeOK, NEW c \in Candidates, NEW st \in Statuses, NEW ev \in Seq(Events),
         Decide(c, st, ev)
  PROVE  status' \in [Candidates -> Statuses] /\ audit' \in [Candidates -> Seq(Events)]
<1>1. audit[c] \o ev \in Seq(Events)
  BY DEF TypeOK
<1> QED
  BY <1>1 DEF Decide, TypeOK

\* The audit rows each decision writes are events of the log.
LEMMA EventSequences ==
  /\ <<"CREATED", "RISK_CHECKED">> \in Seq(Events)
  /\ <<"CREATED", "RISK_CHECKED", "RISK_REJECTED">> \in Seq(Events)
  /\ <<"APPROVED", "EXECUTED_PAPER">> \in Seq(Events)
  /\ <<"REJECTED">> \in Seq(Events)
  /\ <<"EXPIRED">> \in Seq(Events)
  BY DEF Events

\* Every step keeps rows and transactions well formed: the heart of the
\* type theorem, one step below per action.
LEMMA TypeInvNext == TypeInv /\ [Next]_vars => TypeInv'
<1> SUFFICES ASSUME TypeInv, [Next]_vars PROVE TypeInv'
  OBVIOUS
<1> USE DEF TypeInv
<1>0. /\ TypeOK
      /\ FoundStays
  OBVIOUS
<1>1. ASSUME NEW w \in Workers, NEW c \in Candidates, NEW p \in Profiles,
             CreateEvaluate(w, c, p)
      PROVE  TypeInv'
  <2>1. PICK o \in {"create:passed", "create:failed"} :
          tx' = [tx EXCEPT ![w] = [op |-> o, cand |-> c, profile |-> p]]
    BY <1>1 DEF CreateEvaluate
  <2>2. tx' \in [Workers -> Requests]
    BY <2>1, RequestTyped DEF Ops, TypeOK
  <2>3. TypeOK'
    BY <1>1, <2>2 DEF CreateEvaluate, rows, process, TypeOK
  <2>4. FoundStays'
    BY <1>1, <2>1, FoundStaysStep DEF CreateEvaluate, rows
  <2> QED BY <2>3, <2>4
\* The routes' first reads and the steps that change no row: tx moves, and
\* nothing else.
<1>2. ASSUME NEW w \in Workers, NEW o \in Ops \ {"idle", "approve:found"},
             NEW c \in Candidates, Serve(w, o, c),
             UNCHANGED <<rows, clock, book, job, process>>
      PROVE  TypeInv'
  <2>1. tx' \in [Workers -> Requests]
    BY <1>2, RequestTyped DEF Serve, TypeOK
  <2>2. TypeOK'
    BY <1>2, <2>1 DEF rows, clock, process, TypeOK
  <2>3. UNCHANGED orders
    BY <1>2 DEF rows
  <2> DEFINE r == [op |-> o, cand |-> c, profile |-> NoProfile]
  <2>4. tx' = [tx EXCEPT ![w] = r]
    BY <1>2 DEF Serve
  <2>6. r.op # "approve:found"
    OBVIOUS
  <2> HIDE DEF r
  <2>5. FoundStays'
    BY <1>0, <2>3, <2>4, <2>6, FoundStaysStep
  <2> QED BY <2>2, <2>5
<1>3. ASSUME NEW w \in Workers, Finish(w),
             UNCHANGED <<rows, clock, book, job, process>>
      PROVE  TypeInv'
  <2>1. tx' \in [Workers -> Requests]
    BY <1>3, RequestTyped DEF Finish, TypeOK
  <2>2. TypeOK'
    BY <1>3, <2>1 DEF rows, clock, process, TypeOK
  <2>3. UNCHANGED orders
    BY <1>3 DEF rows
  <2>4. tx' = [tx EXCEPT ![w] = Idle] /\ Idle.op # "approve:found"
    BY <1>3 DEF Finish, Idle
  <2>5. FoundStays'
    BY <1>0, <2>3, <2>4, FoundStaysStep
  <2> QED BY <2>2, <2>5
\* The decisions: one candidate's row and audit log, the orders, and tx.
<1>4. ASSUME NEW w \in Workers, tx[w].op # "idle",
             NEW st \in Statuses, NEW ev \in Seq(Events), Decide(tx[w].cand, st, ev),
             Finish(w), profile' \in [Candidates -> Profiles \cup {NoProfile}],
             link' \in [Candidates -> Nat], orders' \in Seq(Orders),
             \A i \in DOMAIN orders : i \in DOMAIN orders' /\ orders'[i] = orders[i],
             UNCHANGED <<clock, book, job, process>>
      PROVE  TypeInv'
  <2>1. tx' \in [Workers -> Requests]
    BY <1>4, RequestTyped DEF Finish, TypeOK
  <2>2. TypeOK'
    BY <1>4, <2>1, DecideTyped, ServedCandidate DEF clock, process, TypeOK
  <2>3. tx' = [tx EXCEPT ![w] = Idle] /\ Idle.op # "approve:found"
    BY <1>4 DEF Finish, Idle
  <2>4. FoundStays'
    BY <1>0, <1>4, <2>3, FoundStaysStep
  <2> QED BY <2>2, <2>4
<1>5. ASSUME NEW w \in Workers, CreateAccepted(w) PROVE TypeInv'
  <2>1. profile' \in [Candidates -> Profiles \cup {NoProfile}]
    BY <1>5, ServedCandidate DEF CreateAccepted, TypeOK
  <2> QED
    BY <1>4, <1>5, <2>1, EventSequences DEF CreateAccepted, TypeOK, Statuses
<1>6. ASSUME NEW w \in Workers, CreateRiskRejected(w) PROVE TypeInv'
  <2>1. profile' \in [Candidates -> Profiles \cup {NoProfile}]
    BY <1>6, ServedCandidate DEF CreateRiskRejected, TypeOK
  <2> QED
    BY <1>4, <1>6, <2>1, EventSequences DEF CreateRiskRejected, TypeOK, Statuses
<1>7. ASSUME NEW w \in Workers, RejectCommit(w) PROVE TypeInv'
  BY <1>4, <1>7, EventSequences DEF RejectCommit, TypeOK, Statuses
<1>8. ASSUME NEW w \in Workers, ExpireCommit(w) PROVE TypeInv'
  BY <1>4, <1>8, EventSequences DEF ExpireCommit, TypeOK, Statuses
<1>9. ASSUME NEW w \in Workers, ApproveCommit(w) PROVE TypeInv'
  <2> DEFINE c == tx[w].cand
             key == IdempotencyKey(w, c)
  <2>1. c \in Candidates /\ tx[w].op # "idle"
    BY <1>9, ServedCandidate DEF ApproveCommit
  <2>2. CASE tx[w].op = "approve:found"
    <3>1. OrdersWithKey(key) # {}
      BY <2>2 DEF FoundStays, OrdersWithKey, IdempotencyKey
    <3>2. (CHOOSE i \in OrdersWithKey(key) : TRUE) \in DOMAIN orders
      BY <3>1 DEF OrdersWithKey
    <3>3. DOMAIN orders \subseteq Nat
      BY DEF TypeOK
    <3>4. /\ link' = [link EXCEPT ![c] = CHOOSE i \in OrdersWithKey(key) : TRUE]
          /\ UNCHANGED orders
      BY <1>9, <2>2 DEF ApproveCommit
    <3>5. link' \in [Candidates -> Nat]
      BY <3>2, <3>3, <3>4 DEF TypeOK
    <3> QED
      BY <1>4, <1>9, <2>1, <3>4, <3>5, EventSequences DEF ApproveCommit, TypeOK, Statuses
  <2>3. CASE tx[w].op = "approve:ordered"
    <3> DEFINE o == [key |-> key, cand |-> c]
    <3>1. /\ link' = [link EXCEPT ![c] = Len(orders) + 1]
          /\ orders' = Append(orders, o)
      BY <1>9, <2>3 DEF ApproveCommit
    <3>2. o \in Orders
      BY <2>1 DEF Orders, IdempotencyKey
    <3>3. /\ link' \in [Candidates -> Nat]
          /\ orders' \in Seq(Orders)
          /\ \A i \in DOMAIN orders : i \in DOMAIN orders' /\ orders'[i] = orders[i]
      <4> HIDE DEF o, key
      <4>1. orders \in Seq(Orders) /\ link \in [Candidates -> Nat]
        BY DEF TypeOK
      <4>2. link' \in [Candidates -> Nat]
        <5>1. Len(orders) + 1 \in Nat
          BY <4>1
        <5> QED BY <3>1, <4>1, <5>1
      <4>3. orders' \in Seq(Orders)
        BY <3>1, <3>2, <4>1
      <4>4. \A i \in DOMAIN orders : i \in DOMAIN orders' /\ orders'[i] = orders[i]
        BY <3>1, <3>2, <4>1
      <4> QED
        BY <4>2, <4>3, <4>4
    <3> QED
      BY <1>4, <1>9, <2>1, <3>3, EventSequences DEF ApproveCommit, TypeOK, Statuses
  <2> QED
    BY <1>9, <2>2, <2>3 DEF ApproveCommit
<1>10. ASSUME NEW w \in Workers, ApproveSubmit(w) PROVE TypeInv'
  <2> DEFINE c == tx[w].cand
             r == [op |-> "approve:found", cand |-> c, profile |-> NoProfile]
  <2>1. c \in Candidates
    BY <1>10, ServedCandidate DEF ApproveSubmit
  <2>2. CASE OrdersWithKey(IdempotencyKey(w, c)) # {}
    <3>1. tx' = [tx EXCEPT ![w] = r] /\ UNCHANGED orders
      BY <1>10, <2>2 DEF ApproveSubmit, Serve, rows
    <3>2. \E i \in DOMAIN orders : orders[i].key = <<"approval", r.cand>>
      BY <2>2 DEF OrdersWithKey, IdempotencyKey
    <3>3. FoundStays'
      <4> HIDE DEF r
      <4> QED BY <1>0, <3>1, <3>2, FoundStaysStep
    <3>4. r \in Requests
      BY <2>1, RequestTyped DEF Ops
    <3>5. TypeOK'
      <4> HIDE DEF r
      <4> QED BY <1>10, <3>1, <3>4 DEF ApproveSubmit, rows, clock, process, TypeOK
    <3> QED BY <3>3, <3>5
  <2>3. CASE OrdersWithKey(IdempotencyKey(w, c)) = {}
    BY <1>2, <1>10, <2>1, <2>3 DEF ApproveSubmit, Ops
  <2> QED BY <2>2, <2>3
<1>11. ASSUME NEW w \in Workers, Proceed(w) \/ TakeLock(w) PROVE TypeInv'
  <2>1. CASE ApproveRecheck(w)
    BY <1>2, <2>1, ServedCandidate DEF ApproveRecheck, Ops
  <2>2. CASE ApproveFlush(w)
    BY <1>2, <2>2, ServedCandidate DEF ApproveFlush, Ops
  <2>3. CASE ApproveDenyFlush(w)
    BY <1>2, <2>3, ServedCandidate DEF ApproveDenyFlush, Ops
  <2>4. CASE ApproveDeny(w) \/ ApproveSubmitRefused(w)
    BY <1>3, <2>4 DEF ApproveDeny, ApproveSubmitRefused
  <2> QED
    BY <1>5, <1>6, <1>7, <1>8, <1>9, <1>10, <1>11, <2>1, <2>2, <2>3, <2>4
    DEF Proceed, TakeLock
<1>12. ASSUME NEW w \in Workers, Request(w) PROVE TypeInv'
  <2>1. PICK c \in Candidates :
          \/ \E p \in Profiles : CreateEvaluate(w, c, p)
          \/ ApproveLoad(w, c) \/ RejectLoad(w, c) \/ ExpireLoad(w, c)
    BY <1>12 DEF Request
  <2>2. CASE ApproveLoad(w, c) \/ RejectLoad(w, c) \/ ExpireLoad(w, c)
    BY <1>2, <2>2 DEF ApproveLoad, RejectLoad, ExpireLoad, Ops
  <2> QED BY <1>1, <2>1, <2>2
\* The job and the environment leave tx and the orders alone, but for Restart.
<1>13. ASSUME ExpireJob PROVE TypeInv'
  <2>1. UNCHANGED <<tx, orders, link, profile, clock, book, process>>
    BY <1>13 DEF ExpireJob, JobStart, JobExpire, JobCommit, rows
  <2>2. FoundStays'
    BY <2>1 DEF FoundStays
  <2>3. job' \in [running : BOOLEAN, todo : SUBSET Candidates, done : SUBSET Candidates]
    <3>1. CASE JobStart
      BY <3>1 DEF JobStart, Lowest, ExpiredPending
    <3>2. ASSUME NEW c \in Candidates, JobExpire(c)
          PROVE  job' \in [running : BOOLEAN, todo : SUBSET Candidates, done : SUBSET Candidates]
      BY <3>2 DEF JobExpire, TypeOK
    <3>3. CASE JobCommit
      BY <3>3 DEF JobCommit, NoJob
    <3> QED BY <1>13, <3>1, <3>2, <3>3 DEF ExpireJob
  <2>4. /\ status' \in [Candidates -> Statuses]
        /\ audit' \in [Candidates -> Seq(Events)]
    <3>1. CASE JobCommit
      BY <3>1 DEF JobCommit, TypeOK, Statuses, Events
    <3>2. CASE JobStart \/ \E c \in Candidates : JobExpire(c)
      BY <3>2 DEF JobStart, JobExpire, rows, TypeOK
    <3> QED BY <1>13, <3>1, <3>2 DEF ExpireJob
  <2> QED
    BY <2>1, <2>2, <2>3, <2>4 DEF clock, process, TypeOK
<1>14. ASSUME Environment PROVE TypeInv'
  <2>1. CASE Restart
    <3>1. /\ tx' = [w \in Workers |-> Idle]
          /\ UNCHANGED <<rows, clock, book, deployment>>
          /\ job' = NoJob /\ switches' \in Switches /\ restarts' \in 0 .. MaxRestarts
      BY <2>1, WorkflowConstants DEF Restart, TypeOK
    <3>2. FoundStays'
      BY <3>1 DEF FoundStays, Idle
    <3>3. TypeOK'
      BY <3>1, RequestTyped DEF rows, clock, NoJob, TypeOK
    <3> QED BY <3>2, <3>3
  <2>2. CASE ~Restart
    <3>1. UNCHANGED <<rows, tx, job, process>>
      BY <1>14, <2>2 DEF Environment, WindowPasses, TtlPasses, Midnight, BookMoves, clock
    <3>2. FoundStays'
      BY <3>1 DEF FoundStays, rows
    <3>3. /\ recent' \subseteq Candidates /\ today' \subseteq Candidates
          /\ overdue' \subseteq Candidates /\ book' \in [Accounts -> Books]
      BY <1>14, <2>2 DEF Environment, WindowPasses, TtlPasses, Midnight, BookMoves,
         clock, TypeOK
    <3> QED BY <3>1, <3>2, <3>3 DEF rows, process, TypeOK
  <2> QED BY <2>1, <2>2
<1>15. CASE UNCHANGED vars
  BY <1>15 DEF vars, rows, clock, process, TypeOK, FoundStays
<1> QED
  BY <1>11, <1>12, <1>13, <1>14, <1>15 DEF Next

(***************************************************************************)
(* Committed rows and transactions are well formed, always: in particular  *)
(* no committed candidate is DRAFT, RISK_CHECKING or APPROVED, and what a  *)
(* candidate is linked to is an order id.                                  *)
(***************************************************************************)
THEOREM TypeCorrect == Spec => []TypeOK
<1>1. TypeInv => TypeOK
  BY DEF TypeInv
<1> QED
  BY <1>1, TypeInvInit, TypeInvNext, PTL DEF Spec

----
\* No order, no lock: the order invariant holds initially.
LEMMA OrderInvariantInit == Init => OrderInvariant
  BY DEF Init, Idle, OrderInvariant, RowLocksExclude, KeysNameCandidates,
     LookupsStayTrue, OneOrderPerCandidate, Locking

\* A step of one worker that touches neither links nor orders nor the job.
\* It may take a lock on a free row and keep one it has, and it may learn
\* about the orders what is true of them.
LEMMA QuietStep ==
  ASSUME TypeOK, OrderInvariant, UNCHANGED <<link, orders, job>>,
         \A c \in Candidates : status'[c] = "EXECUTED_PAPER" => status[c] = "EXECUTED_PAPER",
         NEW w \in Workers, NEW r, tx' = [tx EXCEPT ![w] = r],
         r.op \in Locking =>
           \/ RowFree(r.cand)
           \/ tx[w].op \in Locking /\ tx[w].cand = r.cand,
         r.op = "approve:ordered" => \A i \in DOMAIN orders : orders[i].cand # r.cand,
         r.op = "approve:found" => \E i \in DOMAIN orders : orders[i].cand = r.cand
  PROVE  OrderInvariant'
<1>1. \A v \in Workers : tx'[v] = IF v = w THEN r ELSE tx[v]
  BY DEF TypeOK
<1>2. RowLocksExclude'
  <2>1. ASSUME NEW u \in Workers, NEW v \in Workers,
               tx'[u].op \in Locking, tx'[v].op \in Locking, tx'[v].cand = tx'[u].cand
        PROVE  v = u
    BY <1>1, <2>1 DEF OrderInvariant, RowLocksExclude, RowFree
  <2>2. ASSUME NEW u \in Workers, tx'[u].op \in Locking
        PROVE  tx'[u].cand \notin job'.done
    BY <1>1, <2>2 DEF OrderInvariant, RowLocksExclude, RowFree
  <2> QED
    BY <2>1, <2>2 DEF RowLocksExclude, Locking
<1>3. KeysNameCandidates'
  BY DEF OrderInvariant, KeysNameCandidates
<1>4. LookupsStayTrue'
  <2>1. ASSUME NEW u \in Workers, tx'[u].op = "approve:ordered"
        PROVE  \A i \in DOMAIN orders' : orders'[i].cand # tx'[u].cand
    BY <1>1, <2>1 DEF OrderInvariant, LookupsStayTrue
  <2>2. ASSUME NEW u \in Workers, tx'[u].op = "approve:found"
        PROVE  \E i \in DOMAIN orders' : orders'[i].cand = tx'[u].cand
    BY <1>1, <2>2 DEF OrderInvariant, LookupsStayTrue
  <2> QED
    BY <2>1, <2>2 DEF LookupsStayTrue
<1>5. OneOrderPerCandidate'
  BY DEF OrderInvariant, OneOrderPerCandidate
<1> QED
  BY <1>2, <1>3, <1>4, <1>5 DEF OrderInvariant

\* The commit of an approval: the only step that links and orders.
LEMMA ApproveCommitStep ==
  ASSUME TypeOK, OrderInvariant, NEW w \in Workers, ApproveCommit(w)
  PROVE  OrderInvariant'
<1> DEFINE c == tx[w].cand
           key == IdempotencyKey(w, c)
<1>1. /\ tx[w].op \in {"approve:found", "approve:ordered"}
      /\ tx[w].op \in Locking
      /\ c \in Candidates
  BY ServedCandidate DEF ApproveCommit, Locking
<1>2. /\ \A v \in Workers : tx'[v] = IF v = w THEN Idle ELSE tx[v]
      /\ job' = job
      /\ \A d \in Candidates : d # c => status'[d] = status[d]
      /\ "idle" \notin Locking
  BY DEF ApproveCommit, Finish, Decide, TypeOK, Locking
<1>3. \A v \in Workers : tx'[v].op \in Locking => v # w /\ tx'[v] = tx[v]
  BY <1>2 DEF Idle
<1>4. \A v \in Workers : tx'[v].op \in Locking => tx'[v].cand # c
  BY <1>1, <1>3 DEF OrderInvariant, RowLocksExclude
<1>5. RowLocksExclude'
  <2>1. ASSUME NEW u \in Workers, NEW v \in Workers,
               tx'[u].op \in Locking, tx'[v].op \in Locking, tx'[v].cand = tx'[u].cand
        PROVE  v = u
    BY <1>3, <2>1 DEF OrderInvariant, RowLocksExclude
  <2>2. ASSUME NEW u \in Workers, tx'[u].op \in Locking
        PROVE  tx'[u].cand \notin job'.done
    BY <1>2, <1>3, <2>2 DEF OrderInvariant, RowLocksExclude
  <2> QED
    BY <2>1, <2>2 DEF RowLocksExclude, Locking
<1>6. CASE tx[w].op = "approve:found"
  <2>1. /\ link' = [link EXCEPT ![c] = CHOOSE i \in OrdersWithKey(key) : TRUE]
        /\ UNCHANGED orders
    BY <1>6 DEF ApproveCommit
  <2>2. PICK k \in DOMAIN orders : orders[k].cand = c
    BY <1>6 DEF OrderInvariant, LookupsStayTrue
  <2>3. \A i \in DOMAIN orders : i \in OrdersWithKey(key) <=> orders[i].cand = c
    BY DEF OrderInvariant, KeysNameCandidates, OrdersWithKey, IdempotencyKey
  <2>4. \A i \in DOMAIN orders : orders[i].cand = c => i = link[c]
    BY DEF OrderInvariant, OneOrderPerCandidate
  <2>5. (CHOOSE i \in OrdersWithKey(key) : TRUE) = link[c]
    <3>1. OrdersWithKey(key) \subseteq DOMAIN orders
      BY DEF OrdersWithKey
    <3>2. k \in OrdersWithKey(key)
      BY <2>2, <2>3
    <3>3. (CHOOSE i \in OrdersWithKey(key) : TRUE) \in OrdersWithKey(key)
      BY <3>2
    <3> HIDE DEF key
    <3> QED BY <2>3, <2>4, <3>1, <3>3
  <2>6. link' = link
    BY <2>1, <2>5 DEF TypeOK
  <2>7. link[c] = k
    BY <2>2, <2>4
  <2>8. OneOrderPerCandidate'
    BY <1>2, <2>1, <2>2, <2>6, <2>7 DEF OrderInvariant, OneOrderPerCandidate
  <2>9. KeysNameCandidates'
    BY <2>1 DEF OrderInvariant, KeysNameCandidates
  <2>10. LookupsStayTrue'
    BY <1>3, <2>1 DEF OrderInvariant, LookupsStayTrue, Locking
  <2> QED BY <1>5, <2>8, <2>9, <2>10 DEF OrderInvariant
<1>7. CASE tx[w].op = "approve:ordered"
  <2> DEFINE o == [key |-> key, cand |-> c]
             n == Len(orders)
  <2>1. /\ link' = [link EXCEPT ![c] = n + 1]
        /\ orders' = Append(orders, o)
    BY <1>7 DEF ApproveCommit
  <2>2. /\ n \in Nat
        /\ DOMAIN orders = 1 .. n
        /\ DOMAIN orders' = 1 .. n + 1
        /\ \A i \in 1 .. n : orders'[i] = orders[i]
        /\ orders'[n + 1] = o
    <3> HIDE DEF o
    <3>1. orders \in Seq(Orders)
      BY DEF TypeOK
    <3> QED BY <2>1, <3>1
  <2>3. o.cand = c /\ o.key = <<"approval", c>>
    BY DEF IdempotencyKey
  <2>4. \A i \in DOMAIN orders : orders[i].cand # c
    BY <1>7 DEF OrderInvariant, LookupsStayTrue
  <2> HIDE DEF o, n, c
  <2>5. KeysNameCandidates'
    BY <2>2, <2>3 DEF OrderInvariant, KeysNameCandidates
  <2>6. /\ link'[c] = n + 1
        /\ \A d \in Candidates : d # c => link'[d] = link[d]
    BY <1>1, <2>1 DEF TypeOK
  <2>7. \A i \in DOMAIN orders : orders[i].cand \in Candidates
    <3>1. orders \in Seq(Orders)
      BY DEF TypeOK
    <3>2. \A i \in DOMAIN orders : orders[i] \in Orders
      BY <3>1
    <3> QED BY <3>2 DEF Orders
  <2>8. \A i \in DOMAIN orders' : link'[orders'[i].cand] = i
    BY <2>2, <2>3, <2>4, <2>6, <2>7 DEF OrderInvariant, OneOrderPerCandidate
  <2>9. ASSUME NEW d \in Candidates, status'[d] = "EXECUTED_PAPER"
        PROVE  link'[d] \in DOMAIN orders' /\ orders'[link'[d]].cand = d
    <3>1. CASE d = c
      BY <2>2, <2>3, <2>6, <3>1
    <3>2. CASE d # c
      <4>1. status[d] = "EXECUTED_PAPER"
        BY <1>2, <2>9, <3>2
      <4>2. link[d] \in DOMAIN orders /\ orders[link[d]].cand = d
        BY <4>1 DEF OrderInvariant, OneOrderPerCandidate
      <4> QED BY <2>2, <2>6, <3>2, <4>2
    <3> QED BY <3>1, <3>2
  <2>10. OneOrderPerCandidate'
    BY <2>8, <2>9 DEF OneOrderPerCandidate
  <2>11. LookupsStayTrue'
    <3>1. ASSUME NEW v \in Workers, tx'[v].op = "approve:ordered"
          PROVE  \A i \in DOMAIN orders' : orders'[i].cand # tx'[v].cand
      BY <1>3, <1>4, <2>2, <2>3, <3>1 DEF OrderInvariant, LookupsStayTrue, Locking
    <3>2. ASSUME NEW v \in Workers, tx'[v].op = "approve:found"
          PROVE  \E i \in DOMAIN orders' : orders'[i].cand = tx'[v].cand
      <4>1. tx'[v] = tx[v]
        BY <1>3, <3>2 DEF Locking
      <4>2. PICK i \in DOMAIN orders : orders[i].cand = tx[v].cand
        BY <3>2, <4>1 DEF OrderInvariant, LookupsStayTrue
      <4> QED BY <2>2, <4>1, <4>2
    <3> QED BY <3>1, <3>2 DEF LookupsStayTrue
  <2> QED BY <1>5, <2>5, <2>10, <2>11 DEF OrderInvariant
<1> QED
  BY <1>1, <1>6, <1>7

\* Every step keeps the four parts of the order invariant together: none is
\* inductive without the others.
LEMMA OrderInvariantNext == TypeOK /\ OrderInvariant /\ [Next]_vars => OrderInvariant'
<1> SUFFICES ASSUME TypeOK, OrderInvariant, [Next]_vars PROVE OrderInvariant'
  OBVIOUS
\* Requests that start, and steps that only move the worker.
<1>1. ASSUME NEW w \in Workers, NEW c \in Candidates, NEW p \in Profiles,
             CreateEvaluate(w, c, p)
      PROVE  OrderInvariant'
  <2>1. PICK o \in {"create:passed", "create:failed"} :
          tx' = [tx EXCEPT ![w] = [op |-> o, cand |-> c, profile |-> p]]
    BY <1>1 DEF CreateEvaluate
  <2> DEFINE r == [op |-> o, cand |-> c, profile |-> p]
  <2>2. r.op \notin Locking /\ r.op # "approve:ordered" /\ r.op # "approve:found"
    BY DEF Locking
  <2>3. UNCHANGED <<status, link, orders, job>>
    BY <1>1 DEF CreateEvaluate, rows
  <2>4. tx' = [tx EXCEPT ![w] = r]
    BY <2>1
  <2> HIDE DEF r
  <2> QED BY <2>2, <2>3, <2>4, QuietStep
<1>2. ASSUME NEW w \in Workers, NEW o \in Ops, NEW c \in Candidates, Serve(w, o, c),
             UNCHANGED <<rows, job>>,
             o \in Locking => \/ RowFree(c)
                              \/ tx[w].op \in Locking /\ tx[w].cand = c,
             o = "approve:ordered" => \A i \in DOMAIN orders : orders[i].cand # c,
             o = "approve:found" => \E i \in DOMAIN orders : orders[i].cand = c
      PROVE  OrderInvariant'
  <2> DEFINE r == [op |-> o, cand |-> c, profile |-> NoProfile]
  <2>1. tx' = [tx EXCEPT ![w] = r]
    BY <1>2 DEF Serve
  <2>2. UNCHANGED <<status, link, orders, job>>
    BY <1>2 DEF rows
  <2>3. r.op = o /\ r.cand = c
    OBVIOUS
  <2> HIDE DEF r
  <2> QED BY <1>2, <2>1, <2>2, <2>3, QuietStep
\* Requests that end without an order: a decision, or nothing.
<1>3. ASSUME NEW w \in Workers, Finish(w), UNCHANGED <<link, orders, job>>,
             \A c \in Candidates :
               status'[c] = "EXECUTED_PAPER" => status[c] = "EXECUTED_PAPER"
      PROVE  OrderInvariant'
  <2> DEFINE r == Idle
  <2>1. tx' = [tx EXCEPT ![w] = r]
    BY <1>3 DEF Finish
  <2>2. r.op \notin Locking /\ r.op # "approve:ordered" /\ r.op # "approve:found"
    BY DEF Idle, Locking
  <2> HIDE DEF r
  <2> QED BY <1>3, <2>1, <2>2, QuietStep
<1>4. ASSUME NEW w \in Workers, Request(w) PROVE OrderInvariant'
  <2>1. PICK c \in Candidates :
          \/ \E p \in Profiles : CreateEvaluate(w, c, p)
          \/ ApproveLoad(w, c) \/ RejectLoad(w, c) \/ ExpireLoad(w, c)
    BY <1>4 DEF Request
  <2>2. CASE ApproveLoad(w, c) \/ RejectLoad(w, c) \/ ExpireLoad(w, c)
    BY <1>2, <2>2 DEF ApproveLoad, RejectLoad, ExpireLoad, Ops, Locking
  <2> QED BY <1>1, <2>1, <2>2
<1>5. ASSUME NEW w \in Workers, ApproveSubmit(w) PROVE OrderInvariant'
  <2> DEFINE c == tx[w].cand
  <2>1. c \in Candidates /\ tx[w].op \in Locking
    BY <1>5, ServedCandidate DEF ApproveSubmit, Locking
  <2>2. \A i \in DOMAIN orders :
          i \in OrdersWithKey(IdempotencyKey(w, c)) <=> orders[i].cand = c
    BY DEF OrderInvariant, KeysNameCandidates, OrdersWithKey, IdempotencyKey
  <2>3. OrdersWithKey(IdempotencyKey(w, c)) \subseteq DOMAIN orders
    BY DEF OrdersWithKey
  <2>4. UNCHANGED <<rows, job>>
    BY <1>5 DEF ApproveSubmit
  <2>5. CASE OrdersWithKey(IdempotencyKey(w, c)) # {}
    <3>1. Serve(w, "approve:found", c)
      BY <1>5, <2>5 DEF ApproveSubmit
    <3>2. \E i \in DOMAIN orders : orders[i].cand = c
      BY <2>2, <2>3, <2>5
    <3> QED BY <1>2, <2>1, <2>4, <3>1, <3>2 DEF Ops
  <2>6. CASE OrdersWithKey(IdempotencyKey(w, c)) = {}
    <3>1. Serve(w, "approve:ordered", c)
      BY <1>5, <2>6 DEF ApproveSubmit
    <3>2. \A i \in DOMAIN orders : orders[i].cand # c
      BY <2>2, <2>6
    <3> QED BY <1>2, <2>1, <2>4, <3>1, <3>2 DEF Ops
  <2> QED BY <2>5, <2>6
<1>6. ASSUME NEW w \in Workers, Proceed(w) \/ TakeLock(w) PROVE OrderInvariant'
  <2>1. CASE CreateAccepted(w) \/ CreateRiskRejected(w) \/ RejectCommit(w) \/ ExpireCommit(w)
    BY <1>3, <2>1 DEF CreateAccepted, CreateRiskRejected, RejectCommit, ExpireCommit,
       Decide, TypeOK
  <2>2. CASE ApproveDeny(w) \/ ApproveSubmitRefused(w)
    BY <1>3, <2>2 DEF ApproveDeny, ApproveSubmitRefused, rows
  <2>3. CASE ApproveRecheck(w)
    BY <1>2, <2>3, ServedCandidate DEF ApproveRecheck, Ops, Locking
  <2>4. CASE ApproveFlush(w)
    BY <1>2, <2>4, ServedCandidate DEF ApproveFlush, Ops
  <2>5. CASE ApproveDenyFlush(w)
    BY <1>2, <2>5, ServedCandidate DEF ApproveDenyFlush, Ops
  <2> QED
    BY <1>5, <1>6, <2>1, <2>2, <2>3, <2>4, <2>5, ApproveCommitStep DEF Proceed, TakeLock
\* The job: it locks free rows only, and executes nothing.
<1>7. ASSUME ExpireJob PROVE OrderInvariant'
  <2>1. /\ UNCHANGED <<tx, link, orders>>
        /\ \A c \in Candidates :
             status'[c] = "EXECUTED_PAPER" => status[c] = "EXECUTED_PAPER"
    BY <1>7 DEF ExpireJob, JobStart, JobExpire, JobCommit, rows
  <2>2. \A w \in Workers : tx[w].op \in Locking => tx[w].cand \notin job'.done
    <3>1. CASE JobStart \/ JobCommit
      BY <3>1 DEF JobStart, JobCommit, NoJob
    <3>2. ASSUME NEW c \in Candidates, JobExpire(c)
          PROVE  \A w \in Workers : tx[w].op \in Locking => tx[w].cand \notin job'.done
      <4>1. job'.done = job.done \cup {c}
        BY <3>2 DEF JobExpire, TypeOK
      <4>2. \A w \in Workers : ~(tx[w].op \in Locking /\ tx[w].cand = c)
        BY <3>2 DEF JobExpire, RowFree
      <4> QED BY <4>1, <4>2 DEF OrderInvariant, RowLocksExclude
    <3> QED BY <1>7, <3>1, <3>2 DEF ExpireJob
  <2>3. RowLocksExclude'
    BY <2>1, <2>2 DEF OrderInvariant, RowLocksExclude, Locking
  <2>4. KeysNameCandidates' /\ LookupsStayTrue' /\ OneOrderPerCandidate'
    BY <2>1 DEF OrderInvariant, KeysNameCandidates, LookupsStayTrue, OneOrderPerCandidate
  <2> QED BY <2>3, <2>4 DEF OrderInvariant
<1>8. ASSUME Environment PROVE OrderInvariant'
  <2>1. CASE Restart
    BY <2>1 DEF Restart, Idle, NoJob, rows, OrderInvariant, RowLocksExclude,
       KeysNameCandidates, LookupsStayTrue, OneOrderPerCandidate, Locking
  <2>2. CASE ~Restart
    <3>1. UNCHANGED <<rows, tx, job>>
      BY <1>8, <2>2 DEF Environment, WindowPasses, TtlPasses, Midnight, BookMoves
    <3> QED
      BY <3>1 DEF rows, OrderInvariant, RowLocksExclude, KeysNameCandidates,
         LookupsStayTrue, OneOrderPerCandidate, Locking
  <2> QED BY <2>1, <2>2
<1>9. CASE UNCHANGED vars
  BY <1>9 DEF vars, rows, OrderInvariant, RowLocksExclude, KeysNameCandidates,
     LookupsStayTrue, OneOrderPerCandidate, Locking
<1> QED
  BY <1>4, <1>6, <1>7, <1>8, <1>9 DEF Next

(***************************************************************************)
(* No candidate is ever ordered twice and no order is ever orphaned: every *)
(* virtual order is the one its candidate links to, and an executed        *)
(* candidate has one, through any race of approvals and any restart.       *)
(***************************************************************************)
THEOREM OrdersAreUnique == Spec => []OrderInvariant
  BY TypeCorrect, OrderInvariantInit, OrderInvariantNext, PTL DEF Spec

\* The part of it a reader of the code wants: at most one paper order per
\* candidate, and the one an executed candidate is linked to.
THEOREM OneOrder == Spec => []OneOrderPerCandidate
<1>1. OrderInvariant => OneOrderPerCandidate
  BY DEF OrderInvariant
<1> QED
  BY <1>1, OrdersAreUnique, PTL

----
\* A decision that logs its events explains the status it gives.
LEMMA DecideExplains ==
  ASSUME TypeOK, AuditExplainsStatus, NEW c \in Candidates, NEW st, NEW ev \in Seq(Events),
         Decide(c, st, ev), ev # <<>>, StatusAfter(ev) = st
  PROVE  AuditExplainsStatus'
<1>1. \A d \in Candidates : d # c => status'[d] = status[d] /\ audit'[d] = audit[d]
  BY DEF Decide, TypeOK
<1>2. status'[c] = st /\ audit'[c] = audit[c] \o ev
  BY DEF Decide, TypeOK
<1>3. audit[c] \in Seq(Events)
  BY DEF TypeOK
<1>4. /\ audit'[c] # <<>>
      /\ audit'[c][Len(audit'[c])] = ev[Len(ev)]
  BY <1>2, <1>3
<1>5. StatusAfter(audit'[c]) = StatusAfter(ev)
  BY <1>4 DEF StatusAfter
<1> QED
  BY <1>1, <1>2, <1>5 DEF AuditExplainsStatus

\* Every step that moves a status writes the audit row that explains it.
LEMMA AuditNext == TypeOK /\ AuditExplainsStatus /\ [Next]_vars => AuditExplainsStatus'
<1> SUFFICES ASSUME TypeOK, AuditExplainsStatus, [Next]_vars PROVE AuditExplainsStatus'
  OBVIOUS
<1>1. CASE UNCHANGED <<status, audit>>
  BY <1>1 DEF AuditExplainsStatus
<1>2. /\ StatusAfter(<<"CREATED", "RISK_CHECKED">>) = "PENDING_APPROVAL"
      /\ StatusAfter(<<"CREATED", "RISK_CHECKED", "RISK_REJECTED">>) = "RISK_REJECTED"
      /\ StatusAfter(<<"APPROVED", "EXECUTED_PAPER">>) = "EXECUTED_PAPER"
      /\ StatusAfter(<<"REJECTED">>) = "REJECTED"
      /\ StatusAfter(<<"EXPIRED">>) = "EXPIRED"
  BY DEF StatusAfter
<1>3. ASSUME NEW w \in Workers, Proceed(w) \/ TakeLock(w) PROVE AuditExplainsStatus'
  <2>1. CASE CreateAccepted(w)
    BY <1>2, <2>1, ServedCandidate, EventSequences, DecideExplains DEF CreateAccepted
  <2>2. CASE CreateRiskRejected(w)
    BY <1>2, <2>2, ServedCandidate, EventSequences, DecideExplains DEF CreateRiskRejected
  <2>3. CASE ApproveCommit(w)
    BY <1>2, <2>3, ServedCandidate, EventSequences, DecideExplains DEF ApproveCommit
  <2>4. CASE RejectCommit(w)
    BY <1>2, <2>4, ServedCandidate, EventSequences, DecideExplains DEF RejectCommit
  <2>5. CASE ExpireCommit(w)
    BY <1>2, <2>5, ServedCandidate, EventSequences, DecideExplains DEF ExpireCommit
  <2>6. CASE \/ ApproveRecheck(w) \/ ApproveDeny(w) \/ ApproveSubmit(w)
             \/ ApproveSubmitRefused(w) \/ ApproveFlush(w) \/ ApproveDenyFlush(w)
    BY <1>1, <2>6 DEF ApproveRecheck, ApproveDeny, ApproveSubmit, ApproveSubmitRefused,
       ApproveFlush, ApproveDenyFlush, rows
  <2> QED BY <1>3, <2>1, <2>2, <2>3, <2>4, <2>5, <2>6 DEF Proceed, TakeLock
<1>4. CASE JobCommit
  <2>1. ASSUME NEW c \in Candidates PROVE status'[c] = StatusAfter(audit'[c])
    <3>1. CASE c \in job.done
      <4>1. status'[c] = "EXPIRED" /\ audit'[c] = Append(audit[c], "EXPIRED")
        BY <1>4, <3>1 DEF JobCommit
      <4>2. audit[c] \in Seq(Events) /\ "EXPIRED" \in Events
        BY DEF TypeOK, Events
      <4>3. audit'[c] # <<>> /\ audit'[c][Len(audit'[c])] = "EXPIRED"
        BY <4>1, <4>2
      <4> QED BY <4>1, <4>3 DEF StatusAfter
    <3>2. CASE c \notin job.done
      BY <1>4, <3>2 DEF JobCommit, AuditExplainsStatus
    <3> QED BY <3>1, <3>2
  <2> QED BY <2>1 DEF AuditExplainsStatus
<1>5. CASE JobStart \/ \E c \in Candidates : JobExpire(c)
  BY <1>1, <1>5 DEF JobStart, JobExpire, rows
<1>6. CASE \E w \in Workers : Request(w)
  BY <1>1, <1>6 DEF Request, CreateEvaluate, ApproveLoad, RejectLoad, ExpireLoad, rows
<1>7. CASE Environment \/ UNCHANGED vars
  BY <1>1, <1>7 DEF Environment, WindowPasses, TtlPasses, Midnight, BookMoves, Restart,
     vars, rows
<1> QED
  BY <1>3, <1>4, <1>5, <1>6, <1>7 DEF Next, ExpireJob

(***************************************************************************)
(* The last audit row of a candidate tells its status: every transaction   *)
(* that commits one commits the other, whatever it overwrites.             *)
(***************************************************************************)
THEOREM AuditIsComplete == Spec => []AuditExplainsStatus
<1>1. Init => AuditExplainsStatus
  BY DEF Init, AuditExplainsStatus, StatusAfter
<1> QED
  BY <1>1, TypeCorrect, AuditNext, PTL DEF Spec

----
(***************************************************************************)
(* Settled candidates.  Whoever may write a candidate's row either is in   *)
(* flight for it, or turns to it because it is absent or pending.          *)
(***************************************************************************)
Frozen(c) == /\ UNCHANGED <<status[c], link[c], audit[c]>>
             /\ Settled(c)'

\* A step of one worker that stays away from a settled candidate.
LEMMA OthersLeaveItSettled ==
  ASSUME TypeOK, NEW c \in Candidates, Settled(c),
         NEW w \in Workers, tx' = [tx EXCEPT ![w] = tx'[w]], tx'[w].cand # c,
         UNCHANGED <<status[c], link[c], audit[c], job>>
  PROVE  Frozen(c)
<1>1. \A v \in Workers : v # w => tx'[v] = tx[v]
  BY DEF TypeOK
<1>2. \A v \in Workers : tx'[v].cand # c
  BY <1>1 DEF Settled, InFlight
<1> QED
  BY <1>2 DEF Frozen, Settled, InFlight

\* No step of the system changes a settled candidate or brings it in flight.
LEMMA SettledStep == TypeOK /\ [Next]_vars => \A c \in Candidates : Settled(c) => Frozen(c)
<1> SUFFICES ASSUME TypeOK, [Next]_vars, NEW c \in Candidates, Settled(c)
             PROVE  Frozen(c)
  OBVIOUS
<1>0. /\ status[c] \notin {"ABSENT", "PENDING_APPROVAL"}
      /\ \A w \in Workers : tx[w].cand # c
      /\ c \notin job.todo \cup job.done
      /\ Idle.cand # c
  BY WorkflowConstants DEF Settled, TerminalStatuses, InFlight, Idle
<1>1. ASSUME NEW w \in Workers, Proceed(w) \/ TakeLock(w) PROVE Frozen(c)
  <2> DEFINE d == tx[w].cand
  <2>1. d # c /\ c # d
    BY <1>0
  <2>2. tx' = [tx EXCEPT ![w] = tx'[w]] /\ tx'[w].cand # c
    <3>1. CASE \/ CreateAccepted(w) \/ CreateRiskRejected(w) \/ ApproveDeny(w)
               \/ ApproveSubmitRefused(w) \/ ApproveCommit(w) \/ RejectCommit(w)
               \/ ExpireCommit(w)
      <4>1. tx' = [tx EXCEPT ![w] = Idle]
        BY <3>1 DEF CreateAccepted, CreateRiskRejected, ApproveDeny,
           ApproveSubmitRefused, ApproveCommit, RejectCommit, ExpireCommit, Finish
      <4> QED BY <1>0, <4>1 DEF TypeOK
    <3>2. ASSUME NEW o, Serve(w, o, d)
          PROVE  tx' = [tx EXCEPT ![w] = tx'[w]] /\ tx'[w].cand # c
      <4> HIDE DEF d
      <4> QED BY <3>2, <2>1 DEF Serve, TypeOK
    <3>3. CASE ApproveRecheck(w) \/ ApproveFlush(w) \/ ApproveDenyFlush(w)
               \/ ApproveSubmit(w)
      BY <3>2, <3>3 DEF ApproveRecheck, ApproveFlush, ApproveDenyFlush, ApproveSubmit
    <3> QED BY <1>1, <3>1, <3>3 DEF Proceed, TakeLock
  <2>3. UNCHANGED <<status[c], link[c], audit[c]>>
    <3>1. ASSUME NEW st, NEW ev, Decide(d, st, ev)
          PROVE  status'[c] = status[c] /\ audit'[c] = audit[c]
      BY <3>1, <2>1 DEF Decide, TypeOK
    <3>2. CASE CreateAccepted(w) \/ CreateRiskRejected(w) \/ RejectCommit(w)
               \/ ExpireCommit(w)
      <4> HIDE DEF d
      <4>1. UNCHANGED link
        BY <3>2 DEF CreateAccepted, CreateRiskRejected, RejectCommit, ExpireCommit
      <4>2. \E st, ev : Decide(d, st, ev)
        BY <3>2 DEF CreateAccepted, CreateRiskRejected, RejectCommit, ExpireCommit, d
      <4> QED BY <3>1, <4>1, <4>2
    <3>3. CASE ApproveCommit(w)
      <4>1. Decide(d, "EXECUTED_PAPER", <<"APPROVED", "EXECUTED_PAPER">>)
        BY <3>3 DEF ApproveCommit
      <4>2. link'[c] = link[c]
        BY <3>3, <2>1 DEF ApproveCommit, TypeOK
      <4> QED BY <3>1, <4>1, <4>2
    <3>4. CASE UNCHANGED rows
      BY <3>4 DEF rows
    <3> QED
      BY <1>1, <3>2, <3>3, <3>4 DEF Proceed, TakeLock, ApproveRecheck, ApproveDeny,
         ApproveSubmit, ApproveSubmitRefused, ApproveFlush, ApproveDenyFlush
  <2>4. UNCHANGED job
    BY <1>1 DEF Proceed, TakeLock, CreateAccepted, CreateRiskRejected, ApproveRecheck,
       ApproveDeny, ApproveSubmit, ApproveSubmitRefused, ApproveCommit, ApproveFlush,
       ApproveDenyFlush, RejectCommit, ExpireCommit
  <2> QED
    BY <2>2, <2>3, <2>4, OthersLeaveItSettled
<1>2. ASSUME NEW w \in Workers, Request(w) PROVE Frozen(c)
  <2>1. PICK d \in Candidates :
          \/ \E p \in Profiles : CreateEvaluate(w, d, p)
          \/ ApproveLoad(w, d) \/ RejectLoad(w, d) \/ ExpireLoad(w, d)
    BY <1>2 DEF Request
  <2>2. UNCHANGED <<rows, job>>
    BY <2>1 DEF CreateEvaluate, ApproveLoad, RejectLoad, ExpireLoad
  <2>3. d # c
    BY <1>0, <2>1 DEF CreateEvaluate, Allocated, ApproveLoad, RejectLoad, ExpireLoad
  <2>4. tx' = [tx EXCEPT ![w] = tx'[w]] /\ tx'[w].cand # c
    <3>1. ASSUME NEW o, NEW p, tx' = [tx EXCEPT ![w] = [op |-> o, cand |-> d, profile |-> p]]
          PROVE  tx' = [tx EXCEPT ![w] = tx'[w]] /\ tx'[w].cand # c
      BY <3>1, <2>3 DEF TypeOK
    <3>2. CASE \E p \in Profiles : CreateEvaluate(w, d, p)
      BY <3>1, <3>2 DEF CreateEvaluate
    <3>3. CASE ApproveLoad(w, d) \/ RejectLoad(w, d) \/ ExpireLoad(w, d)
      BY <3>1, <3>3 DEF ApproveLoad, RejectLoad, ExpireLoad, Serve
    <3> QED BY <2>1, <3>2, <3>3
  <2> QED
    BY <2>2, <2>4, OthersLeaveItSettled DEF rows
<1>3. CASE ExpireJob
  <2>1. UNCHANGED <<status[c], link[c], audit[c], tx>>
    BY <1>0, <1>3 DEF ExpireJob, JobStart, JobExpire, JobCommit, rows
  <2>2. c \notin job'.todo \cup job'.done
    <3>1. CASE JobStart
      BY <1>0, <3>1 DEF JobStart, Lowest, ExpiredPending
    <3>2. ASSUME NEW d \in Candidates, JobExpire(d)
          PROVE  c \notin job'.todo \cup job'.done
      BY <1>0, <3>2 DEF JobExpire, TypeOK
    <3>3. CASE JobCommit
      BY <3>3 DEF JobCommit, NoJob
    <3> QED BY <1>3, <3>1, <3>2, <3>3 DEF ExpireJob
  <2> QED
    BY <2>1, <2>2 DEF Frozen, Settled, InFlight
<1>4. CASE Environment
  <2>1. CASE Restart
    BY <1>0, <2>1 DEF Restart, NoJob, rows, Frozen, Settled, InFlight
  <2>2. CASE UNCHANGED <<rows, tx, job>>
    BY <2>2 DEF rows, Frozen, Settled, InFlight
  <2> QED
    BY <1>4, <2>1, <2>2 DEF Environment, WindowPasses, TtlPasses, Midnight, BookMoves
<1>5. CASE UNCHANGED vars
  BY <1>5 DEF vars, rows, Frozen, Settled, InFlight
<1> QED
  BY <1>1, <1>2, <1>3, <1>4, <1>5 DEF Next

(***************************************************************************)
(* A decided candidate nobody has in flight keeps its decision, its order  *)
(* and its audit log for ever, for any number of workers and restarts.     *)
(***************************************************************************)
THEOREM SettledStaysSettled == Spec => SettledIsFinal
<1>1. TypeOK /\ [Next]_vars =>
        [\A c \in Candidates :
           Settled(c) => /\ UNCHANGED <<status[c], link[c], audit[c]>>
                         /\ Settled(c)']_vars
  BY SettledStep DEF Frozen
<1> QED
  BY <1>1, TypeCorrect, PTL DEF Spec, SettledIsFinal

----
(***************************************************************************)
(* The switches.  A process that was started with the workflow closed has  *)
(* no transaction but expiries under way, and none at all without trading  *)
(* safety: nothing was let in, and a restart forgets what was.             *)
(***************************************************************************)
ClosedIsQuiet ==
  /\ ~WorkflowOpen => /\ \A w \in Workers : tx[w].op \in {"idle", "expire:loaded"}
                      /\ ~job.running
                      /\ job.todo = {}
  /\ ~switches.safety => \A w \in Workers : tx[w].op = "idle"

\* A step of one worker keeps it quiet when what the worker turns to is let in.
LEMMA ClosedStep ==
  ASSUME TypeOK, ClosedIsQuiet, UNCHANGED <<switches, job>>,
         NEW w \in Workers, tx' = [tx EXCEPT ![w] = tx'[w]],
         \/ WorkflowOpen
         \/ tx'[w].op = "idle"
         \/ tx'[w].op = "expire:loaded" /\ switches.safety
  PROVE  ClosedIsQuiet'
<1>1. \A v \in Workers : v # w => tx'[v] = tx[v]
  BY DEF TypeOK
<1>2. (WorkflowOpen' <=> WorkflowOpen) /\ (WorkflowOpen => switches.safety)
  BY DEF WorkflowOpen
<1> QED
  BY <1>1, <1>2 DEF ClosedIsQuiet

\* What a worker does when it turns to `r` is on record in tx.
LEMMA ServeTurns ==
  ASSUME TypeOK, NEW w \in Workers, NEW r, tx' = [tx EXCEPT ![w] = r]
  PROVE  tx'[w] = r /\ tx' = [tx EXCEPT ![w] = tx'[w]]
  BY DEF TypeOK

\* Every step of the system keeps a closed process quiet.
LEMMA ClosedNext == TypeOK /\ ClosedIsQuiet /\ [Next]_vars => ClosedIsQuiet'
<1> SUFFICES ASSUME TypeOK, ClosedIsQuiet, [Next]_vars PROVE ClosedIsQuiet'
  OBVIOUS
<1>1. ASSUME NEW w \in Workers, Request(w) PROVE ClosedIsQuiet'
  <2>1. PICK c \in Candidates :
          \/ \E p \in Profiles : CreateEvaluate(w, c, p)
          \/ ApproveLoad(w, c) \/ RejectLoad(w, c) \/ ExpireLoad(w, c)
    BY <1>1 DEF Request
  <2>2. UNCHANGED <<switches, job>>
    BY <2>1 DEF CreateEvaluate, ApproveLoad, RejectLoad, ExpireLoad, process
  <2>3. \E o, p : tx' = [tx EXCEPT ![w] = [op |-> o, cand |-> c, profile |-> p]]
    BY <2>1 DEF CreateEvaluate, ApproveLoad, RejectLoad, ExpireLoad, Serve
  <2>4. tx' = [tx EXCEPT ![w] = tx'[w]]
    BY <2>3, ServeTurns
  <2>5. CASE WorkflowOpen
    BY <2>2, <2>4, <2>5, ClosedStep
  <2>6. CASE ExpireLoad(w, c)
    <3> DEFINE r == [op |-> "expire:loaded", cand |-> c, profile |-> NoProfile]
    <3>1. tx' = [tx EXCEPT ![w] = r] /\ switches.safety
      BY <2>6 DEF ExpireLoad, Serve, ExpireRouteOpen
    <3>2. tx'[w] = r
      <4> HIDE DEF r
      <4> QED BY <3>1, ServeTurns
    <3>3. tx'[w].op = "expire:loaded"
      BY <3>2
    <3> HIDE DEF r
    <3> QED BY <2>2, <2>4, <3>1, <3>3, ClosedStep
  <2> QED
    BY <2>1, <2>5, <2>6 DEF CreateEvaluate, ApproveLoad, RejectLoad
<1>2. ASSUME NEW w \in Workers, Proceed(w) \/ TakeLock(w) PROVE ClosedIsQuiet'
  <2>1. UNCHANGED <<switches, job>>
    BY <1>2 DEF Proceed, TakeLock, CreateAccepted, CreateRiskRejected, ApproveRecheck,
       ApproveDeny, ApproveSubmit, ApproveSubmitRefused, ApproveCommit, ApproveFlush,
       ApproveDenyFlush, RejectCommit, ExpireCommit, process
  <2>2. CASE Finish(w)
    <3>1. tx'[w] = Idle /\ tx' = [tx EXCEPT ![w] = tx'[w]]
      BY <2>2, ServeTurns DEF Finish
    <3> QED BY <2>1, <3>1, ClosedStep DEF Idle
  <2>3. CASE ~Finish(w)
    <3>1. /\ tx[w].op \notin {"idle", "expire:loaded"}
          /\ \E o : Serve(w, o, tx[w].cand)
      BY <1>2, <2>3 DEF Proceed, TakeLock, CreateAccepted, CreateRiskRejected,
         ApproveRecheck, ApproveDeny, ApproveSubmit, ApproveSubmitRefused, ApproveCommit,
         ApproveFlush, ApproveDenyFlush, RejectCommit, ExpireCommit
    <3>2. WorkflowOpen
      BY <3>1 DEF ClosedIsQuiet
    <3>3. tx' = [tx EXCEPT ![w] = tx'[w]]
      BY <3>1, ServeTurns DEF Serve
    <3> QED BY <2>1, <3>2, <3>3, ClosedStep
  <2> QED BY <2>2, <2>3
<1>3. CASE ExpireJob
  <2>1. WorkflowOpen
    BY <1>3 DEF ExpireJob, JobStart, ExpireJobOpen, WorkflowOpen, JobExpire, JobCommit,
       ClosedIsQuiet
  <2>2. UNCHANGED <<switches, tx>>
    BY <1>3 DEF ExpireJob, JobStart, JobExpire, JobCommit, process
  <2> QED BY <2>1, <2>2 DEF ClosedIsQuiet, WorkflowOpen
<1>4. CASE Restart
  BY <1>4 DEF Restart, Idle, NoJob, ClosedIsQuiet
<1>5. CASE UNCHANGED <<switches, tx, job>>
  BY <1>5 DEF ClosedIsQuiet, WorkflowOpen
<1> QED
  BY <1>1, <1>2, <1>3, <1>4, <1>5 DEF Next, Environment, WindowPasses, TtlPasses,
     Midnight, BookMoves, process, vars

(***************************************************************************)
(* With the kill switch on, or trading safety off, no order is placed and  *)
(* no candidate changes but by a requested expiry, which needs safety.     *)
(***************************************************************************)
THEOREM SwitchesFreeze == Spec => SwitchesFreezeTheWorkflow
<1>1. Init => ClosedIsQuiet
  BY DEF Init, Idle, NoJob, ClosedIsQuiet
<1> DEFINE Freeze ==
      switches.kill \/ ~switches.safety =>
        /\ UNCHANGED orders
        /\ \A c \in Candidates :
             status'[c] # status[c] => /\ status'[c] = "EXPIRED"
                                       /\ switches.safety
<1>2. TypeOK /\ ClosedIsQuiet /\ [Next]_vars => [Freeze]_vars
  <2> SUFFICES ASSUME TypeOK, ClosedIsQuiet, Next, ~WorkflowOpen
               PROVE  /\ UNCHANGED orders
                      /\ \A c \in Candidates :
                           status'[c] # status[c] => /\ status'[c] = "EXPIRED"
                                                     /\ switches.safety
    BY DEF WorkflowOpen
  <2>1. ~ExpireJob
    BY DEF ClosedIsQuiet, ExpireJob, JobStart, ExpireJobOpen, WorkflowOpen, JobExpire,
       JobCommit
  <2>2. CASE Environment
    BY <2>2 DEF Environment, WindowPasses, TtlPasses, Midnight, BookMoves, Restart, rows
  <2>3. CASE \E w \in Workers : Request(w)
    BY <2>3 DEF Request, CreateEvaluate, ApproveLoad, RejectLoad, ExpireLoad, rows
  <2>4. ASSUME NEW w \in Workers, Proceed(w) \/ TakeLock(w)
        PROVE  /\ UNCHANGED orders
               /\ \A c \in Candidates :
                    status'[c] # status[c] => /\ status'[c] = "EXPIRED"
                                              /\ switches.safety
    <3>1. tx[w].op \in {"idle", "expire:loaded"}
      BY DEF ClosedIsQuiet
    <3>2. ExpireCommit(w)
      BY <2>4, <3>1 DEF Proceed, TakeLock, CreateAccepted, CreateRiskRejected,
         ApproveRecheck, ApproveDeny, ApproveSubmit, ApproveSubmitRefused, ApproveCommit,
         ApproveFlush, ApproveDenyFlush, RejectCommit
    <3>3. switches.safety
      BY <3>2 DEF ClosedIsQuiet, ExpireCommit
    <3> QED BY <3>2, <3>3 DEF ExpireCommit, Decide, TypeOK
  <2> QED BY <2>1, <2>2, <2>3, <2>4 DEF Next
<1> QED
  BY <1>1, <1>2, TypeCorrect, ClosedNext, PTL DEF Spec, SwitchesFreezeTheWorkflow

----
(***************************************************************************)
(* The caps.  First the rows, under either kind of locking: a row that is  *)
(* there has the profile it was created with, what is being created is not *)
(* there yet, and what a decision or the job has in hand is.               *)
(***************************************************************************)
Deciding == Ops \ ({"idle"} \cup Creating)

RowsArePlaced ==
  /\ \A c \in Candidates : status[c] # "ABSENT" => profile[c] \in Profiles
  /\ \A w \in Workers : tx[w].op \in Creating =>
       /\ status[tx[w].cand] = "ABSENT"
       /\ tx[w].profile \in Profiles
       /\ \A v \in Workers : tx[v].op \in Creating /\ tx[v].cand = tx[w].cand => v = w
  /\ \A w \in Workers : tx[w].op \in Deciding => status[tx[w].cand] # "ABSENT"
  /\ \A c \in job.todo \cup job.done : status[c] # "ABSENT"

LEMMA RowsArePlacedInit == Init => RowsArePlaced
  BY DEF Init, RowsArePlaced, Idle, NoJob, Creating, Deciding

\* A step of one worker that leaves the rows alone.
LEMMA WorkerKeepsRows ==
  ASSUME TypeOK, RowsArePlaced, NEW w \in Workers, NEW r, tx' = [tx EXCEPT ![w] = r],
         UNCHANGED <<status, profile, job>>,
         r.op \notin Creating, r.op \in Deciding => status[r.cand] # "ABSENT"
  PROVE  RowsArePlaced'
<1>1. \A v \in Workers : tx'[v] = IF v = w THEN r ELSE tx[v]
  BY DEF TypeOK
<1>2. \A v \in Workers : tx'[v].op \in Creating => tx'[v] = tx[v]
  BY <1>1
<1>. QED BY <1>1, <1>2 DEF RowsArePlaced, Creating, Deciding

\* A transaction that writes one row and ends.
LEMMA WriterKeepsRows ==
  ASSUME TypeOK, RowsArePlaced, NEW w \in Workers, Finish(w), UNCHANGED job,
         NEW c \in Candidates, NEW st, st # "ABSENT", status' = [status EXCEPT ![c] = st],
         \/ tx[w].op \in Creating /\ tx[w].cand = c
            /\ profile' = [profile EXCEPT ![c] = tx[w].profile]
         \/ status[c] # "ABSENT" /\ UNCHANGED profile
  PROVE  RowsArePlaced'
<1>1. \A v \in Workers : tx'[v] = IF v = w THEN Idle ELSE tx[v]
  BY DEF Finish, TypeOK
<1>2. \A v \in Workers : tx'[v].op \in Creating \cup Deciding => v # w /\ tx'[v] = tx[v]
  BY <1>1 DEF Idle, Creating, Deciding
<1>3. \A d \in Candidates : /\ status'[d] = IF d = c THEN st ELSE status[d]
                            /\ d # c => profile'[d] = profile[d]
  BY DEF TypeOK
<1>4. profile'[c] \in Profiles
  BY DEF RowsArePlaced, TypeOK
<1>5. \A v \in Workers : tx'[v].op \in Creating => tx'[v].cand # c
  BY <1>2 DEF RowsArePlaced
<1>6. \A v \in Workers : tx'[v].op \in Creating \cup Deciding => tx'[v].cand \in Candidates
  BY <1>2, ServedCandidate DEF Creating, Deciding
<1>7. \A d \in job.todo \cup job.done : d \in Candidates
  BY DEF TypeOK
<1>8. \A d \in Candidates : status'[d] # "ABSENT" => profile'[d] \in Profiles
  BY <1>3, <1>4 DEF RowsArePlaced
<1>9. ASSUME NEW v \in Workers, tx'[v].op \in Creating
      PROVE  /\ status'[tx'[v].cand] = "ABSENT" /\ tx'[v].profile \in Profiles
             /\ \A u \in Workers : tx'[u].op \in Creating /\ tx'[u].cand = tx'[v].cand => u = v
  BY <1>2, <1>3, <1>5, <1>6, <1>9 DEF RowsArePlaced
<1>10. \A v \in Workers : tx'[v].op \in Deciding => status'[tx'[v].cand] # "ABSENT"
  BY <1>2, <1>3, <1>6 DEF RowsArePlaced
<1>11. \A d \in job'.todo \cup job'.done : status'[d] # "ABSENT"
  BY <1>3, <1>7 DEF RowsArePlaced
<1>. QED BY <1>8, <1>9, <1>10, <1>11 DEF RowsArePlaced, Creating, Deciding

LEMMA RowsArePlacedNext == TypeOK /\ RowsArePlaced /\ [Next]_vars => RowsArePlaced'
<1>. SUFFICES ASSUME TypeOK, RowsArePlaced, [Next]_vars PROVE RowsArePlaced'
  OBVIOUS
<1>1. ASSUME NEW w \in Workers, NEW c \in Candidates, NEW p \in Profiles,
             CreateEvaluate(w, c, p)
      PROVE  RowsArePlaced'
  <2>1. PICK o \in Creating : tx' = [tx EXCEPT ![w] = [op |-> o, cand |-> c, profile |-> p]]
    BY <1>1 DEF CreateEvaluate, Creating
  <2>2. UNCHANGED <<status, profile, job>>
    BY <1>1 DEF CreateEvaluate, rows
  <2>3. status[c] = "ABSENT" /\ \A v \in Workers : tx[v].op \in Creating => tx[v].cand # c
    BY <1>1 DEF CreateEvaluate, Allocated
  <2>4. \A v \in Workers : tx'[v] = IF v = w THEN [op |-> o, cand |-> c, profile |-> p]
                                             ELSE tx[v]
    BY <2>1 DEF TypeOK
  <2>5. ASSUME NEW v \in Workers, tx'[v].op \in Creating
        PROVE  /\ status'[tx'[v].cand] = "ABSENT" /\ tx'[v].profile \in Profiles
               /\ \A u \in Workers :
                    tx'[u].op \in Creating /\ tx'[u].cand = tx'[v].cand => u = v
    BY <2>2, <2>3, <2>4, <2>5 DEF RowsArePlaced
  <2>6. \A v \in Workers : tx'[v].op \in Deciding => status'[tx'[v].cand] # "ABSENT"
    BY <2>2, <2>4 DEF RowsArePlaced, Deciding
  <2>. QED BY <2>2, <2>5, <2>6 DEF RowsArePlaced, Creating, Deciding
<1>2. ASSUME NEW w \in Workers, NEW o \in Deciding, NEW c \in Candidates, Serve(w, o, c),
             status[c] # "ABSENT", UNCHANGED <<rows, job>>
      PROVE  RowsArePlaced'
  <2>. DEFINE r == [op |-> o, cand |-> c, profile |-> NoProfile]
  <2>1. tx' = [tx EXCEPT ![w] = r]
    BY <1>2 DEF Serve
  <2>2. UNCHANGED <<status, profile, job>>
    BY <1>2 DEF rows
  <2>3. r.op \notin Creating /\ r.cand = c
    BY DEF Deciding
  <2>. HIDE DEF r
  <2>. QED BY <1>2, <2>1, <2>2, <2>3, WorkerKeepsRows
<1>3. ASSUME NEW w \in Workers, Finish(w), UNCHANGED <<rows, job>>
      PROVE  RowsArePlaced'
  <2>. DEFINE r == Idle
  <2>1. tx' = [tx EXCEPT ![w] = r]
    BY <1>3 DEF Finish
  <2>2. UNCHANGED <<status, profile, job>>
    BY <1>3 DEF rows
  <2>3. r.op \notin Creating /\ r.op \notin Deciding
    BY DEF Deciding, Creating, Idle
  <2>. HIDE DEF r
  <2>. QED BY <1>3, <2>1, <2>2, <2>3, WorkerKeepsRows
<1>4. ASSUME NEW w \in Workers, Request(w) PROVE RowsArePlaced'
  <2>1. PICK c \in Candidates :
          \/ \E p \in Profiles : CreateEvaluate(w, c, p)
          \/ ApproveLoad(w, c) \/ RejectLoad(w, c) \/ ExpireLoad(w, c)
    BY <1>4 DEF Request
  <2>2. CASE ApproveLoad(w, c) \/ RejectLoad(w, c) \/ ExpireLoad(w, c)
    BY <1>2, <2>2 DEF ApproveLoad, RejectLoad, ExpireLoad, Ops, Deciding, Creating
  <2>. QED BY <1>1, <2>1, <2>2
<1>5. ASSUME NEW w \in Workers, Proceed(w) \/ TakeLock(w) PROVE RowsArePlaced'
  <2>. DEFINE c == tx[w].cand
  <2>1. ASSUME tx[w].op \in Deciding PROVE c \in Candidates /\ status[c] # "ABSENT"
    BY <2>1, ServedCandidate DEF Deciding, RowsArePlaced
  <2>2. CASE \/ ApproveRecheck(w) \/ ApproveFlush(w) \/ ApproveDenyFlush(w)
             \/ ApproveSubmit(w)
    BY <1>2, <2>1, <2>2 DEF ApproveRecheck, ApproveFlush, ApproveDenyFlush, ApproveSubmit,
       Ops, Deciding, Creating
  <2>3. CASE ApproveDeny(w) \/ ApproveSubmitRefused(w)
    BY <1>3, <2>3 DEF ApproveDeny, ApproveSubmitRefused
  <2>4. CASE CreateAccepted(w) \/ CreateRiskRejected(w)
    <3>1. tx[w].op \in Creating /\ c \in Candidates
      BY <2>4, ServedCandidate DEF CreateAccepted, CreateRiskRejected, Creating
    <3>2. PICK st \in Statuses \ {"ABSENT"} : status' = [status EXCEPT ![c] = st]
      BY <2>4 DEF CreateAccepted, CreateRiskRejected, Decide, Statuses
    <3>3. Finish(w) /\ UNCHANGED job /\ profile' = [profile EXCEPT ![c] = tx[w].profile]
      BY <2>4 DEF CreateAccepted, CreateRiskRejected
    <3>. HIDE DEF c
    <3>4. tx[w].cand = c
      BY DEF c
    <3>. QED BY <3>1, <3>2, <3>3, <3>4, WriterKeepsRows
  <2>5. CASE RejectCommit(w) \/ ExpireCommit(w) \/ ApproveCommit(w)
    <3>1. c \in Candidates /\ status[c] # "ABSENT"
      BY <2>1, <2>5 DEF RejectCommit, ExpireCommit, ApproveCommit, Deciding, Ops, Creating
    <3>2. PICK st \in Statuses \ {"ABSENT"} : status' = [status EXCEPT ![c] = st]
      BY <2>5 DEF RejectCommit, ExpireCommit, ApproveCommit, Decide, Statuses
    <3>3. Finish(w) /\ UNCHANGED <<job, profile>>
      BY <2>5 DEF RejectCommit, ExpireCommit, ApproveCommit
    <3>. HIDE DEF c
    <3>. QED BY <3>1, <3>2, <3>3, WriterKeepsRows
  <2>. QED BY <1>5, <2>2, <2>3, <2>4, <2>5 DEF Proceed, TakeLock
<1>6. ASSUME ExpireJob PROVE RowsArePlaced'
  <2>1. UNCHANGED <<tx, profile>>
    BY <1>6 DEF ExpireJob, JobStart, JobExpire, JobCommit, rows
  <2>2. CASE JobStart \/ \E c \in Candidates : JobExpire(c)
    <3>1. UNCHANGED status
      BY <2>2 DEF JobStart, JobExpire, rows
    <3>2. \A c \in job'.todo \cup job'.done : status[c] # "ABSENT"
      <4>1. CASE JobStart
        BY <4>1 DEF JobStart, Lowest, ExpiredPending
      <4>2. ASSUME NEW c \in Candidates, JobExpire(c)
            PROVE  \A d \in job'.todo \cup job'.done : status[d] # "ABSENT"
        BY <4>2 DEF JobExpire, RowsArePlaced, TypeOK
      <4>. QED BY <2>2, <4>1, <4>2
    <3>. QED BY <2>1, <3>1, <3>2 DEF RowsArePlaced, Creating, Deciding
  <2>3. CASE JobCommit
    <3>1. /\ job' = NoJob
          /\ \A c \in Candidates : status'[c] = IF c \in job.done THEN "EXPIRED" ELSE status[c]
      BY <2>3 DEF JobCommit
    <3>2. \A c \in Candidates : status'[c] = "ABSENT" <=> status[c] = "ABSENT"
      BY <3>1 DEF RowsArePlaced
    <3>3. \A w \in Workers : tx[w].op \in Creating \cup Deciding => tx[w].cand \in Candidates
      BY ServedCandidate DEF Creating, Deciding
    <3>. QED BY <2>1, <3>1, <3>2, <3>3 DEF RowsArePlaced, Creating, Deciding, NoJob
  <2>. QED BY <1>6, <2>2, <2>3 DEF ExpireJob
<1>7. ASSUME Environment PROVE RowsArePlaced'
  <2>1. CASE Restart
    BY <2>1 DEF Restart, Idle, NoJob, rows, RowsArePlaced, Creating, Deciding
  <2>2. CASE ~Restart
    <3>1. UNCHANGED <<status, profile, tx, job>>
      BY <1>7, <2>2 DEF Environment, WindowPasses, TtlPasses, Midnight, BookMoves, rows
    <3>. QED BY <3>1 DEF RowsArePlaced, Creating, Deciding
  <2>. QED BY <2>1, <2>2
<1>8. CASE UNCHANGED vars
  BY <1>8 DEF vars, rows, RowsArePlaced, Creating, Deciding
<1>. QED BY <1>4, <1>5, <1>6, <1>7, <1>8 DEF Next


----
(***************************************************************************)
(* One writer at a time: the transaction that has written excludes every   *)
(* other, so what a creation was evaluated against stays true until it     *)
(* commits.                                                                *)
(***************************************************************************)
Writing == Locking \cup Creating

WritersExclude ==
  deployment.singleWriter =>
    /\ \A v, w \in Workers : tx[v].op \in Writing /\ tx[w].op \in Writing => v = w
    /\ job.done # {} => NoWorkerWrites

LEMMA WritersExcludeInit == Init => WritersExclude
  BY DEF Init, Idle, NoJob, WritersExclude, Writing, Locking, Creating

\* A worker may write when it was writing before, or nobody was.
LEMMA OneStaysOne ==
  ASSUME TypeOK, WritersExclude, UNCHANGED <<deployment, job>>,
         NEW w \in Workers, NEW r, tx' = [tx EXCEPT ![w] = r],
         r.op \in Writing => tx[w].op \in Writing \/ DatabaseFree
  PROVE  WritersExclude'
<1>1. \A v \in Workers : tx'[v] = IF v = w THEN r ELSE tx[v]
  BY DEF TypeOK
<1>2. SUFFICES ASSUME deployment.singleWriter PROVE WritersExclude'
  BY DEF WritersExclude
<1>3. r.op \in Writing => \A v \in Workers : tx[v].op \in Writing => v = w
  BY <1>2 DEF WritersExclude, DatabaseFree, NoWorkerWrites, Writing
<1>4. \A v, u \in Workers : tx'[v].op \in Writing /\ tx'[u].op \in Writing => v = u
  BY <1>1, <1>2, <1>3 DEF WritersExclude
<1>5. ASSUME job.done # {} PROVE \A v \in Workers : tx'[v].op \notin Writing
  BY <1>1, <1>2, <1>5 DEF WritersExclude, DatabaseFree, NoWorkerWrites, Writing
<1>6. job'.done # {} => NoWorkerWrites'
  BY <1>5 DEF NoWorkerWrites, Writing, Locking, Creating
<1>. QED BY <1>4, <1>6 DEF WritersExclude, Writing, Locking, Creating

LEMMA WritersExcludeNext == TypeOK /\ WritersExclude /\ [Next]_vars => WritersExclude'
<1>. SUFFICES ASSUME TypeOK, WritersExclude, [Next]_vars PROVE WritersExclude'
  OBVIOUS
<1>1. ASSUME NEW w \in Workers, NEW o, NEW c, NEW p, UNCHANGED <<deployment, job>>,
             tx' = [tx EXCEPT ![w] = [op |-> o, cand |-> c, profile |-> p]],
             o \in Writing => tx[w].op \in Writing \/ DatabaseFree
      PROVE  WritersExclude'
  <2>. DEFINE r == [op |-> o, cand |-> c, profile |-> p]
  <2>1. r.op = o /\ tx' = [tx EXCEPT ![w] = r]
    BY <1>1
  <2>. HIDE DEF r
  <2>. QED BY <1>1, <2>1, OneStaysOne
<1>2. ASSUME NEW w \in Workers, Request(w) PROVE WritersExclude'
  <2>1. PICK c \in Candidates :
          \/ \E p \in Profiles : CreateEvaluate(w, c, p)
          \/ ApproveLoad(w, c) \/ RejectLoad(w, c) \/ ExpireLoad(w, c)
    BY <1>2 DEF Request
  <2>2. ASSUME NEW p \in Profiles, CreateEvaluate(w, c, p) PROVE WritersExclude'
    <3>1. PICK o \in Creating : tx' = [tx EXCEPT ![w] = [op |-> o, cand |-> c, profile |-> p]]
      BY <2>2 DEF CreateEvaluate, Creating
    <3>2. DatabaseFree /\ UNCHANGED <<deployment, job>>
      BY <2>2 DEF CreateEvaluate, process
    <3>. QED BY <1>1, <3>1, <3>2
  <2>3. CASE ApproveLoad(w, c) \/ RejectLoad(w, c) \/ ExpireLoad(w, c)
    <3>1. PICK o \in {"approve:loaded", "reject:loaded", "expire:loaded"} : Serve(w, o, c)
      BY <2>3 DEF ApproveLoad, RejectLoad, ExpireLoad
    <3>2. UNCHANGED <<deployment, job>>
      BY <2>3 DEF ApproveLoad, RejectLoad, ExpireLoad, process
    <3>. QED BY <1>1, <3>1, <3>2 DEF Serve, Writing, Locking, Creating
  <2>. QED BY <2>1, <2>2, <2>3
<1>3. ASSUME NEW w \in Workers, Proceed(w) \/ TakeLock(w) PROVE WritersExclude'
  <2>1. UNCHANGED <<deployment, job>>
    BY <1>3 DEF Proceed, TakeLock, CreateAccepted, CreateRiskRejected, ApproveRecheck,
       ApproveDeny, ApproveSubmit, ApproveSubmitRefused, ApproveCommit, ApproveFlush,
       ApproveDenyFlush, RejectCommit, ExpireCommit, process
  <2>2. CASE Finish(w)
    <3>1. Idle.op \notin Writing
      BY DEF Idle, Writing, Locking, Creating
    <3>. QED BY <1>1, <2>1, <2>2, <3>1 DEF Finish, Idle
  <2>3. CASE ApproveRecheck(w)
    <3>1. PICK o \in {"approve:checked", "approve:failed"} : Serve(w, o, tx[w].cand)
      BY <2>3 DEF ApproveRecheck
    <3>. QED BY <1>1, <2>1, <3>1 DEF Serve, Writing, Locking, Creating
  <2>4. CASE ApproveFlush(w) \/ ApproveDenyFlush(w)
    <3>1. PICK o \in Locking : Serve(w, o, tx[w].cand)
      BY <2>4 DEF ApproveFlush, ApproveDenyFlush, Locking
    <3>2. DatabaseFree
      BY <2>4 DEF ApproveFlush, ApproveDenyFlush
    <3>. QED BY <1>1, <2>1, <3>1, <3>2 DEF Serve
  <2>5. CASE ApproveSubmit(w)
    <3>1. PICK o \in Locking : Serve(w, o, tx[w].cand)
      BY <2>5 DEF ApproveSubmit, Locking
    <3>2. tx[w].op \in Writing
      BY <2>5 DEF ApproveSubmit, Writing, Locking
    <3>. QED BY <1>1, <2>1, <3>1, <3>2 DEF Serve
  <2>. QED
    BY <1>3, <2>2, <2>3, <2>4, <2>5 DEF Proceed, TakeLock, CreateAccepted,
       CreateRiskRejected, ApproveDeny, ApproveSubmitRefused, ApproveCommit, RejectCommit,
       ExpireCommit
<1>4. ASSUME ExpireJob PROVE WritersExclude'
  <2>1. UNCHANGED <<tx, deployment>>
    BY <1>4 DEF ExpireJob, JobStart, JobExpire, JobCommit, process
  <2>2. deployment.singleWriter /\ job'.done # {} => NoWorkerWrites
    <3>1. CASE JobStart \/ JobCommit
      BY <3>1 DEF JobStart, JobCommit, NoJob
    <3>2. CASE \E c \in Candidates : JobExpire(c)
      BY <3>2 DEF JobExpire
    <3>. QED BY <1>4, <3>1, <3>2 DEF ExpireJob
  <2>3. NoWorkerWrites => NoWorkerWrites'
    BY <2>1 DEF NoWorkerWrites, Locking, Creating
  <2>. QED BY <2>1, <2>2, <2>3 DEF WritersExclude, Writing, Locking, Creating
<1>5. ASSUME Environment PROVE WritersExclude'
  <2>1. CASE Restart
    BY <2>1 DEF Restart, Idle, NoJob, WritersExclude, Writing, Locking, Creating,
       NoWorkerWrites
  <2>2. CASE ~Restart
    <3>1. UNCHANGED <<tx, job, deployment>>
      BY <1>5, <2>2 DEF Environment, WindowPasses, TtlPasses, Midnight, BookMoves, process
    <3>. QED BY <3>1 DEF WritersExclude, Writing, Locking, Creating, NoWorkerWrites
  <2>. QED BY <2>1, <2>2
<1>6. CASE UNCHANGED vars
  BY <1>6 DEF vars, process, WritersExclude, Writing, Locking, Creating, NoWorkerWrites
<1>. QED BY <1>2, <1>3, <1>4, <1>5, <1>6 DEF Next

----
(***************************************************************************)
(* What an evaluation learns of the pending candidates stays true of them  *)
(* until its candidate joins them.                                         *)
(***************************************************************************)
SymbolTotal(acct, sym) == Total({c \in Pending(acct) : profile[c].sym = sym})
DayTotal(acct) == Total(Pending(acct) \cap today)
Twin(p, d) == /\ d \in Pending(p.acct) \cap recent
              /\ profile[d].sym = p.sym
              /\ profile[d].side = p.side
              /\ profile[d].qty = p.qty

Stands(p) == /\ SymbolTotal(p.acct, p.sym) + p.amt <= MaxOrderAmount
             /\ DayTotal(p.acct) + p.amt <= MaxDailyOrderAmount
             /\ \A d \in Candidates : ~Twin(p, d)

EvaluationStands ==
  deployment.singleWriter =>
    \A w \in Workers : \A p \in Profiles :
      tx[w].op = "create:passed" /\ tx[w].profile = p => Stands(p)

LimitsInv == OneWriterKeepsTheLimits /\ EvaluationStands

\* A total is a natural number, over any of the pending candidates.
LEMMA TotalsTyped ==
  ASSUME TypeOK, RowsArePlaced
  PROVE  /\ \A a \in Accounts : \A S : S \subseteq Pending(a) =>
              /\ IsFiniteSet(S)
              /\ Total(S) \in Nat
              /\ \A c \in S : c \in Candidates /\ profile[c].amt \in Nat
<1>. SUFFICES ASSUME NEW a \in Accounts, NEW S, S \subseteq Pending(a)
              PROVE  /\ IsFiniteSet(S) /\ Total(S) \in Nat
                     /\ \A c \in S : c \in Candidates /\ profile[c].amt \in Nat
  OBVIOUS
<1>1. S \subseteq Candidates /\ IsFiniteSet(S)
  BY WorkflowConstants, FS_Subset DEF Pending
<1>2. \A c \in S : profile[c] \in Profiles /\ profile[c].amt \in Nat
  BY WorkflowConstants DEF Pending, RowsArePlaced
<1>. DEFINE f == [c \in Candidates |-> profile[c].amt]
<1>3. \A c \in S : f[c] \in Nat
  BY <1>1, <1>2
<1>. HIDE DEF f
<1>4. SumFunctionOnSet(f, S) \in Nat
  BY <1>1, <1>3, SumNat
<1>. QED BY <1>1, <1>2, <1>4 DEF Total, f

\* Over fewer candidates a total is smaller, whatever became of the others.
LEMMA TotalsShrink ==
  ASSUME TypeOK, RowsArePlaced, NEW a \in Accounts,
         NEW S, NEW T, S \subseteq Pending(a), T \subseteq S,
         \A c \in T : profile'[c] = profile[c]
  PROVE  /\ Total(S) \in Nat
         /\ SumFunctionOnSet([c \in Candidates |-> profile'[c].amt], T) \in Nat
         /\ SumFunctionOnSet([c \in Candidates |-> profile'[c].amt], T) <= Total(S)
<1>. DEFINE f == [c \in Candidates |-> profile[c].amt]
            g == [c \in Candidates |-> profile'[c].amt]
<1>1. IsFiniteSet(S) /\ IsFiniteSet(T) /\ \A c \in S : c \in Candidates /\ f[c] \in Nat
  BY TotalsTyped, FS_Subset
<1>2. \A c \in T : g[c] = f[c]
  BY <1>1
<1>. HIDE DEF f, g
<1>3. SumFunctionOnSet(g, T) = SumFunctionOnSet(f, T)
  BY <1>1, <1>2, SumSame
<1>4. SumFunctionOnSet(f, T) <= SumFunctionOnSet(f, S)
  BY <1>1, SumSubset
<1>5. SumFunctionOnSet(f, T) \in Nat /\ SumFunctionOnSet(f, S) \in Nat
  BY <1>1, SumNat
<1>. QED BY <1>3, <1>4, <1>5 DEF f, g, Total

\* A step after which no candidate is newly pending, of today, or recent.
Shrinking ==
  \A c \in Candidates : status'[c] = "PENDING_APPROVAL" =>
    /\ status[c] = "PENDING_APPROVAL"
    /\ profile'[c] = profile[c]
    /\ c \in today' => c \in today
    /\ c \in recent' => c \in recent

LEMMA ShrinkingTotals ==
  ASSUME TypeOK, RowsArePlaced, Shrinking
  PROVE  /\ \A a \in Accounts : \A s : /\ SymbolTotal(a, s) \in Nat
                                       /\ SymbolTotal(a, s)' \in Nat
                                       /\ SymbolTotal(a, s)' <= SymbolTotal(a, s)
         /\ \A a \in Accounts : /\ DayTotal(a) \in Nat
                                /\ DayTotal(a)' \in Nat
                                /\ DayTotal(a)' <= DayTotal(a)
         /\ \A p, d : Twin(p, d)' => Twin(p, d)
<1>1. ASSUME NEW a \in Accounts, NEW s
      PROVE  /\ SymbolTotal(a, s) \in Nat
             /\ SymbolTotal(a, s)' \in Nat
             /\ SymbolTotal(a, s)' <= SymbolTotal(a, s)
  <2>. DEFINE S == {c \in Pending(a) : profile[c].sym = s}
              T == {c \in {d \in Candidates : status'[d] = "PENDING_APPROVAL"
                                              /\ profile'[d].acct = a} :
                      profile'[c].sym = s}
  <2>1. S \subseteq Pending(a) /\ T \subseteq S /\ \A c \in T : profile'[c] = profile[c]
    BY DEF Shrinking, Pending
  <2>2. SymbolTotal(a, s)' = SumFunctionOnSet([c \in Candidates |-> profile'[c].amt], T)
    BY DEF SymbolTotal, Total, Pending
  <2>3. SymbolTotal(a, s) = Total(S)
    BY DEF SymbolTotal
  <2>. HIDE DEF S, T
  <2>. QED BY <2>1, <2>2, <2>3, TotalsShrink
<1>2. ASSUME NEW a \in Accounts
      PROVE  /\ DayTotal(a) \in Nat /\ DayTotal(a)' \in Nat
             /\ DayTotal(a)' <= DayTotal(a)
  <2>. DEFINE S == Pending(a) \cap today
              T == {d \in Candidates : status'[d] = "PENDING_APPROVAL"
                                       /\ profile'[d].acct = a} \cap today'
  <2>1. S \subseteq Pending(a) /\ T \subseteq S /\ \A c \in T : profile'[c] = profile[c]
    BY DEF Shrinking, Pending
  <2>2. DayTotal(a)' = SumFunctionOnSet([c \in Candidates |-> profile'[c].amt], T)
    BY DEF DayTotal, Total, Pending
  <2>3. DayTotal(a) = Total(S)
    BY DEF DayTotal
  <2>. HIDE DEF S, T
  <2>. QED BY <2>1, <2>2, <2>3, TotalsShrink
<1>3. \A p, d : Twin(p, d)' => Twin(p, d)
  BY DEF Shrinking, Twin, Pending
<1>. QED BY <1>1, <1>2, <1>3

\* The limits in terms of the totals.
LEMMA LimitsInTotals ==
  /\ SymbolCapHeld <=> \A a \in Accounts : \A p \in Profiles :
                         SymbolTotal(a, p.sym) <= MaxOrderAmount
  /\ DailyCapHeld <=> \A a \in Accounts : DayTotal(a) <= MaxDailyOrderAmount
  /\ SymbolCapHeld' <=> \A a \in Accounts : \A p \in Profiles :
                          SymbolTotal(a, p.sym)' <= MaxOrderAmount
  /\ DailyCapHeld' <=> \A a \in Accounts : DayTotal(a)' <= MaxDailyOrderAmount
  BY DEF SymbolCapHeld, DailyCapHeld, SymbolTotal, DayTotal

\* Limits that hold go on holding when nothing joins.
LEMMA ShrinkingKeepsLimits ==
  ASSUME TypeOK, RowsArePlaced, LimitsInv, Shrinking, deployment' = deployment,
         \A w \in Workers : tx'[w].op = "create:passed" => tx'[w] = tx[w]
  PROVE  LimitsInv'
<1>. SUFFICES ASSUME deployment.singleWriter PROVE LimitsInv'
  BY DEF LimitsInv, OneWriterKeepsTheLimits, EvaluationStands
<1>0. OneWriterKeepsTheLimits /\ EvaluationStands
  BY DEF LimitsInv
<1>1. SymbolCapHeld'
  <2>1. ASSUME NEW a \in Accounts, NEW p \in Profiles
        PROVE  SymbolTotal(a, p.sym)' <= MaxOrderAmount
    <3>1. SymbolTotal(a, p.sym) <= MaxOrderAmount
      BY <1>0, LimitsInTotals DEF OneWriterKeepsTheLimits
    <3>. QED BY <3>1, ShrinkingTotals, RiskLimits
  <2>. QED BY <2>1, LimitsInTotals
<1>2. DailyCapHeld'
  <2>1. ASSUME NEW a \in Accounts PROVE DayTotal(a)' <= MaxDailyOrderAmount
    <3>1. DayTotal(a) <= MaxDailyOrderAmount
      BY <1>0, LimitsInTotals DEF OneWriterKeepsTheLimits
    <3>. QED BY <3>1, ShrinkingTotals, RiskLimits
  <2>. QED BY <2>1, LimitsInTotals
<1>3. NoRecentTwin'
  BY <1>0 DEF OneWriterKeepsTheLimits, NoRecentTwin, Shrinking, Pending
<1>4. ASSUME NEW p \in Profiles, Stands(p) PROVE Stands(p)'
  <2>1. p.amt \in Nat /\ p.acct \in Accounts
    BY WorkflowConstants
  <2>2. /\ SymbolTotal(p.acct, p.sym) + p.amt <= MaxOrderAmount
        /\ DayTotal(p.acct) + p.amt <= MaxDailyOrderAmount
        /\ \A d \in Candidates : ~Twin(p, d)
    BY <1>4 DEF Stands
  <2>3. SymbolTotal(p.acct, p.sym)' + p.amt <= MaxOrderAmount
    BY <2>1, <2>2, ShrinkingTotals, RiskLimits
  <2>4. DayTotal(p.acct)' + p.amt <= MaxDailyOrderAmount
    BY <2>1, <2>2, ShrinkingTotals, RiskLimits
  <2>5. \A d \in Candidates : ~Twin(p, d)'
    BY <2>2, ShrinkingTotals
  <2>. QED BY <2>3, <2>4, <2>5 DEF Stands
<1>5. EvaluationStands'
  <2>1. ASSUME NEW w \in Workers, NEW p \in Profiles, tx'[w].op = "create:passed",
               tx'[w].profile = p
        PROVE  Stands(p)'
    BY <1>0, <1>4, <2>1 DEF EvaluationStands
  <2>. QED BY <2>1 DEF EvaluationStands
<1>. QED BY <1>1, <1>2, <1>3, <1>5 DEF LimitsInv, OneWriterKeepsTheLimits

\* An evaluation that passes finds room: the engine compares the candidate
\* with all that is pending on its account, and with nothing else.
LEMMA OthersArePending ==
  ASSUME TypeOK, RowsArePlaced, NEW c \in Candidates, status[c] = "ABSENT",
         NEW a \in Accounts, NEW S, S \subseteq Pending(a),
         NEW O, O \subseteq OthersOf(c, a),
         \A o \in OthersOf(c, a) : o \in O <=> o.id \in S
  PROVE  AmountOf(O) = Total(S)
<1>. DEFINE h == [d \in Candidates |->
              [id |-> d, sym |-> profile[d].sym, side |-> profile[d].side,
               qty |-> profile[d].qty, amt |-> profile[d].amt,
               today |-> d \in today, recent |-> d \in recent]]
            f == [o \in O |-> o.amt]
            g == [d \in Candidates |-> profile[d].amt]
<1>1. \A d \in Candidates : d \in Pending(a) <=>
        d # c /\ status[d] \in ActiveStatuses /\ profile[d].acct = a
  BY DEF Pending, ActiveStatuses, TypeOK, Statuses
<1>2. OthersOf(c, a) = {h[d] : d \in Pending(a)}
  BY <1>1 DEF OthersOf, Pending
<1>3. S \subseteq Candidates /\ \A d \in S : h[d].id = d /\ h[d].amt = g[d]
  BY DEF Pending
<1>4. O = {h[d] : d \in S}
  <2>1. \A d \in Pending(a) : h[d].id = d
    BY DEF Pending
  <2>. HIDE DEF h
  <2>. QED BY <1>2, <2>1
<1>5. IsFiniteSet(S) /\ \A d \in S : g[d] \in Nat
  BY <1>3, TotalsTyped
<1>. HIDE DEF h, g
<1>6. \A d \in S : g[d] = f[h[d]] /\ g[d] \in Int
  BY <1>3, <1>4, <1>5
<1>7. \A d, e \in S : h[d] = h[e] => d = e
  BY <1>3
<1>. HIDE DEF f
<1>8. SumFunctionOnSet(f, {h[d] : d \in S}) = SumFunctionOnSet(g, S)
  BY <1>5, <1>6, <1>7, SumImage
<1>. QED BY <1>4, <1>8 DEF AmountOf, Total, f, g

LEMMA PassedStands ==
  ASSUME TypeOK, RowsArePlaced, NEW c \in Candidates, status[c] = "ABSENT",
         NEW p \in Profiles, RiskOk(c, p)
  PROVE  Stands(p)
<1>. DEFINE O == OthersOf(c, p.acct)
<1>0. p.acct \in Accounts
  BY WorkflowConstants
<1>1. /\ AmountOf({o \in O : o.sym = p.sym}) + p.amt <= MaxOrderAmount
      /\ AmountOf({o \in O : o.today}) + p.amt <= MaxDailyOrderAmount
      /\ ~ \E o \in O : o.recent /\ o.sym = p.sym /\ o.side = p.side /\ o.qty = p.qty
  BY DEF RiskOk, RiskPasses, PerSymbolLimit, DailyTotalLimit, DuplicateRecent
<1>2. ASSUME NEW o \in O
      PROVE  /\ o.id \in Pending(p.acct)
             /\ o.sym = profile[o.id].sym
             /\ o.today <=> o.id \in today
  <2>1. PICK d \in Candidates :
          /\ status[d] \in ActiveStatuses /\ profile[d].acct = p.acct
          /\ o = [id |-> d, sym |-> profile[d].sym, side |-> profile[d].side,
                  qty |-> profile[d].qty, amt |-> profile[d].amt,
                  today |-> d \in today, recent |-> d \in recent]
    BY DEF OthersOf
  <2>2. o.id = d /\ o.sym = profile[d].sym
    BY <2>1
  <2>3. o.today <=> d \in today
    BY <2>1
  <2>4. d \in Pending(p.acct)
    BY <2>1 DEF Pending, ActiveStatuses, TypeOK, Statuses
  <2>. HIDE DEF O
  <2>. QED BY <2>2, <2>3, <2>4
<1>3. AmountOf({o \in O : o.sym = p.sym}) = SymbolTotal(p.acct, p.sym)
  <2>. DEFINE S == {d \in Pending(p.acct) : profile[d].sym = p.sym}
              U == {o \in O : o.sym = p.sym}
  <2>1. S \subseteq Pending(p.acct) /\ U \subseteq O /\ \A o \in O : o \in U <=> o.id \in S
    BY <1>2
  <2>. HIDE DEF S, U
  <2>2. AmountOf(U) = Total(S)
    BY <1>0, <2>1, OthersArePending
  <2>. QED BY <2>2 DEF S, U, SymbolTotal
<1>4. AmountOf({o \in O : o.today}) = DayTotal(p.acct)
  <2>. DEFINE S == Pending(p.acct) \cap today
              U == {o \in O : o.today}
  <2>1. S \subseteq Pending(p.acct) /\ U \subseteq O /\ \A o \in O : o \in U <=> o.id \in S
    BY <1>2
  <2>. HIDE DEF S, U
  <2>2. AmountOf(U) = Total(S)
    BY <1>0, <2>1, OthersArePending
  <2>. QED BY <2>2 DEF S, U, DayTotal
<1>5. ASSUME NEW d \in Candidates, Twin(p, d) PROVE FALSE
  <2>. DEFINE o == [id |-> d, sym |-> profile[d].sym, side |-> profile[d].side,
                    qty |-> profile[d].qty, amt |-> profile[d].amt,
                    today |-> d \in today, recent |-> d \in recent]
  <2>1. d \in Pending(p.acct) /\ d \in recent /\ d # c
    BY <1>5 DEF Twin, Pending
  <2>2. o \in O
    BY <2>1 DEF OthersOf, Pending, ActiveStatuses
  <2>3. o.recent
    BY <2>1
  <2>4. o.sym = p.sym /\ o.side = p.side /\ o.qty = p.qty
    BY <1>5 DEF Twin
  <2>. HIDE DEF o, O
  <2>. QED BY <1>1, <2>2, <2>3, <2>4
<1>. QED BY <1>1, <1>3, <1>4, <1>5 DEF Stands

\* A new candidate adds its amount to a total, when it counts there at all.
LEMMA JoiningTotals ==
  ASSUME TypeOK, RowsArePlaced, NEW c \in Candidates, status[c] = "ABSENT",
         NEW p \in Profiles, profile' = [profile EXCEPT ![c] = p],
         NEW a \in Accounts, NEW S, S \subseteq Pending(a)
  PROVE  /\ Total(S) \in Nat
         /\ SumFunctionOnSet([d \in Candidates |-> profile'[d].amt], S) = Total(S)
         /\ SumFunctionOnSet([d \in Candidates |-> profile'[d].amt], S \cup {c})
              = Total(S) + p.amt
<1>. DEFINE f == [d \in Candidates |-> profile[d].amt]
            g == [d \in Candidates |-> profile'[d].amt]
<1>1. IsFiniteSet(S) /\ Total(S) \in Nat /\ \A d \in S : d \in Candidates /\ f[d] \in Nat
  BY TotalsTyped
<1>2. c \notin S /\ g[c] = p.amt /\ p.amt \in Nat
  BY WorkflowConstants DEF Pending, TypeOK
<1>3. \A d \in S : g[d] = f[d]
  BY <1>1, <1>2 DEF TypeOK
<1>. HIDE DEF f, g
<1>4. SumFunctionOnSet(g, S) = SumFunctionOnSet(f, S)
  BY <1>1, <1>3, SumSame
<1>5. SumFunctionOnSet(g, S \cup {c}) = SumFunctionOnSet(g, S) + g[c]
  BY <1>1, <1>2, <1>3, SumAdd
<1>. QED BY <1>1, <1>2, <1>4, <1>5 DEF f, g, Total

LEMMA CreateKeepsLimits ==
  ASSUME TypeOK, RowsArePlaced, WritersExclude, LimitsInv,
         NEW w \in Workers, CreateAccepted(w)
  PROVE  LimitsInv'
<1>. DEFINE c == tx[w].cand
            p == tx[w].profile
            g == [d \in Candidates |-> profile'[d].amt]
<1>0. SUFFICES ASSUME deployment.singleWriter, deployment'.singleWriter PROVE LimitsInv'
  BY DEF CreateAccepted, process, LimitsInv, OneWriterKeepsTheLimits, EvaluationStands
<1>1. /\ c \in Candidates /\ p \in Profiles /\ status[c] = "ABSENT"
      /\ p.acct \in Accounts /\ p.amt \in Nat
  BY ServedCandidate, WorkflowConstants DEF CreateAccepted, Creating, RowsArePlaced
<1>2. /\ profile' = [profile EXCEPT ![c] = p]
      /\ status' = [status EXCEPT ![c] = "PENDING_APPROVAL"]
      /\ today' = today /\ recent' = recent
  BY DEF CreateAccepted, Decide, clock
<1>3. Stands(p)
  BY <1>0, <1>1 DEF LimitsInv, EvaluationStands, CreateAccepted
<1>4. \A d \in Candidates : /\ status'[d] = IF d = c THEN "PENDING_APPROVAL" ELSE status[d]
                            /\ profile'[d] = IF d = c THEN p ELSE profile[d]
  BY <1>1, <1>2 DEF TypeOK
<1>5. \A a : Pending(a)' = IF p.acct = a THEN Pending(a) \cup {c} ELSE Pending(a)
  BY <1>1, <1>4 DEF Pending
<1>. HIDE DEF c, p
<1>7. SymbolCapHeld'
  <2>1. ASSUME NEW a \in Accounts, NEW q \in Profiles
        PROVE  SymbolTotal(a, q.sym)' <= MaxOrderAmount
    <3>. DEFINE S == {d \in Pending(a) : profile[d].sym = q.sym}
    <3>1. SymbolTotal(a, q.sym)' = SumFunctionOnSet(g, {d \in Pending(a)' : profile'[d].sym = q.sym})
      BY DEF SymbolTotal, Total
    <3>2. SymbolTotal(a, q.sym) = Total(S) /\ SymbolTotal(a, q.sym) <= MaxOrderAmount
      BY <1>0, LimitsInTotals DEF SymbolTotal, LimitsInv, OneWriterKeepsTheLimits
    <3>3. S \subseteq Pending(a)
      OBVIOUS
    <3>4. CASE p.acct = a /\ p.sym = q.sym
      <4>1. {d \in Pending(a)' : profile'[d].sym = q.sym} = S \cup {c}
        BY <1>1, <1>4, <1>5, <3>4 DEF Pending
      <4>2. Total(S) + p.amt <= MaxOrderAmount
        BY <1>3, <3>2, <3>4 DEF Stands
      <4>. HIDE DEF S
      <4>3. SumFunctionOnSet(g, S \cup {c}) = Total(S) + p.amt
        BY <1>1, <1>2, <3>3, JoiningTotals
      <4>. QED BY <3>1, <4>1, <4>2, <4>3
    <3>5. CASE ~(p.acct = a /\ p.sym = q.sym)
      <4>1. {d \in Pending(a)' : profile'[d].sym = q.sym} = S
        BY <1>1, <1>4, <1>5, <3>5 DEF Pending
      <4>. HIDE DEF S
      <4>2. SumFunctionOnSet(g, S) = Total(S)
        BY <1>1, <1>2, <3>3, JoiningTotals
      <4>. QED BY <3>1, <3>2, <4>1, <4>2
    <3>. QED BY <3>4, <3>5
  <2>. QED BY <2>1, LimitsInTotals
<1>8. DailyCapHeld'
  <2>1. ASSUME NEW a \in Accounts PROVE DayTotal(a)' <= MaxDailyOrderAmount
    <3>. DEFINE S == Pending(a) \cap today
    <3>1. DayTotal(a)' = SumFunctionOnSet(g, Pending(a)' \cap today)
      BY <1>2 DEF DayTotal, Total
    <3>2. DayTotal(a) = Total(S) /\ DayTotal(a) <= MaxDailyOrderAmount
      BY <1>0, LimitsInTotals DEF DayTotal, LimitsInv, OneWriterKeepsTheLimits
    <3>3. S \subseteq Pending(a)
      OBVIOUS
    <3>4. CASE p.acct = a /\ c \in today
      <4>1. Pending(a)' \cap today = S \cup {c}
        BY <1>5, <3>4
      <4>2. Total(S) + p.amt <= MaxDailyOrderAmount
        BY <1>3, <3>2, <3>4 DEF Stands
      <4>. HIDE DEF S
      <4>3. SumFunctionOnSet(g, S \cup {c}) = Total(S) + p.amt
        BY <1>1, <1>2, <3>3, JoiningTotals
      <4>. QED BY <3>1, <4>1, <4>2, <4>3
    <3>5. CASE ~(p.acct = a /\ c \in today)
      <4>1. Pending(a)' \cap today = S
        BY <1>5, <3>5
      <4>. HIDE DEF S
      <4>2. SumFunctionOnSet(g, S) = Total(S)
        BY <1>1, <1>2, <3>3, JoiningTotals
      <4>. QED BY <3>1, <3>2, <4>1, <4>2
    <3>. QED BY <3>4, <3>5
  <2>. QED BY <2>1, LimitsInTotals
<1>9. NoRecentTwin'
  <2>1. NoRecentTwin /\ \A d \in Candidates : ~Twin(p, d)
    BY <1>0, <1>3 DEF LimitsInv, OneWriterKeepsTheLimits, Stands
  <2>2. ASSUME NEW a \in Accounts, NEW d \in Pending(a)' \cap recent,
               NEW e \in Pending(a)' \cap recent,
               profile'[d].sym = profile'[e].sym, profile'[d].side = profile'[e].side,
               profile'[d].qty = profile'[e].qty
        PROVE  d = e
    <3>1. d \in Candidates /\ e \in Candidates
      BY <2>2 DEF Pending
    <3>2. CASE d # c /\ e # c
      BY <1>4, <1>5, <2>1, <2>2, <3>1, <3>2 DEF NoRecentTwin
    <3>3. CASE d = c /\ e # c
      BY <1>1, <1>4, <1>5, <2>1, <2>2, <3>1, <3>3 DEF Twin, Pending
    <3>4. CASE d # c /\ e = c
      BY <1>1, <1>4, <1>5, <2>1, <2>2, <3>1, <3>4 DEF Twin, Pending
    <3>. QED BY <3>2, <3>3, <3>4
  <2>. QED BY <1>2, <2>2 DEF NoRecentTwin
<1>10. \A v \in Workers : tx'[v].op # "create:passed"
  <2>1. \A v \in Workers : tx'[v] = IF v = w THEN Idle ELSE tx[v]
    BY DEF CreateAccepted, Finish, TypeOK
  <2>2. \A v \in Workers : tx[v].op = "create:passed" => v = w
    BY <1>0 DEF WritersExclude, Writing, Creating, CreateAccepted
  <2>. QED BY <2>1, <2>2 DEF Idle
<1>11. EvaluationStands'
  BY <1>10 DEF EvaluationStands
<1>. QED BY <1>7, <1>8, <1>9, <1>11 DEF LimitsInv, OneWriterKeepsTheLimits

LEMMA EvaluateKeepsLimits ==
  ASSUME TypeOK, RowsArePlaced, LimitsInv,
         NEW w \in Workers, NEW c \in Candidates, NEW p \in Profiles, CreateEvaluate(w, c, p)
  PROVE  LimitsInv'
<1>0. SUFFICES ASSUME deployment.singleWriter, deployment'.singleWriter PROVE LimitsInv'
  BY DEF CreateEvaluate, process, LimitsInv, OneWriterKeepsTheLimits, EvaluationStands
<1>1. status[c] = "ABSENT"
  BY DEF CreateEvaluate, Allocated
<1>2. UNCHANGED <<status, profile>> /\ recent' = recent \cup {c} /\ today' = today \cup {c}
  BY DEF CreateEvaluate, rows
<1>3. \A a : Pending(a)' = Pending(a)
  BY <1>2 DEF Pending
<1>4. \A a : c \notin Pending(a)
  BY <1>1 DEF Pending
<1>5. /\ \A a, s : SymbolTotal(a, s)' = SymbolTotal(a, s)
      /\ \A a : DayTotal(a)' = DayTotal(a)
      /\ \A q, d : Twin(q, d)' => Twin(q, d)
  <2>1. \A a : Pending(a)' \cap today' = Pending(a) \cap today
    BY <1>2, <1>3, <1>4
  <2>. QED BY <1>2, <1>3, <1>4, <2>1 DEF SymbolTotal, DayTotal, Total, Twin
<1>6. OneWriterKeepsTheLimits'
  <2>1. SymbolCapHeld /\ DailyCapHeld /\ NoRecentTwin
    BY <1>0 DEF LimitsInv, OneWriterKeepsTheLimits
  <2>2. SymbolCapHeld' /\ DailyCapHeld'
    BY <1>5, <2>1, LimitsInTotals
  <2>3. NoRecentTwin'
    BY <1>2, <1>3, <1>4, <2>1 DEF NoRecentTwin
  <2>. QED BY <2>2, <2>3 DEF OneWriterKeepsTheLimits
<1>7. \A q \in Profiles : Stands(q) => Stands(q)'
  BY <1>5 DEF Stands
<1>8. ASSUME NEW v \in Workers, NEW q \in Profiles, tx'[v].op = "create:passed",
             tx'[v].profile = q
      PROVE  Stands(q)'
  <2>1. CASE v = w
    <3>1. tx'[w] = [op |-> IF RiskOk(c, p) THEN "create:passed" ELSE "create:failed",
                    cand |-> c, profile |-> p]
      BY DEF CreateEvaluate, TypeOK
    <3>2. RiskOk(c, p) /\ q = p
      BY <1>8, <2>1, <3>1
    <3>. QED BY <1>1, <1>7, <3>2, PassedStands
  <2>2. CASE v # w
    <3>1. tx'[v] = tx[v]
      BY <2>2 DEF CreateEvaluate, TypeOK
    <3>. QED BY <1>0, <1>7, <1>8, <3>1 DEF LimitsInv, EvaluationStands
  <2>. QED BY <2>1, <2>2
<1>9. EvaluationStands'
  BY <1>8 DEF EvaluationStands
<1>. QED BY <1>6, <1>9 DEF LimitsInv

LEMMA LimitsNext ==
  TypeOK /\ RowsArePlaced /\ WritersExclude /\ LimitsInv /\ [Next]_vars => LimitsInv'
<1>. SUFFICES ASSUME TypeOK, RowsArePlaced, WritersExclude, LimitsInv, [Next]_vars
              PROVE  LimitsInv'
  OBVIOUS
<1>1. CASE /\ Shrinking /\ deployment' = deployment
           /\ \A w \in Workers : tx'[w].op = "create:passed" => tx'[w] = tx[w]
  BY <1>1, ShrinkingKeepsLimits
<1>2. ASSUME NEW w \in Workers, NEW o, NEW c, Serve(w, o, c), o # "create:passed"
      PROVE  \A v \in Workers : tx'[v].op = "create:passed" => tx'[v] = tx[v]
  BY <1>2 DEF Serve, TypeOK
<1>3. ASSUME NEW w \in Workers, Finish(w)
      PROVE  \A v \in Workers : tx'[v].op = "create:passed" => tx'[v] = tx[v]
  BY <1>3 DEF Finish, Idle, TypeOK
<1>4. ASSUME NEW w \in Workers, Request(w) PROVE LimitsInv'
  <2>1. PICK c \in Candidates :
          \/ \E p \in Profiles : CreateEvaluate(w, c, p)
          \/ ApproveLoad(w, c) \/ RejectLoad(w, c) \/ ExpireLoad(w, c)
    BY <1>4 DEF Request
  <2>2. CASE ApproveLoad(w, c) \/ RejectLoad(w, c) \/ ExpireLoad(w, c)
    <3>1. Shrinking /\ deployment' = deployment
      BY <2>2 DEF ApproveLoad, RejectLoad, ExpireLoad, rows, clock, process, Shrinking
    <3>. QED BY <1>1, <1>2, <2>2, <3>1 DEF ApproveLoad, RejectLoad, ExpireLoad
  <2>. QED BY <2>1, <2>2, EvaluateKeepsLimits
<1>5. ASSUME NEW w \in Workers, Proceed(w) \/ TakeLock(w) PROVE LimitsInv'
  <2>1. CASE CreateRiskRejected(w) \/ ApproveCommit(w) \/ RejectCommit(w) \/ ExpireCommit(w)
    <3>1. PICK st \in {"RISK_REJECTED", "EXECUTED_PAPER", "REJECTED", "EXPIRED"} :
            status' = [status EXCEPT ![tx[w].cand] = st]
      BY <2>1 DEF CreateRiskRejected, ApproveCommit, RejectCommit, ExpireCommit, Decide
    <3>2. \A d \in Candidates : d # tx[w].cand => profile'[d] = profile[d]
      BY <2>1 DEF CreateRiskRejected, ApproveCommit, RejectCommit, ExpireCommit, TypeOK
    <3>3. UNCHANGED <<today, recent, deployment>> /\ Finish(w)
      BY <2>1 DEF CreateRiskRejected, ApproveCommit, RejectCommit, ExpireCommit, clock, process
    <3>4. Shrinking
      BY <3>1, <3>2, <3>3 DEF Shrinking, TypeOK
    <3>. QED BY <1>1, <1>3, <3>3, <3>4
  <2>2. CASE ApproveDeny(w) \/ ApproveSubmitRefused(w)
    <3>1. Shrinking /\ deployment' = deployment
      BY <2>2 DEF ApproveDeny, ApproveSubmitRefused, rows, clock, process, Shrinking
    <3>. QED BY <1>1, <1>3, <2>2, <3>1 DEF ApproveDeny, ApproveSubmitRefused
  <2>3. CASE ApproveRecheck(w) \/ ApproveFlush(w) \/ ApproveDenyFlush(w) \/ ApproveSubmit(w)
    <3>1. Shrinking /\ deployment' = deployment
      BY <2>3 DEF ApproveRecheck, ApproveFlush, ApproveDenyFlush, ApproveSubmit, rows,
         clock, process, Shrinking
    <3>2. PICK o \in Ops \ {"create:passed"} : Serve(w, o, tx[w].cand)
      BY <2>3 DEF ApproveRecheck, ApproveFlush, ApproveDenyFlush, ApproveSubmit, Ops
    <3>. QED BY <1>1, <1>2, <3>1, <3>2
  <2>. QED
    BY <1>5, <2>1, <2>2, <2>3, CreateKeepsLimits DEF Proceed, TakeLock
<1>6. ASSUME ExpireJob PROVE LimitsInv'
  <2>1. UNCHANGED <<tx, profile, today, recent, deployment>>
    BY <1>6 DEF ExpireJob, JobStart, JobExpire, JobCommit, rows, clock, process
  <2>2. \A c \in Candidates : status'[c] = "PENDING_APPROVAL" => status[c] = "PENDING_APPROVAL"
    BY <1>6 DEF ExpireJob, JobStart, JobExpire, JobCommit, rows
  <2>. QED BY <1>1, <2>1, <2>2 DEF Shrinking
<1>7. ASSUME Environment PROVE LimitsInv'
  <2>1. UNCHANGED <<status, profile, deployment>> /\ today' \subseteq today
        /\ recent' \subseteq recent
    BY <1>7 DEF Environment, WindowPasses, TtlPasses, Midnight, BookMoves, Restart, rows,
       clock, process
  <2>2. \A w \in Workers : tx'[w].op = "create:passed" => tx'[w] = tx[w]
    BY <1>7 DEF Environment, WindowPasses, TtlPasses, Midnight, BookMoves, Restart, Idle
  <2>3. Shrinking
    BY <2>1 DEF Shrinking
  <2>. QED BY <1>1, <2>1, <2>2, <2>3
<1>8. CASE UNCHANGED vars
  BY <1>1, <1>8 DEF vars, rows, clock, process, Shrinking
<1>. QED BY <1>4, <1>5, <1>6, <1>7, <1>8 DEF Next

LEMMA LimitsInit == Init => LimitsInv
<1>. SUFFICES ASSUME Init PROVE LimitsInv
  OBVIOUS
<1>1. \A a : Pending(a) = {}
  BY DEF Init, Pending
<1>2. Total({}) = 0
  BY SumEmpty DEF Total
<1>3. SymbolCapHeld
  <2>1. \A a \in Accounts, p \in Profiles : {c \in Pending(a) : profile[c].sym = p.sym} = {}
    BY <1>1
  <2>. QED BY <1>2, <2>1, RiskLimits DEF SymbolCapHeld
<1>4. DailyCapHeld
  <2>1. \A a \in Accounts : Pending(a) \cap today = {}
    BY <1>1
  <2>. QED BY <1>2, <2>1, RiskLimits DEF DailyCapHeld
<1>5. NoRecentTwin
  BY <1>1 DEF NoRecentTwin
<1>6. EvaluationStands
  BY DEF Init, Idle, EvaluationStands
<1>. QED BY <1>3, <1>4, <1>5, <1>6 DEF LimitsInv, OneWriterKeepsTheLimits

(***************************************************************************)
(* On SQLite the limits hold of what is pending: the symbol and the daily  *)
(* cap, and no recent twin, for every set of candidates, amounts and       *)
(* limits, through any interleaving of requests and any restart.           *)
(***************************************************************************)
THEOREM OneWriterKeepsLimits == Spec => []OneWriterKeepsTheLimits
<1>1. LimitsInv => OneWriterKeepsTheLimits
  BY DEF LimitsInv
<1>. QED
  BY <1>1, TypeCorrect, RowsArePlacedInit, RowsArePlacedNext, WritersExcludeInit,
     WritersExcludeNext, LimitsInit, LimitsNext, PTL DEF Spec


----
(***************************************************************************)
(* One request at a time and no job: what a request read of a candidate is *)
(* still so when it commits, and only executed candidates have orders.     *)
(***************************************************************************)
SerialInv ==
  Serial =>
    /\ job = NoJob
    /\ \A v, w \in Workers : tx[v].op # "idle" /\ tx[w].op # "idle" => v = w
    /\ \A w \in Workers : tx[w].op \in Creating => status[tx[w].cand] = "ABSENT"
    /\ \A w \in Workers : tx[w].op \in Deciding => status[tx[w].cand] = "PENDING_APPROVAL"

LEMMA SerialInvInit == Init => SerialInv
  BY DEF Init, SerialInv, Idle, Creating, Deciding

\* What one serial step may do: the rows stay and the worker goes on, or the
\* worker is done.
LEMMA SerialStep ==
  ASSUME TypeOK, SerialInv, Serial, NEW w \in Workers, NEW r, tx' = [tx EXCEPT ![w] = r],
         UNCHANGED <<job, deployment>>,
         \A v \in Workers : tx[v].op # "idle" => v = w,
         \/ r = Idle
         \/ /\ UNCHANGED status
            /\ r.op \in Creating => status[r.cand] = "ABSENT"
            /\ r.op \in Deciding => status[r.cand] = "PENDING_APPROVAL"
  PROVE  SerialInv'
<1>1. \A v \in Workers : tx'[v] = IF v = w THEN r ELSE tx[v]
  BY DEF TypeOK
<1>2. \A v \in Workers : v # w => tx[v].op \notin Creating \cup Deciding
  BY DEF Creating, Deciding
<1>3. Idle.op = "idle" /\ Idle.op \notin Creating /\ Idle.op \notin Deciding
  BY DEF Idle, Creating, Deciding
<1>4. \A v, u \in Workers : tx'[v].op # "idle" /\ tx'[u].op # "idle" => v = u
  BY <1>1
<1>5. \A v \in Workers : tx'[v].op \in Creating => status'[tx'[v].cand] = "ABSENT"
  BY <1>1, <1>2, <1>3
<1>6. \A v \in Workers : tx'[v].op \in Deciding => status'[tx'[v].cand] = "PENDING_APPROVAL"
  BY <1>1, <1>2, <1>3
<1>7. job' = NoJob
  BY DEF SerialInv
<1>. QED BY <1>4, <1>5, <1>6, <1>7 DEF SerialInv, Creating, Deciding

LEMMA SerialInvNext == TypeOK /\ SerialInv /\ [Next]_vars => SerialInv'
<1>. SUFFICES ASSUME TypeOK, SerialInv, [Next]_vars PROVE SerialInv'
  OBVIOUS
<1>1. deployment' = deployment
  BY DEF Next, Request, CreateEvaluate, ApproveLoad, RejectLoad, ExpireLoad, Proceed,
     TakeLock, CreateAccepted, CreateRiskRejected, ApproveRecheck, ApproveDeny,
     ApproveSubmit, ApproveSubmitRefused, ApproveCommit, ApproveFlush, ApproveDenyFlush,
     RejectCommit, ExpireCommit, ExpireJob, JobStart, JobExpire, JobCommit, Environment,
     WindowPasses, TtlPasses, Midnight, BookMoves, Restart, process, vars
<1>2. SUFFICES ASSUME Serial, Serial' PROVE SerialInv'
  BY <1>1 DEF Serial, SerialInv
<1>3. ASSUME NEW w \in Workers, Request(w) PROVE SerialInv'
  <2>1. \A v \in Workers : tx[v].op = "idle"
    BY <1>2, <1>3 DEF Request, Serial
  <2>2. PICK c \in Candidates :
          \/ \E p \in Profiles : CreateEvaluate(w, c, p)
          \/ ApproveLoad(w, c) \/ RejectLoad(w, c) \/ ExpireLoad(w, c)
    BY <1>3 DEF Request
  <2>3. UNCHANGED <<status, job>>
    BY <2>2 DEF CreateEvaluate, ApproveLoad, RejectLoad, ExpireLoad, rows
  <2>4. ASSUME NEW p \in Profiles, CreateEvaluate(w, c, p) PROVE SerialInv'
    <3>1. PICK o \in Creating : tx' = [tx EXCEPT ![w] = [op |-> o, cand |-> c, profile |-> p]]
      BY <2>4 DEF CreateEvaluate, Creating
    <3>. DEFINE r == [op |-> o, cand |-> c, profile |-> p]
    <3>2. tx' = [tx EXCEPT ![w] = r] /\ r.op = o /\ r.cand = c
      BY <3>1
    <3>3. status[c] = "ABSENT" /\ o \notin Deciding
      BY <2>4, <3>1 DEF CreateEvaluate, Allocated, Deciding
    <3>. HIDE DEF r
    <3>. QED BY <1>1, <1>2, <2>1, <2>3, <3>2, <3>3, SerialStep
  <2>5. CASE ApproveLoad(w, c) \/ RejectLoad(w, c) \/ ExpireLoad(w, c)
    <3>1. PICK o \in {"approve:loaded", "reject:loaded", "expire:loaded"} : Serve(w, o, c)
      BY <2>5 DEF ApproveLoad, RejectLoad, ExpireLoad
    <3>. DEFINE r == [op |-> o, cand |-> c, profile |-> NoProfile]
    <3>2. tx' = [tx EXCEPT ![w] = r] /\ r.op = o /\ r.cand = c
      BY <3>1 DEF Serve
    <3>3. status[c] = "PENDING_APPROVAL" /\ o \notin Creating
      BY <2>5, <3>1 DEF ApproveLoad, RejectLoad, ExpireLoad, Creating
    <3>. HIDE DEF r
    <3>. QED BY <1>1, <1>2, <2>1, <2>3, <3>2, <3>3, SerialStep
  <2>. QED BY <2>2, <2>4, <2>5
<1>4. ASSUME NEW w \in Workers, Proceed(w) \/ TakeLock(w) PROVE SerialInv'
  <2>1. tx[w].op # "idle" /\ UNCHANGED job
    BY <1>4 DEF Proceed, TakeLock, CreateAccepted, CreateRiskRejected, ApproveRecheck,
       ApproveDeny, ApproveSubmit, ApproveSubmitRefused, ApproveCommit, ApproveFlush,
       ApproveDenyFlush, RejectCommit, ExpireCommit
  <2>2. \A v \in Workers : tx[v].op # "idle" => v = w
    BY <1>2, <2>1 DEF SerialInv
  <2>3. CASE Finish(w)
    <3>1. tx' = [tx EXCEPT ![w] = Idle]
      BY <2>3 DEF Finish
    <3>. QED BY <1>1, <1>2, <2>1, <2>2, <3>1, SerialStep
  <2>4. CASE ApproveRecheck(w) \/ ApproveFlush(w) \/ ApproveDenyFlush(w) \/ ApproveSubmit(w)
    <3>. DEFINE c == tx[w].cand
    <3>1. tx[w].op \in Deciding /\ UNCHANGED status
      BY <2>4 DEF ApproveRecheck, ApproveFlush, ApproveDenyFlush, ApproveSubmit, Deciding,
         Ops, Creating, rows
    <3>2. PICK o \in Deciding : Serve(w, o, c)
      BY <2>4 DEF ApproveRecheck, ApproveFlush, ApproveDenyFlush, ApproveSubmit, Deciding,
         Ops, Creating
    <3>3. status[c] = "PENDING_APPROVAL"
      BY <1>2, <3>1 DEF SerialInv
    <3>. DEFINE r == [op |-> o, cand |-> c, profile |-> NoProfile]
    <3>4. tx' = [tx EXCEPT ![w] = r] /\ r.op = o /\ r.cand = c
      BY <3>2 DEF Serve
    <3>5. o \notin Creating
      BY DEF Deciding
    <3>. HIDE DEF r
    <3>. QED BY <1>1, <1>2, <2>1, <2>2, <3>1, <3>3, <3>4, <3>5, SerialStep
  <2>. QED
    BY <1>4, <2>3, <2>4 DEF Proceed, TakeLock, CreateAccepted, CreateRiskRejected,
       ApproveDeny, ApproveSubmitRefused, ApproveCommit, RejectCommit, ExpireCommit
<1>5. ~ExpireJob
  <2>1. job = NoJob /\ ~deployment.scheduler
    BY <1>2 DEF Serial, SerialInv
  <2>. QED BY <2>1 DEF ExpireJob, JobStart, JobExpire, JobCommit, NoJob
<1>6. ASSUME Environment PROVE SerialInv'
  <2>1. CASE Restart
    BY <2>1 DEF Restart, Idle, SerialInv, Creating, Deciding
  <2>2. CASE ~Restart
    <3>1. UNCHANGED <<status, tx, job>>
      BY <1>6, <2>2 DEF Environment, WindowPasses, TtlPasses, Midnight, BookMoves, rows
    <3>. QED BY <1>2, <3>1 DEF SerialInv, Creating, Deciding
  <2>. QED BY <2>1, <2>2
<1>7. CASE UNCHANGED vars
  BY <1>2, <1>7 DEF vars, rows, SerialInv, Creating, Deciding
<1>. QED BY <1>3, <1>4, <1>5, <1>6, <1>7 DEF Next

Ordered == {orders[i].cand : i \in DOMAIN orders}

\* Every serial step is a step of the candidate's lifecycle, or none.
LEMMA SerialStepMaps ==
  TypeOK /\ OrderInvariant /\ SerialInv /\ [Next]_vars =>
    (Serial => Lifecycle!Next \/ UNCHANGED Lifecycle!vars)
<1>. SUFFICES ASSUME TypeOK, OrderInvariant, SerialInv, [Next]_vars, Serial
              PROVE  Lifecycle!Next \/ UNCHANGED Lifecycle!vars
  OBVIOUS
<1>1. ASSUME UNCHANGED <<status, orders>> PROVE UNCHANGED Lifecycle!vars
  BY <1>1 DEF Lifecycle!vars
<1>2. ASSUME NEW w \in Workers, Proceed(w) \/ TakeLock(w)
      PROVE  Lifecycle!Next \/ UNCHANGED Lifecycle!vars
  <2>. DEFINE c == tx[w].cand
  <2>1. CASE CreateAccepted(w) \/ CreateRiskRejected(w)
    <3>1. c \in Candidates /\ status[c] = "ABSENT"
      BY <2>1, ServedCandidate DEF CreateAccepted, CreateRiskRejected, SerialInv, Creating
    <3>2. UNCHANGED orders
      BY <2>1 DEF CreateAccepted, CreateRiskRejected
    <3>3. \/ status' = [status EXCEPT ![c] = "PENDING_APPROVAL"]
          \/ status' = [status EXCEPT ![c] = "RISK_REJECTED"]
      BY <2>1 DEF CreateAccepted, CreateRiskRejected, Decide
    <3>. HIDE DEF c
    <3>4. Lifecycle!Create(c)
      BY <3>1, <3>2, <3>3 DEF Lifecycle!Create, Lifecycle!Move
    <3>. QED BY <3>1, <3>4 DEF Lifecycle!Next
  <2>2. CASE RejectCommit(w) \/ ExpireCommit(w)
    <3>1. c \in Candidates /\ status[c] = "PENDING_APPROVAL"
      BY <2>2, ServedCandidate DEF RejectCommit, ExpireCommit, SerialInv, Deciding, Ops,
         Creating
    <3>2. UNCHANGED orders
      BY <2>2 DEF RejectCommit, ExpireCommit
    <3>3. \/ status' = [status EXCEPT ![c] = "REJECTED"]
          \/ status' = [status EXCEPT ![c] = "EXPIRED"]
      BY <2>2 DEF RejectCommit, ExpireCommit, Decide
    <3>. HIDE DEF c
    <3>4. Lifecycle!Decline(c)
      BY <3>1, <3>2, <3>3 DEF Lifecycle!Decline, Lifecycle!Move
    <3>. QED BY <3>1, <3>4 DEF Lifecycle!Next
  <2>3. CASE ApproveCommit(w)
    <3>1. c \in Candidates /\ status[c] = "PENDING_APPROVAL"
      BY <2>3, ServedCandidate DEF ApproveCommit, SerialInv, Deciding, Ops, Creating
    <3>2. status' = [status EXCEPT ![c] = "EXECUTED_PAPER"]
      BY <2>3 DEF ApproveCommit, Decide
    <3>3. Ordered' = Ordered \cup {c}
      <4>1. CASE tx[w].op = "approve:found"
        <5>1. orders' = orders
          BY <2>3, <4>1 DEF ApproveCommit
        <5>2. \E i \in DOMAIN orders : orders[i].cand = c
          BY <4>1 DEF OrderInvariant, LookupsStayTrue
        <5>. HIDE DEF c
        <5>. QED BY <5>1, <5>2 DEF Ordered
      <4>2. CASE tx[w].op = "approve:ordered"
        <5>. DEFINE o == [key |-> IdempotencyKey(w, c), cand |-> c]
        <5>1. orders' = Append(orders, o) /\ o.cand = c
          BY <2>3, <4>2 DEF ApproveCommit
        <5>2. orders \in Seq(Orders)
          BY DEF TypeOK
        <5>. HIDE DEF o, c
        <5>3. /\ DOMAIN orders = 1 .. Len(orders) /\ Len(orders) \in Nat
              /\ DOMAIN orders' = 1 .. Len(orders) + 1
              /\ \A i \in DOMAIN orders : orders'[i] = orders[i]
              /\ orders'[Len(orders) + 1] = o
          BY <5>1, <5>2
        <5>4. DOMAIN orders' = DOMAIN orders \cup {Len(orders) + 1}
          BY <5>3
        <5>. QED BY <5>1, <5>3, <5>4 DEF Ordered
      <4>. QED BY <2>3, <4>1, <4>2 DEF ApproveCommit
    <3>. HIDE DEF c
    <3>4. PICK d \in Candidates : d = c
      BY <3>1
    <3>5. Lifecycle!Execute(d)
      BY <3>1, <3>2, <3>3, <3>4 DEF Lifecycle!Execute, Lifecycle!Move, Ordered
    <3>. QED BY <3>5 DEF Lifecycle!Next
  <2>4. CASE \/ ApproveRecheck(w) \/ ApproveDeny(w) \/ ApproveSubmit(w)
             \/ ApproveSubmitRefused(w) \/ ApproveFlush(w) \/ ApproveDenyFlush(w)
    BY <1>1, <2>4 DEF ApproveRecheck, ApproveDeny, ApproveSubmit, ApproveSubmitRefused,
       ApproveFlush, ApproveDenyFlush, rows
  <2>. QED BY <1>2, <2>1, <2>2, <2>3, <2>4 DEF Proceed, TakeLock
<1>3. CASE \E w \in Workers : Request(w)
  BY <1>1, <1>3 DEF Request, CreateEvaluate, ApproveLoad, RejectLoad, ExpireLoad, rows
<1>4. CASE ExpireJob
  <2>1. ~JobCommit
    BY DEF JobCommit, SerialInv, NoJob
  <2>. QED BY <1>1, <1>4, <2>1 DEF ExpireJob, JobStart, JobExpire, rows
<1>5. CASE Environment \/ UNCHANGED vars
  BY <1>1, <1>5 DEF Environment, WindowPasses, TtlPasses, Midnight, BookMoves, Restart,
     vars, rows
<1>. QED BY <1>2, <1>3, <1>4, <1>5 DEF Next

(***************************************************************************)
(* With one request at a time and the job off, the workflow implements the *)
(* lifecycle of a candidate: it starts where the lifecycle starts, and     *)
(* every step is one of the lifecycle's or leaves candidates and orders    *)
(* alone, for every number of candidates, profiles, books and restarts.    *)
(***************************************************************************)
THEOREM SerialWorkflowImplementsLifecycle == Spec => SerialImplementsLifecycle
<1>1. Init => (Serial => Lifecycle!Init)
  BY DEF Init, Lifecycle!Init
<1>2. TypeOK /\ OrderInvariant /\ SerialInv /\ [Next]_vars =>
        [Serial => Lifecycle!Next \/ UNCHANGED Lifecycle!vars]_vars
  BY SerialStepMaps
<1>. QED
  BY <1>1, <1>2, TypeCorrect, OrdersAreUnique, SerialInvInit, SerialInvNext, PTL
  DEF Spec, SerialImplementsLifecycle
====
