---- MODULE ApprovalWorkflow ----
(***************************************************************************)
(* The approval workflow: /api/approvals (app/api/approval_routes.py), the *)
(* service behind it (app/approval/approval_service.py), the candidate     *)
(* repository, the paper broker's submit_order, and the scheduler job that *)
(* expires pending candidates.                                             *)
(*                                                                         *)
(* Every request runs in one database transaction at READ COMMITTED: its   *)
(* reads see what is committed, its writes are visible when the route      *)
(* commits, and a row it has flushed a write to stays locked until then.   *)
(* No statement checks that a row still is what the request read.  A       *)
(* request is therefore a few steps: the read that decides it, the flush   *)
(* that takes the row lock, the commit.  Everything between two of these   *)
(* is private to the request and is one step with its neighbour.           *)
(*                                                                         *)
(* `status` and the other row variables are the COMMITTED rows.  DRAFT,    *)
(* RISK_CHECKING and APPROVED exist only inside a transaction, so no       *)
(* committed row has them.                                                 *)
(***************************************************************************)
EXTENDS PreTradeRisk, Sequences

CONSTANTS
  Candidates,     \* candidate ids, handed out in increasing order
  NoProfile,      \* the profile of a row that does not exist
  Accounts,       \* virtual accounts
  Profiles,       \* what create_candidate may be asked for
  Books,          \* what the risk engine may read of an account
  Workers,        \* request threads
  Switches,       \* the settings a process may be started with
  ExpireLimit,    \* list_expired_pending(limit = 200)
  MaxRestarts,    \* bound: how often the process restarts
  Deployments     \* the ways the service may be deployed

ASSUME WorkflowConstants ==
  /\ Candidates \subseteq Nat \ {0}
  /\ NoProfile \notin Profiles
  /\ IsFiniteSet(Candidates)
  /\ ExpireLimit \in Nat \ {0}
  /\ MaxRestarts \in Nat
  /\ \A d \in Deployments :
       /\ d.singleWriter \in BOOLEAN  \* TRUE: one writer at a time in the whole
                                    \* database (SQLite), FALSE: row locks (PostgreSQL)
       /\ d.scheduler \in BOOLEAN     \* Settings.scheduler_enabled: the job runs at all
       /\ d.oneClient \in BOOLEAN     \* TRUE: a request waits for the one before it
  /\ \A s \in Switches : /\ s.safety \in BOOLEAN  \* TRADING_SAFETY_ENABLED
                         /\ s.kill \in BOOLEAN    \* KILL_SWITCH_ENABLED
                         /\ s.paper \in BOOLEAN   \* PAPER_TRADING_ENABLED
  /\ \A p \in Profiles : p.acct \in Accounts /\ p.amt \in Nat

VARIABLES
  status,    \* order_candidates.status, "ABSENT" before the row exists
  link,      \* order_candidates.virtual_order_id, 0 for NULL
  profile,   \* the row's account_id, symbol, side, quantity, estimated_amount
  audit,     \* approval_audit_log: the candidate's event types, oldest first
  orders,    \* virtual_orders in id order: the key and the candidate it is for
  recent,    \* candidates created within the last 5 minutes
  today,     \* candidates created on the current KST date
  overdue,   \* candidates with expires_at <= now
  book,      \* what the risk engine reads of each account
  tx,        \* the request each worker is serving
  job,       \* the transaction of expire_pending_approvals
  switches,  \* Settings: read once per process (get_settings is cached)
  restarts,
  deployment \* never changes: restarts keep the database and the clients

rows == <<status, link, profile, audit, orders>>
clock == <<recent, today, overdue>>
process == <<switches, restarts, deployment>>
vars == <<rows, clock, book, tx, job, process>>

Statuses == {"ABSENT", "RISK_REJECTED", "PENDING_APPROVAL",
             "EXECUTED_PAPER", "REJECTED", "EXPIRED"}
TerminalStatuses == {"RISK_REJECTED", "EXECUTED_PAPER", "REJECTED", "EXPIRED"}
Events == {"CREATED", "RISK_CHECKED", "RISK_REJECTED", "APPROVED",
           "EXECUTED_PAPER", "REJECTED", "EXPIRED"}

Idle == [op |-> "idle", cand |-> 0, profile |-> NoProfile]
NoJob == [running |-> FALSE, todo |-> {}, done |-> {}]

Init ==
  /\ status = [c \in Candidates |-> "ABSENT"]
  /\ link = [c \in Candidates |-> 0]
  /\ profile = [c \in Candidates |-> NoProfile]
  /\ audit = [c \in Candidates |-> <<>>]
  /\ orders = <<>>
  /\ recent = {} /\ today = {} /\ overdue = {}
  /\ book \in [Accounts -> Books]
  /\ tx = [w \in Workers |-> Idle]
  /\ job = NoJob
  /\ switches \in Switches
  /\ restarts = 0
  /\ deployment \in Deployments

----
(***************************************************************************)
(* Locks.  A transaction holds a candidate's row from its first flush of   *)
(* that row until its end.  On SQLite the first flush takes the only write *)
(* lock of the database, and the INSERT of create_candidate is one.        *)
(***************************************************************************)
Locking == {"approve:applied", "approve:found", "approve:ordered", "approve:denied"}
Creating == {"create:passed", "create:failed"}

RowFree(c) == /\ \A w \in Workers : ~(tx[w].op \in Locking /\ tx[w].cand = c)
              /\ c \notin job.done

NoWorkerWrites == \A w \in Workers : tx[w].op \notin Locking \cup Creating

DatabaseFree == deployment.singleWriter => NoWorkerWrites /\ job.done = {}

(***************************************************************************)
(* Gates.  The routes check the settings first and the service checks them *)
(* again; both read the same cached Settings, so one check stands for both *)
(* and KILL_SWITCH_BLOCKED is never written through the API.  Expiry is    *)
(* the exception: its route needs trading_safety only, while the job also  *)
(* stands still under the kill switch.                                     *)
(***************************************************************************)
\* Mutant: the kill switch is not looked at.
WorkflowOpenUnlessUnsafe == switches.safety
WorkflowOpen == switches.safety /\ ~switches.kill
ExpireRouteOpen == switches.safety
ExpireJobOpen == switches.safety /\ ~switches.kill

\* The committed active candidates the engine compares c with.
OthersOf(c, acct) ==
  {[id |-> d, sym |-> profile[d].sym, side |-> profile[d].side,
    qty |-> profile[d].qty, amt |-> profile[d].amt,
    today |-> d \in today, recent |-> d \in recent] :
       d \in {e \in Candidates \ {c} : /\ status[e] \in ActiveStatuses
                                       /\ profile[e].acct = acct}}

RiskOk(c, p) == RiskPasses(book[p.acct], p, OthersOf(c, p.acct), switches.kill)

\* One UPDATE of the candidate's row, and the audit rows flushed with it.
Decide(c, newStatus, events) ==
  /\ status' = [status EXCEPT ![c] = newStatus]
  /\ audit' = [audit EXCEPT ![c] = @ \o events]

Serve(w, op, c) == tx' = [tx EXCEPT ![w] = [op |-> op, cand |-> c, profile |-> NoProfile]]
Finish(w) == tx' = [tx EXCEPT ![w] = Idle]

----
(***************************************************************************)
(* POST /candidates: create_candidate.  The row is inserted as DRAFT,      *)
(* moved to RISK_CHECKING, evaluated, and moved on, all in one call; the   *)
(* engine reads other requests' committed rows only.                       *)
(***************************************************************************)
Allocated(c) == \/ status[c] # "ABSENT"
                \/ \E w \in Workers : tx[w].op \in Creating /\ tx[w].cand = c

CreateEvaluate(w, c, p) ==
  /\ tx[w].op = "idle"
  /\ WorkflowOpen
  /\ ~Allocated(c)
  /\ \A d \in Candidates : d < c => Allocated(d)
  /\ DatabaseFree
  /\ tx' = [tx EXCEPT ![w] =
              [op |-> IF RiskOk(c, p) THEN "create:passed" ELSE "create:failed",
               cand |-> c, profile |-> p]]
  /\ recent' = recent \cup {c}
  /\ today' = today \cup {c}
  /\ UNCHANGED <<rows, overdue, book, job, process>>

\* Mutant: the move on from RISK_CHECKING is missing.
CreateStuckInRiskCheck(w) ==
  LET c == tx[w].cand IN
  /\ tx[w].op = "create:passed"
  /\ Decide(c, "RISK_CHECKING", <<"CREATED", "RISK_CHECKED">>)
  /\ profile' = [profile EXCEPT ![c] = tx[w].profile]
  /\ Finish(w)
  /\ UNCHANGED <<link, orders, clock, book, job, process>>

CreateAccepted(w) ==
  LET c == tx[w].cand IN
  /\ tx[w].op = "create:passed"
  /\ Decide(c, "PENDING_APPROVAL", <<"CREATED", "RISK_CHECKED">>)
  /\ profile' = [profile EXCEPT ![c] = tx[w].profile]
  /\ Finish(w)
  /\ UNCHANGED <<link, orders, clock, book, job, process>>

CreateRiskRejected(w) ==
  LET c == tx[w].cand IN
  /\ tx[w].op = "create:failed"
  /\ Decide(c, "RISK_REJECTED", <<"CREATED", "RISK_CHECKED", "RISK_REJECTED">>)
  /\ profile' = [profile EXCEPT ![c] = tx[w].profile]
  /\ Finish(w)
  /\ UNCHANGED <<link, orders, clock, book, job, process>>

----
(***************************************************************************)
(* POST /{id}/approve.  A request for a candidate that is missing or not   *)
(* PENDING_APPROVAL is answered 404 or 409 and changes nothing.            *)
(***************************************************************************)
\* Mutant: any existing candidate can be approved.
ApproveLoadAny(w, c) ==
  /\ tx[w].op = "idle"
  /\ WorkflowOpen
  /\ status[c] # "ABSENT"
  /\ Serve(w, "approve:loaded", c)
  /\ UNCHANGED <<rows, clock, book, job, process>>

ApproveLoad(w, c) ==
  /\ tx[w].op = "idle"
  /\ WorkflowOpen
  /\ status[c] = "PENDING_APPROVAL"
  /\ Serve(w, "approve:loaded", c)
  /\ UNCHANGED <<rows, clock, book, job, process>>

\* The risk engine runs again; expires_at is not looked at.
ApproveRecheck(w) ==
  LET c == tx[w].cand IN
  /\ tx[w].op = "approve:loaded"
  /\ Serve(w, IF RiskOk(c, profile[c]) THEN "approve:checked" ELSE "approve:failed", c)
  /\ UNCHANGED <<rows, clock, book, job, process>>

\* PENDING_APPROVAL -> APPROVED is flushed: the row is locked from here on.
ApproveFlush(w) ==
  LET c == tx[w].cand IN
  /\ tx[w].op = "approve:checked"
  /\ RowFree(c) /\ DatabaseFree
  /\ Serve(w, "approve:applied", c)
  /\ UNCHANGED <<rows, clock, book, job, process>>

\* A failed re-check flushes REJECTED and a RISK_REJECTED audit row ...
ApproveDenyFlush(w) ==
  LET c == tx[w].cand IN
  /\ tx[w].op = "approve:failed"
  /\ RowFree(c) /\ DatabaseFree
  /\ Serve(w, "approve:denied", c)
  /\ UNCHANGED <<rows, clock, book, job, process>>

\* ... and raises: the route answers 409 without a commit, which undoes both.
ApproveDeny(w) ==
  /\ tx[w].op = "approve:denied"
  /\ Finish(w)
  /\ UNCHANGED <<rows, clock, book, job, process>>

\* Mutant: a key per request instead of one per candidate.
KeyPerRequest(w, c) == <<w, c>>

\* The key submit_order looks up: approval-{candidate.id}.
IdempotencyKey(w, c) == <<"approval", c>>

OrdersWithKey(key) == {i \in DOMAIN orders : orders[i].key = key}

PaperOpen(acct) == switches.paper /\ book[acct].enabled

(***************************************************************************)
(* submit_order inside the transaction.  The UNIQUE (account_id,           *)
(* idempotency_key) of virtual_orders repeats the lookup at the INSERT;    *)
(* the row lock makes both see the same rows, so it never refuses one.     *)
(***************************************************************************)
ApproveSubmit(w) ==
  LET c == tx[w].cand IN
  /\ tx[w].op = "approve:applied"
  /\ PaperOpen(profile[c].acct)
  /\ Serve(w, IF OrdersWithKey(IdempotencyKey(w, c)) # {}
              THEN "approve:found" ELSE "approve:ordered", c)
  /\ UNCHANGED <<rows, clock, book, job, process>>

\* PaperTradingDisabledError: 409, nothing committed.
ApproveSubmitRefused(w) ==
  /\ tx[w].op = "approve:applied"
  /\ ~PaperOpen(profile[tx[w].cand].acct)
  /\ Finish(w)
  /\ UNCHANGED <<rows, clock, book, job, process>>

\* attach_virtual_order, APPROVED -> EXECUTED_PAPER, commit.
ApproveCommit(w) ==
  LET c == tx[w].cand
      key == IdempotencyKey(w, c)
  IN
  /\ \/ /\ tx[w].op = "approve:found"
        /\ link' = [link EXCEPT ![c] = CHOOSE i \in OrdersWithKey(key) : TRUE]
        /\ UNCHANGED orders
     \/ /\ tx[w].op = "approve:ordered"
        /\ link' = [link EXCEPT ![c] = Len(orders) + 1]
        /\ orders' = Append(orders, [key |-> key, cand |-> c])
  /\ Decide(c, "EXECUTED_PAPER", <<"APPROVED", "EXECUTED_PAPER">>)
  /\ Finish(w)
  /\ UNCHANGED <<profile, clock, book, job, process>>

----
\* Mutant: an executed candidate can still be rejected.
RejectLoadLate(w, c) ==
  /\ tx[w].op = "idle"
  /\ WorkflowOpen
  /\ status[c] \in {"PENDING_APPROVAL", "EXECUTED_PAPER"}
  /\ Serve(w, "reject:loaded", c)
  /\ UNCHANGED <<rows, clock, book, job, process>>

\* POST /{id}/reject
RejectLoad(w, c) ==
  /\ tx[w].op = "idle"
  /\ WorkflowOpen
  /\ status[c] = "PENDING_APPROVAL"
  /\ Serve(w, "reject:loaded", c)
  /\ UNCHANGED <<rows, clock, book, job, process>>

RejectCommit(w) ==
  LET c == tx[w].cand IN
  /\ tx[w].op = "reject:loaded"
  /\ RowFree(c) /\ DatabaseFree
  /\ Decide(c, "REJECTED", <<"REJECTED">>)
  /\ Finish(w)
  /\ UNCHANGED <<link, profile, orders, clock, book, job, process>>

\* POST /{id}/expire: any pending candidate, overdue or not.
ExpireLoad(w, c) ==
  /\ tx[w].op = "idle"
  /\ ExpireRouteOpen
  /\ status[c] = "PENDING_APPROVAL"
  /\ Serve(w, "expire:loaded", c)
  /\ UNCHANGED <<rows, clock, book, job, process>>

\* Mutant: no audit row for an expiry.
ExpireCommitUnlogged(w) ==
  LET c == tx[w].cand IN
  /\ tx[w].op = "expire:loaded"
  /\ RowFree(c) /\ DatabaseFree
  /\ Decide(c, "EXPIRED", <<>>)
  /\ Finish(w)
  /\ UNCHANGED <<link, profile, orders, clock, book, job, process>>

ExpireCommit(w) ==
  LET c == tx[w].cand IN
  /\ tx[w].op = "expire:loaded"
  /\ RowFree(c) /\ DatabaseFree
  /\ Decide(c, "EXPIRED", <<"EXPIRED">>)
  /\ Finish(w)
  /\ UNCHANGED <<link, profile, orders, clock, book, job, process>>

----
(***************************************************************************)
(* The job expire_pending_approvals: one query lists its targets, each is  *)
(* expired in id order, run_job commits once at the end.  The scheduler    *)
(* runs one instance of a job at a time.                                   *)
(***************************************************************************)
ExpiredPending == {c \in Candidates : status[c] = "PENDING_APPROVAL" /\ c \in overdue}

\* Mutant: the limit is off by one.
LowestButOne(S, n) == {c \in S : Cardinality({d \in S : d < c}) < n - 1}

Lowest(S, n) == {c \in S : Cardinality({d \in S : d < c}) < n}

JobStart ==
  /\ deployment.scheduler
  /\ ExpireJobOpen
  /\ ~job.running
  /\ ExpiredPending # {}
  /\ job' = [running |-> TRUE, todo |-> Lowest(ExpiredPending, ExpireLimit), done |-> {}]
  /\ UNCHANGED <<rows, clock, book, tx, process>>

\* session.get answers from the identity map: what is expired is the row as listed.
JobExpire(c) ==
  /\ c \in job.todo
  /\ \A d \in job.todo : c <= d
  /\ RowFree(c)
  /\ deployment.singleWriter => NoWorkerWrites
  /\ job' = [job EXCEPT !.todo = @ \ {c}, !.done = @ \cup {c}]
  /\ UNCHANGED <<rows, clock, book, tx, process>>

\* Mutant: the job's transaction is left open after its last write.
JobCommitKeepsLocks ==
  /\ job.running
  /\ job.todo = {}
  /\ status' = [c \in Candidates |-> IF c \in job.done THEN "EXPIRED" ELSE status[c]]
  /\ audit' = [c \in Candidates |-> IF c \in job.done THEN Append(audit[c], "EXPIRED")
                                                      ELSE audit[c]]
  /\ job' = [job EXCEPT !.running = FALSE]
  /\ UNCHANGED <<link, profile, orders, clock, book, tx, process>>

JobCommit ==
  /\ job.running
  /\ job.todo = {}
  /\ status' = [c \in Candidates |-> IF c \in job.done THEN "EXPIRED" ELSE status[c]]
  /\ audit' = [c \in Candidates |-> IF c \in job.done THEN Append(audit[c], "EXPIRED")
                                                      ELSE audit[c]]
  /\ job' = NoJob
  /\ UNCHANGED <<link, profile, orders, clock, book, tx, process>>

----
\* Time: the duplicate window, the KST day, the TTL of a pending candidate.
WindowPasses(c) ==
  /\ c \in recent
  /\ recent' = recent \ {c}
  /\ UNCHANGED <<rows, today, overdue, book, tx, job, process>>

Midnight ==
  /\ today # {}
  /\ today' = {}
  /\ UNCHANGED <<rows, recent, overdue, book, tx, job, process>>

TtlPasses(c) ==
  /\ status[c] = "PENDING_APPROVAL"
  /\ c \notin overdue
  /\ overdue' = overdue \cup {c}
  /\ UNCHANGED <<rows, recent, today, book, tx, job, process>>

\* Fills, prices, snapshots and the account's own switch move the book.
BookMoves(a, b) ==
  /\ b # book[a]
  /\ book' = [book EXCEPT ![a] = b]
  /\ UNCHANGED <<rows, clock, tx, job, process>>

\* The process dies or is restarted with other settings: what was not
\* committed is gone, and so are the locks.
Restart ==
  /\ restarts < MaxRestarts
  /\ restarts' = restarts + 1
  /\ switches' \in Switches
  /\ tx' = [w \in Workers |-> Idle]
  /\ job' = NoJob
  /\ UNCHANGED <<rows, clock, book, deployment>>

----
TakeLock(w) == ApproveFlush(w) \/ ApproveDenyFlush(w) \/ RejectCommit(w) \/ ExpireCommit(w)

Proceed(w) == \/ CreateAccepted(w) \/ CreateRiskRejected(w)
              \/ ApproveRecheck(w) \/ ApproveDeny(w)
              \/ ApproveSubmit(w) \/ ApproveSubmitRefused(w) \/ ApproveCommit(w)

Request(w) ==
  /\ deployment.oneClient => \A v \in Workers : tx[v].op = "idle"
  /\ \E c \in Candidates : \/ \E p \in Profiles : CreateEvaluate(w, c, p)
                           \/ ApproveLoad(w, c)
                           \/ RejectLoad(w, c)
                           \/ ExpireLoad(w, c)

ExpireJob == JobStart \/ (\E c \in Candidates : JobExpire(c)) \/ JobCommit

Environment == \/ \E c \in Candidates : WindowPasses(c) \/ TtlPasses(c)
               \/ Midnight
               \/ \E a \in Accounts, b \in Books : BookMoves(a, b)
               \/ Restart

Next == \/ \E w \in Workers : Request(w) \/ Proceed(w) \/ TakeLock(w)
        \/ ExpireJob
        \/ Environment

Spec == Init /\ [][Next]_vars

(***************************************************************************)
(* A request that has started goes on, and so does the job; the scheduler  *)
(* starts the job every five minutes.  A transaction that waits for a row  *)
(* lock is queued for it and is not passed over for ever: strong fairness. *)
(***************************************************************************)
Fairness ==
  /\ \A w \in Workers : WF_vars(Proceed(w)) /\ SF_vars(TakeLock(w))
  /\ WF_vars(JobStart)
  /\ WF_vars(JobCommit)
  /\ \A c \in Candidates : SF_vars(JobExpire(c))

FairSpec == Spec /\ Fairness

----
(*                               Properties                                *)
----
Ops == {"idle", "create:passed", "create:failed", "approve:loaded",
        "approve:checked", "approve:failed", "approve:applied", "approve:denied",
        "approve:found", "approve:ordered", "reject:loaded", "expire:loaded"}

Requests == {Idle} \cup [op : Ops \ {"idle"}, cand : Candidates,
                          profile : Profiles \cup {NoProfile}]

Orders == [key : {"approval"} \X Candidates, cand : Candidates]

\* Type invariant: what each committed row and each transaction may hold.
TypeOK ==
  /\ status \in [Candidates -> Statuses]
  /\ link \in [Candidates -> Nat]
  /\ profile \in [Candidates -> Profiles \cup {NoProfile}]
  /\ audit \in [Candidates -> Seq(Events)]
  /\ orders \in Seq(Orders)
  /\ recent \subseteq Candidates
  /\ today \subseteq Candidates
  /\ overdue \subseteq Candidates
  /\ book \in [Accounts -> Books]
  /\ tx \in [Workers -> Requests]
  /\ job \in [running : BOOLEAN, todo : SUBSET Candidates, done : SUBSET Candidates]
  /\ switches \in Switches
  /\ restarts \in 0 .. MaxRestarts
  /\ deployment \in Deployments

(***************************************************************************)
(* Every paper order is the one its candidate is linked to, so a candidate *)
(* never has two of them, however many approvals race and wherever the     *)
(* process dies; and an executed candidate has one.  Row lock, idempotency *)
(* lookup and the single commit in approve_candidate together give this.   *)
(***************************************************************************)
OneOrderPerCandidate ==
  /\ \A i \in DOMAIN orders : link[orders[i].cand] = i
  /\ \A c \in Candidates :
       status[c] = "EXECUTED_PAPER" =>
         /\ link[c] \in DOMAIN orders
         /\ orders[link[c]].cand = c

\* The status a candidate has after its audit rows, oldest first.
StatusAfter(events) ==
  IF events = <<>> THEN "ABSENT"
  ELSE LET last == events[Len(events)] IN
       IF last = "RISK_CHECKED" THEN "PENDING_APPROVAL" ELSE last

(***************************************************************************)
(* The audit log explains the row: the last event of a candidate is the    *)
(* one that gave it its status, also when two requests decided it at the   *)
(* same time.  Status and audit row are flushed under the row lock and     *)
(* committed together.                                                     *)
(***************************************************************************)
AuditExplainsStatus == \A c \in Candidates : status[c] = StatusAfter(audit[c])

(***************************************************************************)
(* A candidate no running transaction has read as pending, and that was    *)
(* decided, is decided for good: row and audit log never change again.     *)
(* The lost updates of this workflow are confined to transactions that     *)
(* were already under way when the decision was committed.                 *)
(***************************************************************************)
InFlight(c) == \/ \E w \in Workers : tx[w].cand = c
               \/ c \in job.todo \cup job.done
Settled(c) == status[c] \in TerminalStatuses /\ ~InFlight(c)

SettledIsFinal ==
  [][\A c \in Candidates :
       Settled(c) => /\ UNCHANGED <<status[c], link[c], audit[c]>>
                     /\ Settled(c)']_vars

(***************************************************************************)
(* Under the kill switch, or with trading safety off, nothing is created,  *)
(* approved, rejected or ordered; with safety on a request may still       *)
(* expire a candidate.  The settings are those of the running process.     *)
(***************************************************************************)
SwitchesFreezeTheWorkflow ==
  [][switches.kill \/ ~switches.safety =>
       /\ UNCHANGED orders
       /\ \A c \in Candidates :
            status'[c] # status[c] => /\ status'[c] = "EXPIRED"
                                      /\ switches.safety]_vars

(***************************************************************************)
(* Why no candidate gets two orders.  One transaction at a time is past    *)
(* its first flush of a row; what it learnt there about the candidate's    *)
(* order (there is none, or the key has one) stays true until it commits;  *)
(* a key names its candidate.                                              *)
(***************************************************************************)
RowLocksExclude ==
  \A w \in Workers : tx[w].op \in Locking =>
    /\ \A v \in Workers : tx[v].op \in Locking /\ tx[v].cand = tx[w].cand => v = w
    /\ tx[w].cand \notin job.done

KeysNameCandidates == \A i \in DOMAIN orders : orders[i].key = <<"approval", orders[i].cand>>

LookupsStayTrue ==
  \A w \in Workers :
    /\ tx[w].op = "approve:ordered" =>
         \A i \in DOMAIN orders : orders[i].cand # tx[w].cand
    /\ tx[w].op = "approve:found" =>
         \E i \in DOMAIN orders : orders[i].cand = tx[w].cand

OrderInvariant ==
  RowLocksExclude /\ KeysNameCandidates /\ LookupsStayTrue /\ OneOrderPerCandidate

(***************************************************************************)
(* The workflow implements the candidate's lifecycle when requests come    *)
(* one at a time and the job is off: no lost update, and no order for a    *)
(* candidate that was declined.                                            *)
(***************************************************************************)
Lifecycle == INSTANCE CandidateLifecycle WITH
               state <- status, ordered <- {orders[i].cand : i \in DOMAIN orders}

Serial == deployment.oneClient /\ ~deployment.scheduler

SerialImplementsLifecycle ==
  /\ Serial => Lifecycle!Init
  /\ [][Serial => Lifecycle!Next \/ UNCHANGED Lifecycle!vars]_vars

----
\* The committed pending candidates of an account, and what they add up to.
Pending(acct) == {c \in Candidates : /\ status[c] = "PENDING_APPROVAL"
                                     /\ profile[c].acct = acct}
Total(S) == SumFunctionOnSet([c \in Candidates |-> profile[c].amt], S)

\* What is pending on one symbol stays within max_order_amount.
SymbolCapHeld ==
  \A a \in Accounts : \A p \in Profiles :
    Total({c \in Pending(a) : profile[c].sym = p.sym}) <= MaxOrderAmount

\* The same for the KST day and max_daily_order_amount.
DailyCapHeld ==
  \A a \in Accounts : Total(Pending(a) \cap today) <= MaxDailyOrderAmount

\* The duplicate_recent rule, on the committed rows.
NoRecentTwin ==
  \A a \in Accounts : \A c, d \in Pending(a) \cap recent :
    (/\ profile[c].sym = profile[d].sym
     /\ profile[c].side = profile[d].side
     /\ profile[c].qty = profile[d].qty) => c = d

(***************************************************************************)
(* When writers exclude one another (SQLite), what is pending on one       *)
(* symbol never exceeds max_order_amount, what is pending of a day never   *)
(* exceeds max_daily_order_amount, and no two pending candidates of the    *)
(* last five minutes ask for the same thing.  create_candidate inserts     *)
(* before it evaluates, so that it evaluates alone; with row locks two     *)
(* creations do not see each other.                                        *)
(***************************************************************************)
OneWriterKeepsTheLimits ==
  deployment.singleWriter => SymbolCapHeld /\ DailyCapHeld /\ NoRecentTwin

----
\* Every request is answered: no worker waits for a lock, or loops, for ever.
RequestsFinish == \A w \in Workers : tx[w].op # "idle" ~> tx[w].op = "idle"

(***************************************************************************)
(* An overdue candidate does not stay pending, as long as the settings the *)
(* process ends up with let the job run.                                   *)
(***************************************************************************)
OverdueIsResolved ==
  \A c \in Candidates :
    []<>(~ExpireJobOpen) \/ (c \in ExpiredPending ~> status[c] # "PENDING_APPROVAL")

----
(***************************************************************************)
(* Statements of the repository that its code does not keep.               *)
(***************************************************************************)

\* "Terminal states refuse every further transition" (order_candidate.py):
\* a request that read the row while it was pending writes over a decision.
TerminalStatesRefuse ==
  [][\A c \in Candidates :
       status[c] \in TerminalStatuses => status'[c] = status[c]]_vars

\* "On re-check failure, transitions to RISK_REJECTED" (approve's docstring):
\* the route rolls the transition and its audit row back.
RecheckFailureIsRecorded ==
  [][\A w \in Workers :
       ApproveDeny(w) => status'[tx[w].cand] # "PENDING_APPROVAL"]_vars
====
