---- MODULE DailyJobs_proofs ----
(***************************************************************************)
(* Proofs about DailyJobs, for every universe, set of holdings and threads,*)
(* every timetable and list limit, and any number of days, runs, crashes   *)
(* and failed writes.                                                      *)
(***************************************************************************)
EXTENDS DailyWork, DailyData_proofs, FiniteSetTheorems, TLAPS

\* Rows of holding_checks and notification_logs, what messages are about, and
\* the fields of what a thread has in hand.
Levels == {"HIGH_RISK", "CHECK_ALERT", "NONE"}
Checks == [sym : Held, day : Int, type : Jobs, level : Levels]
Targets == [kind : Jobs, day : Int, sym : Held \cup {"-"}, level : Levels \cup {"-"}]
Logs == [target : Targets, status : {"SUCCESS", "FAILED", "DRY_RUN", "DISABLED"}, run : Nat]
Runs == [job : Jobs, day : Int, status : {"RUNNING", "SUCCESS", "PARTIAL", "FAILED"}]
CallFields == {"pc", "job", "run", "day", "todo", "fresh", "w", "result"}
WriteFields == {"ranked", "prices", "ind", "checks", "logs", "sent", "derived"}
DbFields == {"ranked", "prices", "ind", "checks", "logs", "recommended", "held", "sent", "derived"}

Written(w) == /\ DOMAIN w = WriteFields
              /\ w.checks \subseteq Checks /\ w.logs \in Seq(Logs) /\ w.sent \in BOOLEAN

\* What a thread has in hand, by where it is in its job.
Handled(r) ==
  /\ DOMAIN r = CallFields
  /\ r.pc \in {"idle", "work", "locked", "report", "plan", "alerts", "commit", "finish"}
  /\ r.pc # "idle" => r.job \in Jobs /\ r.run \in Nat \ {0}
  /\ r.day \in Int
  /\ r.pc \in {"locked", "report", "plan", "alerts"} => r.job \in CheckJobs
  /\ r.pc = "locked" => r.todo \subseteq Held
  /\ r.pc = "alerts" => r.todo \subseteq Targets
  /\ r.pc \in {"idle", "work", "locked", "finish"} => r.w = NoWrites
  /\ r.pc \in {"idle", "work", "locked", "report"} => r.result = "-"
  /\ r.pc \in {"plan", "alerts"} => r.result \in {"SUCCESS", "PARTIAL"}
  /\ r.pc \in {"commit", "finish"} => r.result \in {"SUCCESS", "PARTIAL", "FAILED"}
  /\ Written(r.w)

Shape ==
  /\ today \in Int /\ slot \in Nat \ {0} /\ telegram \in {"on", "off", "nocreds"}
  /\ jobRuns \in Seq(Runs)
  /\ DOMAIN call = Threads /\ \A t \in Threads : Handled(call[t])
  /\ DOMAIN db = DbFields /\ db.held \subseteq Held
  /\ db.checks \subseteq Checks /\ db.logs \in Seq(Logs) /\ db.sent \in BOOLEAN
  /\ \A x \in DOMAIN delivered : delivered[x] \in Nat

----
\* Small facts about records and sequences.
LEMMA EmptyHands ==
  /\ Handled(AtRest) /\ AtRest.pc = "idle" /\ AtRest.w = NoWrites /\ AtRest.day = 0
  /\ AtRest.result = "-" /\ DOMAIN AtRest = CallFields
  /\ Written(NoWrites) /\ NoWrites.checks = {} /\ NoWrites.logs = <<>> /\ NoWrites.sent = FALSE
<1>1. /\ NoWrites.checks = {} /\ NoWrites.logs = <<>> /\ NoWrites.sent = FALSE
      /\ DOMAIN NoWrites = WriteFields
  BY DEF NoWrites, WriteFields
<1>2. <<>> \in Seq(Logs)
  OBVIOUS
<1>3. Written(NoWrites)
  BY <1>1, <1>2 DEF Written
<1>4. /\ AtRest.pc = "idle" /\ AtRest.day = 0 /\ AtRest.w = NoWrites
      /\ AtRest.result = "-" /\ DOMAIN AtRest = CallFields
  BY DEF AtRest, CallFields
<1>. QED BY <1>1, <1>3, <1>4 DEF Handled

\* Every element of b is one of c.
AmongItems(b, c) == \A i \in DOMAIN b : \E k \in DOMAIN c : c[k] = b[i]

LEMMA JoinedSpread ==
  ASSUME NEW S, NEW a \in Seq(S), NEW b \in Seq(S), NEW c, c = a \o b
  PROVE  /\ c \in Seq(S) /\ DOMAIN a \subseteq DOMAIN c
         /\ \A i \in DOMAIN a : c[i] = a[i]
         /\ AmongItems(b, c)
         /\ \A k \in DOMAIN c : k \in DOMAIN a \/ \E i \in DOMAIN b : c[k] = b[i]
<1>1. /\ c \in Seq(S) /\ DOMAIN a = 1 .. Len(a) /\ DOMAIN b = 1 .. Len(b)
      /\ DOMAIN c = 1 .. Len(a) + Len(b) /\ Len(a) \in Nat /\ Len(b) \in Nat
      /\ \A i \in DOMAIN a : c[i] = a[i]
      /\ \A i \in DOMAIN b : c[Len(a) + i] = b[i]
  OBVIOUS
<1>2. \A i \in DOMAIN b : Len(a) + i \in DOMAIN c
  BY <1>1
<1>3. \A k \in DOMAIN c : k \in DOMAIN a \/ k - Len(a) \in DOMAIN b
  BY <1>1
<1>4. \A k \in DOMAIN c : k - Len(a) \in DOMAIN b => c[k] = b[k - Len(a)]
  <2>1. \A k \in DOMAIN c : Len(a) + (k - Len(a)) = k
    BY <1>1
  <2>. QED BY <1>1, <2>1
<1>. QED BY <1>1, <1>2, <1>3, <1>4 DEF AmongItems

LEMMA OneMore ==
  ASSUME NEW S, NEW q \in Seq(S), NEW x \in S
  PROVE  /\ Append(q, x) \in Seq(S) /\ Len(q) + 1 \in Nat \ {0}
         /\ DOMAIN Append(q, x) = DOMAIN q \cup {Len(q) + 1}
         /\ Append(q, x)[Len(q) + 1] = x /\ Len(q) + 1 \notin DOMAIN q
         /\ \A i \in DOMAIN q : Append(q, x)[i] = q[i]
OBVIOUS

LEMMA RunsAre ==
  ASSUME Shape
  PROVE  \A r \in DOMAIN jobRuns : r \in Nat \ {0} /\ jobRuns[r] \in Runs
<1>1. jobRuns \in Seq(Runs)
  BY DEF Shape
<1>. QED BY <1>1

LEMMA ShapeInit == JobsInit => Shape
<1>. SUFFICES ASSUME JobsInit PROVE Shape
  OBVIOUS
<1>1. EarlierLog \in Logs
  BY DEF Report, Target, Targets, EarlierLog, Logs, Jobs
<1>2. <<EarlierLog>> \in Seq(Logs) /\ <<>> \in Seq(Logs) /\ <<>> \in Seq(Runs)
  BY <1>1
<1>3. PICK some \in BOOLEAN, logs \in {<<>>, <<EarlierLog>>}, held \in {Held, {}} :
        db = Database(some, logs, held)
  BY DEF JobsInit, Databases
<1>4. /\ DOMAIN db = DbFields /\ db.held = held /\ db.checks = {} /\ db.logs = logs
      /\ db.sent = FALSE
  BY <1>3 DEF Database, DbFields
<1>5. /\ today \in Int /\ slot \in Nat \ {0} /\ telegram \in {"on", "off", "nocreds"}
      /\ jobRuns = <<>> /\ call = [t \in Threads |-> AtRest] /\ DOMAIN delivered = {}
  BY DailyJobsAssumption DEF JobsInit
<1>. QED BY <1>2, <1>4, <1>5, EmptyHands DEF Shape

----
(***************************************************************************)
(* The inductive invariant.  A run that is under way has one thread, which *)
(* has what the run will have told: the invariant says of what is in hand  *)
(* what RunsTellWhatWasDone says of the tables, and that no row of the log *)
(* belongs to a run that may still fail.                                   *)
(***************************************************************************)
Recommendation == Report("report", 0)
Well(log) == ~IsAlert(log.target) /\ log.status \in {"SUCCESS", "DRY_RUN"}

\* The tables say that the check was done and reported.
Told(r) ==
  /\ \A s \in db.held : <<s, jobRuns[r].day, jobRuns[r].job>> \in {Key(c) : c \in db.checks}
  /\ \E i \in DOMAIN db.logs : db.logs[i].run = r /\ Well(db.logs[i])

\* The thread has the same in hand.
Telling(h) ==
  /\ {c.sym : c \in h.w.checks} = db.held
  /\ \E i \in DOMAIN h.w.logs : Well(h.w.logs[i])

Claims(h) == h.result = "SUCCESS" /\ h.job \in CheckJobs /\ db.held # {}

\* The run of a thread is its own.
Owns(h) ==
  /\ h.run \in DOMAIN jobRuns
  /\ jobRuns[h.run].status = "RUNNING" /\ jobRuns[h.run].job = h.job
  /\ h.result # "FAILED" => h.day = jobRuns[h.run].day

SentInHand(h) ==
  h.w.sent => /\ Arrivals(Recommendation) > 0
              /\ \E i \in DOMAIN h.w.logs : /\ h.w.logs[i].target = Recommendation
                                            /\ h.w.logs[i].status = "SUCCESS"

RowsInHand(h) ==
  /\ \A i \in DOMAIN h.w.logs : h.w.logs[i].run = h.run
  /\ \A c \in h.w.checks : c.day = h.day /\ c.type = h.job
  /\ h.result = "FAILED" => h.w.logs = <<>>

ToldInHand(h) ==
  Claims(h) => IF h.pc = "finish" THEN Told(h.run) ELSE Telling(h)

Honest(h) == h.pc # "idle" => Owns(h) /\ RowsInHand(h) /\ SentInHand(h) /\ ToldInHand(h)

Separate == \A t, u \in Threads :
  t # u /\ call[t].pc # "idle" /\ call[u].pc # "idle" => call[t].run # call[u].run

\* A row of the log belongs to a run that has not failed and will not.
LogsAreSafe ==
  \A i \in DOMAIN db.logs : db.logs[i].run # 0 =>
    /\ db.logs[i].run \in DOMAIN jobRuns /\ jobRuns[db.logs[i].run].status # "FAILED"
    /\ \A t \in Threads : call[t].pc # "idle" /\ call[t].run = db.logs[i].run =>
         call[t].pc = "finish" /\ call[t].result # "FAILED"

SuccessIsTold ==
  \A r \in DOMAIN jobRuns :
    jobRuns[r].status = "SUCCESS" /\ jobRuns[r].job \in CheckJobs /\ db.held # {} => Told(r)

SentIsTrue ==
  db.sent => /\ Arrivals(Recommendation) > 0
             /\ \E i \in DOMAIN db.logs : /\ db.logs[i].target = Recommendation
                                          /\ db.logs[i].status = "SUCCESS"

JobRunsInv ==
  /\ Shape /\ \A t \in Threads : Honest(call[t])
  /\ Separate /\ LogsAreSafe /\ SuccessIsTold /\ SentIsTrue

LEMMA RunsInvTells == JobRunsInv => RunsTellWhatWasDone
<1>. SUFFICES ASSUME JobRunsInv PROVE RunsTellWhatWasDone
  OBVIOUS
<1>1. \A i \in DOMAIN db.logs : db.logs[i].run # 0 => jobRuns[db.logs[i].run].status # "FAILED"
  BY DEF JobRunsInv, LogsAreSafe
<1>2. SuccessIsTold /\ SentIsTrue
  BY DEF JobRunsInv
<1>. QED BY <1>1, <1>2 DEF RunsTellWhatWasDone, SuccessIsTold, SentIsTrue, Told, Well, Recommendation

LEMMA RunsInvInit == JobsInit => JobRunsInv
<1>. SUFFICES ASSUME JobsInit PROVE JobRunsInv
  OBVIOUS
<1>1. /\ jobRuns = <<>> /\ call = [t \in Threads |-> AtRest] /\ db \in Databases
  BY DEF JobsInit
<1>2. PICK some \in BOOLEAN, logs \in {<<>>, <<EarlierLog>>}, held \in {Held, {}} :
        db = Database(some, logs, held)
  BY <1>1 DEF Databases
<1>3. db.logs = logs /\ db.sent = FALSE
  BY <1>2 DEF Database
<1>4. \A i \in DOMAIN logs : logs[i].run = 0
  BY DEF EarlierLog
<1>. QED BY <1>1, <1>3, <1>4, ShapeInit, EmptyHands
         DEF JobRunsInv, Honest, Separate, LogsAreSafe, SuccessIsTold, SentIsTrue

----
(***************************************************************************)
(* What a step of the work does.  The thread stays on its run; the others, *)
(* the tables and the rows of the runs stay; messages may reach the chat.  *)
(***************************************************************************)
Others(t) == DOMAIN call' = Threads /\ \A u \in Threads \ {t} : call'[u] = call[u]
InWork == Working \cup {"locked"}

Heard ==
  /\ \A x \in DOMAIN delivered' : delivered'[x] \in Nat
  /\ Arrivals(Recommendation)' >= Arrivals(Recommendation)

WorkStep(t) ==
  /\ call[t].pc \in InWork /\ call'[t].pc # "idle" /\ call'[t].run = call[t].run
  /\ (call'[t].pc = "finish" => call'[t].result = "FAILED")
  /\ Handled(call'[t]) /\ Honest(call[t])'
  /\ Others(t) /\ Unwritten /\ Heard

\* The alerts among rows of the log.
Alerts(q) == {q[i].target : i \in {n \in DOMAIN q : IsAlert(q[n].target)}}

\* The thread neither checks holdings nor alerts.
QuietStep(t) == /\ call'[t].w.checks = {} /\ Alerts(call'[t].w.logs) = {}
            /\ call'[t].pc \notin {"alerts", "report"}

LEMMA NoRowsNoAlerts == Alerts(<<>>) = {}
BY DEF Alerts

LEMMA QuietIsHeard == Shape /\ Silently => Heard /\ Unwritten
BY DEF Shape, Silently, Heard, Arrivals

LEMMA StaysOwned ==
  ASSUME NEW t, Unwritten, Owns(call[t]), call'[t].run = call[t].run, call'[t].job = call[t].job,
         call'[t].result # "FAILED" => call'[t].day = call[t].day /\ call[t].result # "FAILED"
  PROVE  Owns(call[t])'
BY DEF Owns, Unwritten

LEMMA WorkKeeps ==
  ASSUME JobRunsInv, NEW t \in Threads, WorkStep(t)
  PROVE  JobRunsInv'
<1>. USE DEF WorkStep
<1>1. Shape'
  BY DEF JobRunsInv, Shape, Unwritten, Others, Heard
<1>2. ASSUME NEW u \in Threads PROVE Honest(call[u])'
  <2>1. CASE u = t
    BY <2>1
  <2>2. CASE u # t
    <3>1. call'[u] = call[u] /\ Honest(call[u]) /\ UNCHANGED <<db, jobRuns>>
      BY <2>2 DEF Others, JobRunsInv, Unwritten
    <3>2. Arrivals(Recommendation) > 0 => Arrivals(Recommendation)' > 0
      BY DEF Heard, JobRunsInv, Shape, Arrivals
    <3>. QED BY <3>1, <3>2 DEF Honest, Owns, RowsInHand, SentInHand, ToldInHand, Claims, Told, Telling
  <2>. QED BY <2>1, <2>2
<1>3. Separate'
  BY DEF JobRunsInv, Separate, Others, InWork, Working
<1>4. LogsAreSafe'
  BY DEF JobRunsInv, LogsAreSafe, Others, Unwritten, InWork, Working
<1>5. SuccessIsTold'
  BY DEF JobRunsInv, SuccessIsTold, Told, Unwritten
<1>6. SentIsTrue'
  <2>1. Arrivals(Recommendation) > 0 => Arrivals(Recommendation)' > 0
    BY DEF Heard, JobRunsInv, Shape, Arrivals
  <2>. QED BY <2>1 DEF JobRunsInv, SentIsTrue, Unwritten
<1>. QED BY <1>1, <1>2, <1>3, <1>4, <1>5, <1>6 DEF JobRunsInv

----
(***************************************************************************)
(* Each action of the work is such a step.                                 *)
(***************************************************************************)
\* A thread at work has its run and, before its report, nothing to tell.
LEMMA AtWork ==
  ASSUME JobRunsInv, NEW t \in Threads, call[t].pc \in InWork \cup {"commit", "finish"}
  PROVE  /\ DOMAIN call = Threads /\ Handled(call[t]) /\ DOMAIN call[t] = CallFields
         /\ Honest(call[t]) /\ Owns(call[t]) /\ RowsInHand(call[t]) /\ SentInHand(call[t])
         /\ ToldInHand(call[t]) /\ Shape
BY DEF JobRunsInv, Shape, Handled, Honest, InWork, Working

LEMMA ReturnStep ==
  ASSUME JobRunsInv, NEW t \in Threads, call[t].pc = "work", NEW writes, NEW result,
         Written(writes), writes.checks = {}, writes.logs = <<>>, writes.sent = FALSE,
         result \in {"SUCCESS", "PARTIAL", "FAILED"}, Return(t, writes, result),
         call[t].job \in CheckJobs => db.held = {}, Silently
  PROVE  WorkStep(t) /\ QuietStep(t)
<1>1. /\ DOMAIN call = Threads /\ Handled(call[t]) /\ DOMAIN call[t] = CallFields
      /\ Owns(call[t]) /\ call[t].result = "-" /\ Shape
  BY AtWork DEF Handled, InWork, Working
<1>2. /\ call'[t] = [call[t] EXCEPT !.pc = "commit", !.w = writes, !.result = result]
      /\ Others(t)
  BY <1>1 DEF Return, Others, CallFields
<1>3. /\ call'[t].pc = "commit" /\ call'[t].w = writes /\ call'[t].result = result
      /\ call'[t].job = call[t].job /\ call'[t].run = call[t].run /\ call'[t].day = call[t].day
      /\ DOMAIN call'[t] = CallFields
  BY <1>1, <1>2 DEF CallFields
<1>4. Handled(call'[t])
  BY <1>1, <1>3 DEF Handled
<1>5. UNCHANGED db /\ Unwritten /\ Heard
  BY <1>1, QuietIsHeard DEF Silently, Unwritten
<1>6. Owns(call[t])'
  BY <1>1, <1>3, <1>5, StaysOwned
<1>7. Honest(call[t])'
  BY <1>3, <1>5, <1>6 DEF Honest, RowsInHand, SentInHand, ToldInHand, Claims
<1>8. QuietStep(t)
  BY <1>3, NoRowsNoAlerts DEF QuietStep
<1>. QED BY <1>2, <1>3, <1>4, <1>5, <1>7, <1>8 DEF WorkStep, InWork, Working

\* The writes of a job that neither checks nor sends.
LEMMA QuietWrites ==
  /\ \A ok : Written([NoWrites EXCEPT !.ranked = TRUE, !.prices = ok])
  /\ \A ind : Written([NoWrites EXCEPT !.ind = ind])
  /\ \A d : Written([NoWrites EXCEPT !.derived = d])
  /\ \A ok, failed, skipped : Verdict(ok, failed, skipped) \in {"SUCCESS", "PARTIAL", "FAILED"}
<1>1. <<>> \in Seq(Logs)
  OBVIOUS
<1>. QED BY <1>1 DEF Written, NoWrites, WriteFields, Verdict

LEMMA NothingToSend ==
  /\ \A ok : LET w == [NoWrites EXCEPT !.ranked = TRUE, !.prices = ok]
             IN w.checks = {} /\ w.logs = <<>> /\ w.sent = FALSE
  /\ \A ind : LET w == [NoWrites EXCEPT !.ind = ind]
              IN w.checks = {} /\ w.logs = <<>> /\ w.sent = FALSE
  /\ \A d : LET w == [NoWrites EXCEPT !.derived = d]
            IN w.checks = {} /\ w.logs = <<>> /\ w.sent = FALSE
BY DEF NoWrites

LEMMA NotChecks ==
  "collect" \notin CheckJobs /\ "indicators" \notin CheckJobs /\ "report" \notin CheckJobs
  /\ DerivedJobs \cap CheckJobs = {}
BY DEF CheckJobs, DerivedJobs

LEMMA CollectSteps ==
  ASSUME JobRunsInv, NEW t \in Threads, Collect(t)
  PROVE  WorkStep(t) /\ QuietStep(t)
<1>1. /\ call[t].pc = "work" /\ Silently
      /\ (call[t].job \in CheckJobs => db.held = {})
  BY NotChecks DEF Collect, Work
<1>2. CASE Return(t, NoWrites, "FAILED")
  BY <1>1, <1>2, EmptyHands, ReturnStep
<1>3. ASSUME NEW ok, Return(t, [NoWrites EXCEPT !.ranked = TRUE, !.prices = ok],
                            Verdict(ok, Members \ ok, {}))
      PROVE  WorkStep(t) /\ QuietStep(t)
  <2>. DEFINE writes == [NoWrites EXCEPT !.ranked = TRUE, !.prices = ok]
              result == Verdict(ok, Members \ ok, {})
  <2>1. /\ Written(writes) /\ writes.checks = {} /\ writes.logs = <<>> /\ writes.sent = FALSE
        /\ result \in {"SUCCESS", "PARTIAL", "FAILED"} /\ Return(t, writes, result)
    BY <1>3, QuietWrites, NothingToSend
  <2>. HIDE DEF writes, result
  <2>. QED BY <1>1, <2>1, ReturnStep
<1>. QED BY <1>2, <1>3 DEF Collect

LEMMA CalculateIndicatorsSteps ==
  ASSUME JobRunsInv, NEW t \in Threads, CalculateIndicators(t)
  PROVE  WorkStep(t) /\ QuietStep(t)
<1>1. /\ call[t].pc = "work" /\ Silently
      /\ (call[t].job \in CheckJobs => db.held = {})
  BY NotChecks DEF CalculateIndicators, Work
<1>2. CASE ~db.ranked
  BY <1>1, <1>2, EmptyHands, ReturnStep DEF CalculateIndicators
<1>3. CASE db.ranked
  <2>. DEFINE priced == {s \in Members : db.prices[s] > 0}
              writes(ok) == [NoWrites EXCEPT !.ind = [s \in ok |-> db.prices[s]]]
  <2>1. PICK ok \in SUBSET priced : Return(t, writes(ok), Verdict(ok, priced \ ok, Members \ priced))
    BY <1>3 DEF CalculateIndicators
  <2>2. /\ Written(writes(ok)) /\ writes(ok).checks = {} /\ writes(ok).logs = <<>>
        /\ writes(ok).sent = FALSE
        /\ Verdict(ok, priced \ ok, Members \ priced) \in {"SUCCESS", "PARTIAL", "FAILED"}
    BY QuietWrites, NothingToSend
  <2>. HIDE DEF priced, writes
  <2>. QED BY <1>1, <2>1, <2>2, ReturnStep
<1>. QED BY <1>2, <1>3

LEMMA UpdateDerivedSteps ==
  ASSUME JobRunsInv, NEW t \in Threads, UpdateDerived(t)
  PROVE  WorkStep(t) /\ QuietStep(t)
<1>1. /\ call[t].pc = "work" /\ Silently
      /\ (call[t].job \in CheckJobs => db.held = {})
  BY NotChecks DEF UpdateDerived
<1>2. PICK d : Return(t, [NoWrites EXCEPT !.derived = d], "SUCCESS")
  BY DEF UpdateDerived
<1>3. /\ Written([NoWrites EXCEPT !.derived = d])
      /\ [NoWrites EXCEPT !.derived = d].checks = {}
      /\ [NoWrites EXCEPT !.derived = d].logs = <<>>
      /\ [NoWrites EXCEPT !.derived = d].sent = FALSE
  BY QuietWrites, NothingToSend
<1>. QED BY <1>1, <1>2, <1>3, ReturnStep

----
\* A message: its log row joins what is in hand, whether it arrives or not.
LogOf(h, tg, o) == [target |-> tg, status |-> o.status, run |-> h.run]

LEMMA SendsWell ==
  ASSUME Shape, NEW o \in Outcomes
  PROVE  /\ o.status \in {"SUCCESS", "FAILED", "DRY_RUN", "DISABLED"}
         /\ o.status = "SUCCESS" => o.arrives
         /\ \A skips : Reported(o, skips) \in {"SUCCESS", "PARTIAL"}
         /\ \A skips : Reported(o, skips) = "SUCCESS" =>
              o.status \in {"SUCCESS", "DRY_RUN"} /\ ~skips
BY DEF Shape, Outcomes, Reported

LEMMA SendIsHeard ==
  ASSUME Shape, NEW t \in Threads, NEW tg, NEW o \in Outcomes, NEW then, Send(t, tg, o, then)
  PROVE  /\ Heard /\ Unwritten
         /\ o.arrives /\ tg = Recommendation => Arrivals(Recommendation)' > 0
<1>1. /\ Unwritten
      /\ delivered' = IF o.arrives
                      THEN [x \in DOMAIN delivered \cup {tg} |->
                              Arrivals(x) + IF x = tg THEN 1 ELSE 0]
                      ELSE delivered
  BY DEF Send
<1>2. \A x : Arrivals(x) \in Nat
  BY DEF Shape, Arrivals
<1>3. CASE o.arrives
  <2>1. DOMAIN delivered' = DOMAIN delivered \cup {tg}
    BY <1>1, <1>3
  <2>2. \A x \in DOMAIN delivered' : delivered'[x] = Arrivals(x) + IF x = tg THEN 1 ELSE 0
    BY <1>1, <1>3
  <2>3. \A x \in DOMAIN delivered' : delivered'[x] \in Nat
    BY <1>2, <2>2
  <2>. DEFINE rec == Recommendation
  <2>4. rec \in DOMAIN delivered' => delivered'[rec] >= Arrivals(rec) /\ (rec = tg => delivered'[rec] > 0)
    BY <1>2, <2>2
  <2>5. rec \notin DOMAIN delivered' => rec \notin DOMAIN delivered /\ rec # tg
    BY <2>1
  <2>6. Arrivals(Recommendation)' =
          IF rec \in DOMAIN delivered' THEN delivered'[rec] ELSE 0
    BY DEF Arrivals, Recommendation, Report, Target
  <2>7. rec \notin DOMAIN delivered => Arrivals(rec) = 0
    BY DEF Arrivals
  <2>8. Arrivals(Recommendation)' >= Arrivals(rec)
    <3>. HIDE DEF rec
    <3>. QED BY <1>2, <2>4, <2>5, <2>6, <2>7
  <2>9. tg = rec => Arrivals(Recommendation)' > 0
    BY <2>1, <2>4, <2>6
  <2>. QED BY <1>1, <2>3, <2>8, <2>9 DEF Heard
<1>4. CASE ~o.arrives
  <2>1. delivered' = delivered
    BY <1>1, <1>4
  <2>. QED BY <1>1, <1>2, <1>4, <2>1 DEF Heard, Shape, Arrivals
<1>. QED BY <1>3, <1>4

Carries(then, w) ==
  /\ DOMAIN then = CallFields /\ DOMAIN then.w = WriteFields
  /\ then.w.checks = w.checks /\ then.w.logs = w.logs /\ then.w.sent \in BOOLEAN

LEMMA SendInHand ==
  ASSUME JobRunsInv, NEW t \in Threads, call[t].pc \in InWork, NEW tg \in Targets,
         NEW o \in Outcomes, NEW then, Carries(then, call[t].w), Send(t, tg, o, then)
  PROVE  LET r == call'[t]  h == call[t] IN
         /\ Others(t) /\ DOMAIN r = CallFields /\ Written(r.w)
         /\ r.pc = then.pc /\ r.job = then.job /\ r.run = then.run /\ r.day = then.day
         /\ r.todo = then.todo /\ r.result = then.result
         /\ r.w.checks = h.w.checks /\ r.w.sent = then.w.sent
         /\ \A i \in DOMAIN h.w.logs : i \in DOMAIN r.w.logs /\ r.w.logs[i] = h.w.logs[i]
         /\ \A i \in DOMAIN r.w.logs :
              r.w.logs[i] = LogOf(h, tg, o) \/ (i \in DOMAIN h.w.logs /\ r.w.logs[i] = h.w.logs[i])
         /\ \E i \in DOMAIN r.w.logs : r.w.logs[i] = LogOf(h, tg, o)
         /\ h.w.logs \in Seq(Logs) /\ LogOf(h, tg, o) \in Logs
         /\ r.w.logs = Append(h.w.logs, LogOf(h, tg, o))
<1>. DEFINE h == call[t]  r == call'[t]  log == LogOf(h, tg, o)
<1>1. /\ DOMAIN call = Threads /\ Written(h.w) /\ h.run \in Nat /\ Shape
  BY AtWork DEF Handled, InWork, Working
<1>2. log \in Logs
  BY <1>1, SendsWell DEF LogOf, Logs
<1>3. /\ r = [then EXCEPT !.w.logs = Append(@, log)] /\ Others(t)
  BY <1>1 DEF Send, LogOf, Others
<1>4. /\ DOMAIN r = CallFields /\ r.w = [then.w EXCEPT !.logs = Append(@, log)]
      /\ r.pc = then.pc /\ r.job = then.job /\ r.run = then.run /\ r.day = then.day
      /\ r.todo = then.todo /\ r.result = then.result
  BY <1>3 DEF Carries, CallFields
<1>5. /\ DOMAIN r.w = WriteFields /\ r.w.checks = h.w.checks /\ r.w.sent = then.w.sent
      /\ r.w.logs = Append(h.w.logs, log)
  BY <1>4 DEF Carries, WriteFields
<1>. DEFINE old == h.w.logs  new == r.w.logs
<1>6. old \in Seq(Logs) /\ new = Append(old, log)
  BY <1>1, <1>5 DEF Written
<1>. HIDE DEF old, new, log
<1>7. /\ new \in Seq(Logs) /\ DOMAIN new = DOMAIN old \cup {Len(old) + 1}
      /\ new[Len(old) + 1] = log /\ \A i \in DOMAIN old : new[i] = old[i]
  BY <1>2, <1>6, OneMore
<1>8. /\ \A i \in DOMAIN old : i \in DOMAIN new /\ new[i] = old[i]
      /\ \A i \in DOMAIN new : new[i] = log \/ (i \in DOMAIN old /\ new[i] = old[i])
      /\ \E i \in DOMAIN new : new[i] = log
  BY <1>7
<1>9. Written(r.w)
  BY <1>1, <1>5, <1>7 DEF Written, new, Carries
<1>10. /\ old \in Seq(Logs) /\ log \in Logs /\ new = Append(old, log)
  BY <1>2, <1>6
<1>. QED BY <1>3, <1>4, <1>5, <1>8, <1>9, <1>10 DEF old, new, log

\* The row that joins the others is the run's own.
LEMMA RowsStayInHand ==
  ASSUME JobRunsInv, NEW t \in Threads, call[t].pc \in InWork, NEW tg \in Targets,
         NEW o \in Outcomes, NEW then, Carries(then, call[t].w),
         then.run = call[t].run, then.job = call[t].job, then.day = call[t].day,
         then.result # "FAILED", call[t].result # "FAILED", Send(t, tg, o, then)
  PROVE  Owns(call[t])' /\ RowsInHand(call[t])' /\ Heard /\ Unwritten
<1>. DEFINE h == call[t]  r == call'[t]
<1>1. Heard /\ Unwritten /\ Owns(h) /\ RowsInHand(h)
  BY AtWork, SendIsHeard DEF InWork, Working
<1>2. /\ r.run = h.run /\ r.job = h.job /\ r.day = h.day /\ r.result # "FAILED"
      /\ r.w.checks = h.w.checks
      /\ \A i \in DOMAIN r.w.logs :
           r.w.logs[i] = LogOf(h, tg, o) \/ (i \in DOMAIN h.w.logs /\ r.w.logs[i] = h.w.logs[i])
  BY SendInHand
<1>3. Owns(call[t])'
  BY <1>1, <1>2, StaysOwned
<1>4. \A i \in DOMAIN r.w.logs : r.w.logs[i].run = r.run
  <2>1. LogOf(h, tg, o).run = h.run
    BY DEF LogOf
  <2>. QED BY <1>1, <1>2, <2>1 DEF RowsInHand
<1>5. \A c \in r.w.checks : c.day = r.day /\ c.type = r.job
  BY <1>1, <1>2 DEF RowsInHand
<1>. QED BY <1>1, <1>2, <1>3, <1>4, <1>5 DEF RowsInHand

\* What was sent before stays sent.
LEMMA SentStaysInHand ==
  ASSUME JobRunsInv, NEW t \in Threads, call[t].pc \in InWork, NEW tg \in Targets,
         NEW o \in Outcomes, NEW then, Carries(then, call[t].w),
         then.w.sent = call[t].w.sent, Send(t, tg, o, then)
  PROVE  SentInHand(call[t])'
<1>. DEFINE h == call[t]  r == call'[t]
<1>1. Heard /\ SentInHand(h) /\ Shape
  BY AtWork, SendIsHeard DEF InWork, Working
<1>2. /\ r.w.sent = h.w.sent
      /\ \A i \in DOMAIN h.w.logs : i \in DOMAIN r.w.logs /\ r.w.logs[i] = h.w.logs[i]
  BY SendInHand
<1>3. Arrivals(Recommendation) > 0 => Arrivals(Recommendation)' > 0
  BY <1>1 DEF Heard, Shape, Arrivals
<1>4. Recommendation' = Recommendation
  BY DEF Recommendation, Report, Target
<1>. QED BY <1>1, <1>2, <1>3, <1>4 DEF SentInHand

LEMMA ReportIsNoAlert ==
  ASSUME JobRunsInv, NEW t \in Threads, call[t].pc \in InWork, NEW tg \in Targets, ~IsAlert(tg),
         NEW o \in Outcomes, NEW then, Carries(then, call[t].w), Send(t, tg, o, then)
  PROVE  Alerts(call'[t].w.logs) \subseteq Alerts(call[t].w.logs)
<1>. DEFINE h == call[t]  r == call'[t]
<1>1. \A i \in DOMAIN r.w.logs :
        r.w.logs[i] = LogOf(h, tg, o) \/ (i \in DOMAIN h.w.logs /\ r.w.logs[i] = h.w.logs[i])
  BY SendInHand
<1>2. LogOf(h, tg, o).target = tg
  BY DEF LogOf
<1>. QED BY <1>1, <1>2 DEF Alerts

----
LEMMA SendRecommendationsSteps ==
  ASSUME JobRunsInv, NEW t \in Threads, SendRecommendations(t)
  PROVE  WorkStep(t) /\ QuietStep(t)
<1>. DEFINE h == call[t]  r == call'[t]
<1>1. /\ h.pc = "work" /\ h.job = "report" /\ h.job \notin CheckJobs
  BY NotChecks DEF SendRecommendations, Work
<1>2. CASE Return(t, NoWrites, "SUCCESS") /\ Silently
  BY <1>1, <1>2, EmptyHands, ReturnStep
<1>3. ASSUME NEW o \in Outcomes,
             Send(t, Recommendation, o,
                  [call[t] EXCEPT !.pc = "commit", !.result = Reported(o, FALSE),
                                  !.w.sent = (o.status = "SUCCESS")])
      PROVE  WorkStep(t) /\ QuietStep(t)
  <2>. DEFINE then == [call[t] EXCEPT !.pc = "commit", !.result = Reported(o, FALSE),
                                      !.w.sent = (o.status = "SUCCESS")]
  <2>1. /\ Handled(h) /\ DOMAIN h = CallFields /\ Shape /\ h.result = "-" /\ h.w = NoWrites
        /\ DOMAIN h.w = WriteFields
    BY <1>1, AtWork, EmptyHands DEF Handled, Written, InWork, Working
  <2>2. /\ Carries(then, h.w) /\ then.pc = "commit" /\ then.result = Reported(o, FALSE)
        /\ then.run = h.run /\ then.job = h.job /\ then.day = h.day
        /\ then.w.sent = (o.status = "SUCCESS")
    BY <2>1 DEF Carries, CallFields, WriteFields
  <2>3. Recommendation \in Targets
    BY DEF Recommendation, Report, Target, Targets, Jobs
  <2>4. /\ then.result \in {"SUCCESS", "PARTIAL"} /\ (o.status = "SUCCESS" => o.arrives)
    BY <2>1, <2>2, SendsWell
  <2>5. Send(t, Recommendation, o, then) /\ h.pc \in InWork
    BY <1>1, <1>3 DEF InWork, Working
  <2>. HIDE DEF then
  <2>6. /\ Owns(call[t])' /\ RowsInHand(call[t])' /\ Heard /\ Unwritten
    BY <2>1, <2>2, <2>3, <2>4, <2>5, RowsStayInHand
  <2>7. /\ Others(t) /\ DOMAIN r = CallFields /\ Written(r.w) /\ r.pc = "commit"
        /\ r.job = h.job /\ r.run = h.run /\ r.day = h.day /\ r.result \in {"SUCCESS", "PARTIAL"}
        /\ (r.w.sent => o.status = "SUCCESS")
        /\ \E i \in DOMAIN r.w.logs : r.w.logs[i] = LogOf(h, Recommendation, o)
    <3>0. Carries(then, h.w)
      BY <2>2
    <3>1. /\ Others(t) /\ DOMAIN r = CallFields /\ Written(r.w) /\ r.pc = then.pc
          /\ r.job = then.job /\ r.run = then.run /\ r.day = then.day /\ r.result = then.result
      BY <3>0, <2>3, <2>5, SendInHand
    <3>2. r.w.sent = then.w.sent
      BY <3>0, <2>3, <2>5, SendInHand
    <3>3. \E i \in DOMAIN r.w.logs : r.w.logs[i] = LogOf(h, Recommendation, o)
      BY <3>0, <2>3, <2>5, SendInHand
    <3>. QED BY <2>2, <2>4, <3>1, <3>2, <3>3
  <2>8. SentInHand(call[t])'
    <3>1. o.arrives => Arrivals(Recommendation)' > 0
      BY <2>1, <2>5, SendIsHeard
    <3>2. Recommendation' = Recommendation
      BY DEF Recommendation, Report, Target
    <3>3. /\ LogOf(h, Recommendation, o).target = Recommendation
          /\ LogOf(h, Recommendation, o).status = o.status
      BY DEF LogOf
    <3>. QED BY <2>4, <2>7, <3>1, <3>2, <3>3 DEF SentInHand
  <2>9. Handled(r)
    BY <2>1, <2>7, <1>1 DEF Handled
  <2>10. Honest(call[t])'
    BY <1>1, <2>6, <2>7, <2>8 DEF Honest, ToldInHand, Claims
  <2>11. QuietStep(t)
    <3>1. r.w.checks = {}
      BY <2>1, <2>2, <2>3, <2>5, SendInHand, EmptyHands
    <3>2. ~IsAlert(Recommendation) /\ Alerts(h.w.logs) = {}
      BY <2>1, EmptyHands, NoRowsNoAlerts DEF Recommendation, Report, Target, IsAlert
    <3>3. Alerts(r.w.logs) \subseteq Alerts(h.w.logs)
      BY <2>2, <2>3, <2>5, <3>2, ReportIsNoAlert
    <3>. QED BY <2>7, <3>1, <3>2, <3>3 DEF QuietStep
  <2>. QED BY <1>1, <2>6, <2>7, <2>9, <2>10, <2>11 DEF WorkStep, InWork, Working
<1>. QED BY <1>2, <1>3 DEF SendRecommendations, Recommendation

----
\* What a job learns from its tables is silent: the row says what changes.
LEMMA SilentStep ==
  ASSUME JobRunsInv, NEW t \in Threads, Silently, Others(t), call[t].pc \in InWork,
         call'[t].pc \notin {"idle", "finish"},
         call'[t].run = call[t].run, call'[t].job = call[t].job, call'[t].day = call[t].day,
         call'[t].result = call[t].result, call[t].result # "FAILED",
         call'[t].w.logs = call[t].w.logs, call'[t].w.sent = call[t].w.sent,
         Handled(call'[t]),
         \A c \in call'[t].w.checks : c.day = call[t].day /\ c.type = call[t].job,
         call[t].result = "-" \/ call'[t].w.checks = call[t].w.checks
  PROVE  WorkStep(t)
<1>1. /\ Owns(call[t]) /\ RowsInHand(call[t]) /\ SentInHand(call[t]) /\ ToldInHand(call[t])
      /\ Heard /\ Unwritten
  BY AtWork, QuietIsHeard DEF InWork, Working
<1>2. UNCHANGED <<db, delivered>>
  BY DEF Silently, Unwritten
<1>3. Owns(call[t])'
  BY <1>1, StaysOwned
<1>4. RowsInHand(call[t])'
  BY <1>1 DEF RowsInHand
<1>5. SentInHand(call[t])'
  BY <1>1, <1>2 DEF SentInHand, Arrivals, Recommendation, Report, Target
<1>6. ToldInHand(call[t])'
  BY <1>1, <1>2 DEF ToldInHand, Claims, Telling, InWork, Working
<1>. QED BY <1>1, <1>3, <1>4, <1>5, <1>6 DEF WorkStep, Honest

\* Rows that are in nobody else's hands.
Alone(t, members) ==
  \A u \in Threads \ {t} : \A c \in members, d \in call[u].w.checks : Key(c) # Key(d)

\* The rows of a check carry the thread's day and job.
LEMMA CheckRowsAre ==
  ASSUME Shape, NEW t \in Threads, Handled(call[t]), call[t].pc \in {"work", "locked"},
         call[t].job \in CheckJobs, NEW members \in SUBSET Held, NEW levels \in [members -> RiskLevels]
  PROVE  LET w == CheckRows(t, members, levels) IN
         /\ Written(w) /\ w.logs = <<>> /\ w.sent = FALSE
         /\ \A c \in w.checks : c.day = call[t].day /\ c.type = call[t].job
         /\ WaitsFor(t, members) = {} => Alone(t, w.checks)
<1>. DEFINE w == CheckRows(t, members, levels)
            newChecks == {[sym |-> s, day |-> call[t].day, type |-> call[t].job,
                        level |-> levels[s]] : s \in members}
<1>1. w.checks = newChecks /\ w.logs = <<>> /\ w.sent = FALSE /\ DOMAIN w = WriteFields
  BY DEF CheckRows, NoWrites, WriteFields
<1>2. /\ call[t].day \in Int /\ call[t].job \in Jobs /\ \A s \in members : levels[s] \in Levels
  BY DailyJobsAssumption DEF Handled, Levels
<1>3. newChecks \subseteq Checks
  BY <1>2 DEF Checks
<1>4. <<>> \in Seq(Logs)
  OBVIOUS
<1>5. \A c \in newChecks : c.day = call[t].day /\ c.type = call[t].job /\ c.sym \in members
  OBVIOUS
<1>7. ASSUME WaitsFor(t, members) = {}, NEW u \in Threads \ {t},
             NEW c \in newChecks, NEW d \in call[u].w.checks, Key(c) = Key(d)
      PROVE  FALSE
  <2>1. d.day = call[t].day /\ d.type = call[t].job /\ d.sym \in members
    BY <1>5, <1>7 DEF Key
  <2>. QED BY <1>7, <2>1 DEF WaitsFor
<1>6. Written(w)
  BY <1>1, <1>3, <1>4 DEF Written
<1>8. WaitsFor(t, members) = {} => Alone(t, w.checks)
  BY <1>1, <1>7 DEF Alone
<1>. QED BY <1>1, <1>5, <1>6, <1>8

\* The rows of a check are in nobody else's hands.
CheckedAlone(t) ==
  /\ call'[t].pc = "report" /\ call'[t].w.logs = <<>>
  /\ \A u \in Threads \ {t} : \A c \in call'[t].w.checks, d \in call[u].w.checks : Key(c) # Key(d)

LEMMA RunHoldingCheckSteps ==
  ASSUME JobRunsInv, NEW t \in Threads, RunHoldingCheck(t)
  PROVE  WorkStep(t) /\ (QuietStep(t) \/ CheckedAlone(t))
<1>. DEFINE h == call[t]  r == call'[t]
<1>1. /\ h.pc = "work" /\ h.job \in CheckJobs /\ Silently /\ h.pc \in InWork
  BY DEF RunHoldingCheck, InWork, Working
<1>2. /\ Handled(h) /\ DOMAIN h = CallFields /\ Shape /\ h.result = "-" /\ h.w = NoWrites
      /\ DOMAIN call = Threads /\ RowsInHand(h)
  BY <1>1, AtWork DEF Handled
<1>3. Checkable \subseteq Held
  BY <1>2 DEF Checkable, Shape
<1>4. CASE db.held = {} /\ Return(t, NoWrites, "SUCCESS")
  BY <1>1, <1>4, EmptyHands, ReturnStep
<1>5. ASSUME NEW levels \in [Checkable -> RiskLevels],
             call' = [call EXCEPT ![t].pc = "report", ![t].w = CheckRows(t, Checkable, levels)],
             WaitsFor(t, Checkable) = {}
      PROVE  WorkStep(t) /\ CheckedAlone(t)
  <2>. DEFINE w == CheckRows(t, Checkable, levels)
  <2>1. /\ Written(w) /\ w.logs = <<>> /\ w.sent = FALSE
        /\ \A c \in w.checks : c.day = h.day /\ c.type = h.job
    BY <1>1, <1>2, <1>3, CheckRowsAre
  <2>7. Alone(t, w.checks)
    BY <1>1, <1>2, <1>3, <1>5, CheckRowsAre
  <2>2. /\ call' = [call EXCEPT ![t].pc = "report", ![t].w = w]
    BY <1>5
  <2>. HIDE DEF w
  <2>3. /\ r = [h EXCEPT !.pc = "report", !.w = w] /\ Others(t)
    BY <1>2, <2>2 DEF Others, CallFields
  <2>4. /\ DOMAIN r = CallFields /\ r.pc = "report" /\ r.w = w /\ r.run = h.run /\ r.job = h.job
        /\ r.day = h.day /\ r.result = h.result
    BY <1>2, <2>3 DEF CallFields
  <2>5. Handled(r)
    BY <1>1, <1>2, <2>1, <2>4 DEF Handled
  <2>6. CheckedAlone(t)
    BY <2>1, <2>4, <2>7 DEF CheckedAlone, Alone
  <2>. QED BY <1>1, <1>2, <2>1, <2>3, <2>4, <2>5, <2>6, EmptyHands, SilentStep
<1>6. ASSUME NEW fresh,
             call' = [call EXCEPT ![t].pc = "locked", ![t].todo = Checkable, ![t].fresh = fresh]
      PROVE  WorkStep(t) /\ QuietStep(t)
  <2>1. /\ r = [h EXCEPT !.pc = "locked", !.todo = Checkable, !.fresh = fresh] /\ Others(t)
    BY <1>2, <1>6 DEF Others, CallFields
  <2>2. /\ DOMAIN r = CallFields /\ r.pc = "locked" /\ r.todo = Checkable /\ r.w = h.w
        /\ r.run = h.run /\ r.job = h.job /\ r.day = h.day /\ r.result = h.result
    BY <1>2, <2>1 DEF CallFields
  <2>3. Handled(r)
    BY <1>1, <1>2, <1>3, <2>2 DEF Handled
  <2>4. QuietStep(t)
    BY <1>2, <2>2, EmptyHands, NoRowsNoAlerts DEF QuietStep
  <2>. QED BY <1>1, <1>2, <2>1, <2>2, <2>3, <2>4, SilentStep DEF RowsInHand
<1>7. CASE /\ WaitsFor(t, Checkable) = {}
           /\ \E levels \in [Checkable -> RiskLevels] :
                call' = [call EXCEPT ![t].pc = "report", ![t].w = CheckRows(t, Checkable, levels)]
  BY <1>5, <1>7
<1>8. CASE call' = [call EXCEPT ![t].pc = "locked", ![t].todo = Checkable,
                      ![t].fresh = {s \in Checkable :
                         <<s, call[t].day, call[t].job>> \notin {Key(c) : c \in db.checks}}]
  BY <1>6, <1>8
<1>. QED BY <1>4, <1>7, <1>8 DEF RunHoldingCheck

LEMMA CheckUnlockedSteps ==
  ASSUME JobRunsInv, NEW t \in Threads, CheckUnlocked(t)
  PROVE  WorkStep(t) /\ CheckedAlone(t)
<1>. DEFINE h == call[t]  r == call'[t]
<1>1. /\ h.pc = "locked" /\ Silently /\ h.pc \in InWork /\ WaitsFor(t, h.todo) = {}
  BY DEF CheckUnlocked, InWork
<1>2. /\ Handled(h) /\ DOMAIN h = CallFields /\ Shape /\ h.result = "-" /\ h.w = NoWrites
      /\ DOMAIN call = Threads /\ RowsInHand(h) /\ h.job \in CheckJobs /\ h.todo \subseteq Held
  BY <1>1, AtWork DEF Handled
<1>3. PICK levels \in [h.todo -> RiskLevels] :
        call' = [call EXCEPT ![t].pc = "report", ![t].todo = {}, ![t].fresh = {},
                             ![t].w = CheckRows(t, h.todo, levels)]
  BY DEF CheckUnlocked
<1>. DEFINE w == CheckRows(t, h.todo, levels)
<1>4. /\ Written(w) /\ w.logs = <<>> /\ w.sent = FALSE
      /\ \A c \in w.checks : c.day = h.day /\ c.type = h.job
  BY <1>1, <1>2, CheckRowsAre
<1>10. Alone(t, w.checks)
  BY <1>1, <1>2, CheckRowsAre
<1>5. call' = [call EXCEPT ![t].pc = "report", ![t].todo = {}, ![t].fresh = {}, ![t].w = w]
  BY <1>3
<1>. HIDE DEF w
<1>6. /\ r = [h EXCEPT !.pc = "report", !.todo = {}, !.fresh = {}, !.w = w] /\ Others(t)
  BY <1>2, <1>5 DEF Others, CallFields
<1>7. /\ DOMAIN r = CallFields /\ r.pc = "report" /\ r.w = w /\ r.run = h.run /\ r.job = h.job
      /\ r.day = h.day /\ r.result = h.result
  BY <1>2, <1>6 DEF CallFields
<1>8. Handled(r)
  BY <1>1, <1>2, <1>4, <1>7 DEF Handled
<1>9. CheckedAlone(t)
  BY <1>4, <1>7, <1>10 DEF CheckedAlone, Alone
<1>. QED BY <1>1, <1>2, <1>4, <1>6, <1>7, <1>8, <1>9, EmptyHands, SilentStep

----
LEMMA SendHoldingReportSteps ==
  ASSUME JobRunsInv, NEW t \in Threads, SendHoldingReport(t)
  PROVE  /\ WorkStep(t) /\ call[t].pc = "report" /\ call'[t].pc = "plan"
         /\ call'[t].w.checks = call[t].w.checks
         /\ Alerts(call'[t].w.logs) \subseteq Alerts(call[t].w.logs)
<1>. DEFINE h == call[t]  r == call'[t]  tg == Report(call[t].job, call[t].day)
            skips == {c.sym : c \in call[t].w.checks} # db.held
<1>1. /\ h.pc = "report" /\ h.pc \in InWork
  BY DEF SendHoldingReport, InWork, Working
<1>2. /\ Handled(h) /\ DOMAIN h = CallFields /\ Shape /\ h.result = "-" /\ Written(h.w)
      /\ h.job \in CheckJobs /\ h.day \in Int /\ h.job \in Jobs
  BY <1>1, AtWork DEF Handled
<1>3. PICK o \in Outcomes :
        Send(t, tg, o, [call[t] EXCEPT !.pc = "plan", !.result = Reported(o, skips)])
  BY DEF SendHoldingReport
<1>. DEFINE then == [call[t] EXCEPT !.pc = "plan", !.result = Reported(o, skips)]
<1>4. /\ tg \in Targets /\ ~IsAlert(tg)
  BY <1>2 DEF Report, Target, Targets, IsAlert
<1>5. /\ DOMAIN then = CallFields /\ then.w = h.w /\ then.pc = "plan"
      /\ then.result = Reported(o, skips) /\ then.run = h.run /\ then.job = h.job /\ then.day = h.day
  BY <1>2 DEF CallFields
<1>6. Carries(then, h.w)
  BY <1>2, <1>5 DEF Carries, Written
<1>7. /\ Reported(o, skips) \in {"SUCCESS", "PARTIAL"}
      /\ Reported(o, skips) = "SUCCESS" => o.status \in {"SUCCESS", "DRY_RUN"} /\ ~skips
  BY <1>2, SendsWell
<1>8. Send(t, tg, o, then)
  BY <1>3
<1>. HIDE DEF then, tg, skips
<1>9. /\ Owns(call[t])' /\ RowsInHand(call[t])' /\ Heard /\ Unwritten
  BY <1>1, <1>2, <1>4, <1>5, <1>6, <1>7, <1>8, RowsStayInHand
<1>10. SentInHand(call[t])'
  BY <1>1, <1>4, <1>5, <1>6, <1>8, SentStaysInHand
<1>11. /\ Others(t) /\ DOMAIN r = CallFields /\ Written(r.w) /\ r.pc = then.pc
       /\ r.job = then.job /\ r.run = then.run /\ r.day = then.day /\ r.result = then.result
       /\ r.w.checks = h.w.checks
  BY <1>1, <1>4, <1>6, <1>8, SendInHand
<1>12. PICK i \in DOMAIN r.w.logs : r.w.logs[i] = LogOf(h, tg, o)
  BY <1>1, <1>4, <1>6, <1>8, SendInHand
<1>13. Handled(r)
  BY <1>1, <1>2, <1>5, <1>7, <1>11 DEF Handled
<1>14. ToldInHand(call[t])'
  <2>1. o.status \in {"SUCCESS", "DRY_RUN"} => Well(r.w.logs[i])
    BY <1>4, <1>12 DEF Well, LogOf
  <2>2. UNCHANGED db
    BY <1>9 DEF Unwritten
  <2>3. ~skips => {c.sym : c \in r.w.checks} = db.held
    BY <1>11 DEF skips
  <2>. QED BY <1>5, <1>7, <1>11, <2>1, <2>2, <2>3 DEF ToldInHand, Claims, Telling
<1>15. Alerts(r.w.logs) \subseteq Alerts(h.w.logs)
  BY <1>1, <1>4, <1>6, <1>8, ReportIsNoAlert
<1>. QED BY <1>1, <1>5, <1>9, <1>10, <1>11, <1>13, <1>14, <1>15 DEF WorkStep, Honest

LEMMA PlanAlertsSteps ==
  ASSUME JobRunsInv, NEW t \in Threads, PlanAlerts(t)
  PROVE  /\ WorkStep(t) /\ call[t].pc = "plan" /\ call'[t].pc = "alerts"
         /\ call'[t].w = call[t].w
         /\ call'[t].todo = {Target(c.type, c.day, c.sym, c.level) :
              c \in {d \in Current(t) : d.level # "NONE"}} \ Listed(t)
<1>. DEFINE h == call[t]  r == call'[t]
            wanted == {Target(c.type, c.day, c.sym, c.level) :
                         c \in {d \in Current(t) : d.level # "NONE"}}
<1>1. /\ h.pc = "plan" /\ h.pc \in InWork /\ Silently
      /\ call' = [call EXCEPT ![t].pc = "alerts", ![t].todo = wanted \ Listed(t)]
  BY DEF PlanAlerts, InWork, Working
<1>2. /\ Handled(h) /\ DOMAIN h = CallFields /\ Shape /\ h.result \in {"SUCCESS", "PARTIAL"}
      /\ Written(h.w) /\ DOMAIN call = Threads /\ RowsInHand(h)
  BY <1>1, AtWork DEF Handled
<1>3. wanted \subseteq Targets
  <2>1. Current(t) \subseteq Checks
    BY <1>2 DEF Current, ChecksOf, Written, Shape
  <2>2. \A c \in Checks : Target(c.type, c.day, c.sym, c.level) \in Targets
    BY DEF Checks, Target, Targets
  <2>. QED BY <2>1, <2>2
<1>. HIDE DEF wanted
<1>4. /\ r = [h EXCEPT !.pc = "alerts", !.todo = wanted \ Listed(t)] /\ Others(t)
  BY <1>1, <1>2 DEF Others, CallFields
<1>5. /\ DOMAIN r = CallFields /\ r.pc = "alerts" /\ r.todo = wanted \ Listed(t) /\ r.w = h.w
      /\ r.run = h.run /\ r.job = h.job /\ r.day = h.day /\ r.result = h.result
  BY <1>2, <1>4 DEF CallFields
<1>6. Handled(r)
  BY <1>1, <1>2, <1>3, <1>5 DEF Handled
<1>7. WorkStep(t)
  BY <1>1, <1>2, <1>4, <1>5, <1>6, SilentStep DEF RowsInHand
<1>. QED BY <1>1, <1>5, <1>7 DEF wanted

LEMMA SendAlertSteps ==
  ASSUME JobRunsInv, NEW t \in Threads, SendAlert(t)
  PROVE  /\ WorkStep(t) /\ call[t].pc = "alerts" /\ call'[t].pc = "alerts"
         /\ call'[t].w.checks = call[t].w.checks
         /\ \E log \in Logs : /\ log.target \in call[t].todo
                              /\ call'[t].todo = call[t].todo \ {log.target}
                              /\ call'[t].w.logs = Append(call[t].w.logs, log)
<1>. DEFINE h == call[t]  r == call'[t]
<1>1. /\ h.pc = "alerts" /\ h.pc \in InWork
  BY DEF SendAlert, InWork, Working
<1>2. /\ Handled(h) /\ DOMAIN h = CallFields /\ Shape /\ h.result \in {"SUCCESS", "PARTIAL"}
      /\ Written(h.w) /\ h.job \in CheckJobs /\ h.todo \subseteq Targets /\ ToldInHand(h)
  BY <1>1, AtWork DEF Handled
<1>3. PICK tg \in h.todo : \E o \in Outcomes : Send(t, tg, o, [call[t] EXCEPT !.todo = @ \ {tg}])
  BY DEF SendAlert
<1>4. PICK o \in Outcomes : Send(t, tg, o, [call[t] EXCEPT !.todo = @ \ {tg}])
  BY <1>3
<1>. DEFINE then == [call[t] EXCEPT !.todo = @ \ {tg}]
<1>5. /\ DOMAIN then = CallFields /\ then.w = h.w /\ then.pc = "alerts" /\ then.todo = h.todo \ {tg}
      /\ then.result = h.result /\ then.run = h.run /\ then.job = h.job /\ then.day = h.day
  BY <1>1, <1>2 DEF CallFields
<1>6. Carries(then, h.w)
  BY <1>2, <1>5 DEF Carries, Written
<1>7. Send(t, tg, o, then) /\ tg \in Targets
  BY <1>2, <1>4
<1>. HIDE DEF then
<1>8. /\ Owns(call[t])' /\ RowsInHand(call[t])' /\ Heard /\ Unwritten
  BY <1>1, <1>2, <1>5, <1>6, <1>7, RowsStayInHand
<1>9. SentInHand(call[t])'
  BY <1>1, <1>5, <1>6, <1>7, SentStaysInHand
<1>10. /\ Others(t) /\ DOMAIN r = CallFields /\ Written(r.w) /\ r.pc = then.pc
       /\ r.job = then.job /\ r.run = then.run /\ r.day = then.day /\ r.result = then.result
       /\ r.todo = then.todo /\ r.w.checks = h.w.checks
  BY <1>1, <1>6, <1>7, SendInHand
<1>11. \A i \in DOMAIN h.w.logs : i \in DOMAIN r.w.logs /\ r.w.logs[i] = h.w.logs[i]
  BY <1>1, <1>6, <1>7, SendInHand
<1>12. Handled(r)
  BY <1>2, <1>5, <1>10 DEF Handled
<1>13. ToldInHand(call[t])'
  <2>1. UNCHANGED db
    BY <1>8 DEF Unwritten
  <2>2. ASSUME Claims(h) PROVE Telling(call[t])'
    <3>1. /\ {c.sym : c \in h.w.checks} = db.held
          /\ \E i \in DOMAIN h.w.logs : Well(h.w.logs[i])
      BY <1>1, <1>2, <2>2 DEF ToldInHand, Telling
    <3>2. \E i \in DOMAIN r.w.logs : Well(r.w.logs[i])
      BY <1>11, <3>1
    <3>. QED BY <1>10, <2>1, <3>1, <3>2 DEF Telling
  <2>. QED BY <1>5, <1>10, <2>1, <2>2 DEF ToldInHand, Claims
<1>14. WorkStep(t)
  BY <1>1, <1>5, <1>8, <1>9, <1>10, <1>12, <1>13 DEF WorkStep, Honest
<1>15. LogOf(h, tg, o) \in Logs /\ r.w.logs = Append(h.w.logs, LogOf(h, tg, o))
  BY <1>1, <1>6, <1>7, SendInHand
<1>16. LogOf(h, tg, o).target = tg
  BY DEF LogOf
<1>. QED BY <1>1, <1>3, <1>5, <1>10, <1>14, <1>15, <1>16

LEMMA AlertsDoneSteps ==
  ASSUME JobRunsInv, NEW t \in Threads, AlertsDone(t)
  PROVE  /\ WorkStep(t) /\ call[t].pc = "alerts" /\ call'[t].pc = "commit"
         /\ call'[t].w = call[t].w /\ call[t].todo = {}
<1>. DEFINE h == call[t]  r == call'[t]
<1>1. /\ h.pc = "alerts" /\ h.pc \in InWork /\ Silently
      /\ call' = [call EXCEPT ![t].pc = "commit"] /\ h.todo = {}
  BY DEF AlertsDone, InWork, Working
<1>2. /\ Handled(h) /\ DOMAIN h = CallFields /\ h.result \in {"SUCCESS", "PARTIAL"}
      /\ Written(h.w) /\ DOMAIN call = Threads /\ RowsInHand(h)
  BY <1>1, AtWork DEF Handled
<1>3. /\ r = [h EXCEPT !.pc = "commit"] /\ Others(t)
  BY <1>1, <1>2 DEF Others, CallFields
<1>4. /\ DOMAIN r = CallFields /\ r.pc = "commit" /\ r.w = h.w
      /\ r.run = h.run /\ r.job = h.job /\ r.day = h.day /\ r.result = h.result
  BY <1>2, <1>3 DEF CallFields
<1>5. Handled(r)
  BY <1>1, <1>2, <1>4 DEF Handled
<1>. QED BY <1>1, <1>2, <1>3, <1>4, <1>5, SilentStep DEF RowsInHand

LEMMA RaiseSteps ==
  ASSUME JobRunsInv, NEW t \in Threads, Raise(t)
  PROVE  WorkStep(t) /\ QuietStep(t)
<1>. DEFINE h == call[t]  r == call'[t]
<1>1. /\ h.pc \in InWork /\ Silently
      /\ call' = [call EXCEPT ![t] = [AtRest EXCEPT !.pc = "finish", !.run = call[t].run,
                                              !.job = call[t].job, !.result = "FAILED"]]
  BY DEF Raise, InWork
<1>2. /\ Handled(h) /\ DOMAIN call = Threads /\ Owns(h) /\ Shape
      /\ h.job \in Jobs /\ h.run \in Nat \ {0}
  BY <1>1, AtWork DEF Handled, InWork, Working
<1>3. /\ r = [AtRest EXCEPT !.pc = "finish", !.run = h.run, !.job = h.job, !.result = "FAILED"]
      /\ Others(t)
  BY <1>1, <1>2 DEF Others
<1>4. /\ DOMAIN r = CallFields /\ r.pc = "finish" /\ r.w = NoWrites /\ r.result = "FAILED"
      /\ r.run = h.run /\ r.job = h.job /\ r.day = 0
  BY <1>3, EmptyHands DEF CallFields
<1>5. Handled(r)
  BY <1>2, <1>4, EmptyHands DEF Handled
<1>6. Heard /\ Unwritten
  BY <1>1, <1>2, QuietIsHeard
<1>7. Owns(call[t])'
  BY <1>2, <1>4, <1>6, StaysOwned
<1>8. Honest(call[t])'
  BY <1>4, <1>7, EmptyHands DEF Honest, RowsInHand, SentInHand, ToldInHand, Claims
<1>9. QuietStep(t)
  BY <1>4, EmptyHands, NoRowsNoAlerts DEF QuietStep
<1>. QED BY <1>1, <1>3, <1>4, <1>5, <1>6, <1>8, <1>9 DEF WorkStep

----
(***************************************************************************)
(* The other actions.                                                      *)
(***************************************************************************)
\* Threads that lose what they have in hand, or nothing that concerns a run.
Dropped ==
  /\ today' \in Int /\ slot' \in Nat \ {0} /\ UNCHANGED <<telegram, jobRuns, db, delivered>>
  /\ DOMAIN call' = Threads /\ \A u \in Threads : call'[u] \in {call[u], AtRest}

LEMMA DroppedKeeps ==
  ASSUME JobRunsInv, Dropped
  PROVE  JobRunsInv'
<1>. USE DEF Dropped
<1>1. Shape'
  BY EmptyHands DEF JobRunsInv, Shape
<1>2. ASSUME NEW u \in Threads PROVE Honest(call[u])'
  <2>1. CASE call'[u] = AtRest
    BY <2>1, EmptyHands DEF Honest
  <2>2. CASE call'[u] = call[u]
    BY <2>2 DEF JobRunsInv, Honest, Owns, RowsInHand, SentInHand, ToldInHand, Claims, Told, Telling,
                Arrivals, Recommendation, Report, Target
  <2>. QED BY <2>1, <2>2
<1>3. Separate'
  BY EmptyHands DEF JobRunsInv, Separate
<1>4. LogsAreSafe'
  BY EmptyHands DEF JobRunsInv, LogsAreSafe
<1>5. SuccessIsTold' /\ SentIsTrue'
  BY DEF JobRunsInv, SuccessIsTold, SentIsTrue, Told, Arrivals, Recommendation, Report, Target
<1>. QED BY <1>1, <1>2, <1>3, <1>4, <1>5 DEF JobRunsInv

LEMMA OutsideKeeps ==
  ASSUME JobRunsInv, \/ Missed \/ NextMorning \/ Start \/ Crash(Pool) \/ Crash(Shell)
                  \/ \E t \in Threads : WriteFails(t)
  PROVE  JobRunsInv'
<1>1. /\ today \in Int /\ slot \in Nat \ {0} /\ DOMAIN call = Threads
  BY DEF JobRunsInv, Shape
<1>2. CASE Missed \/ NextMorning \/ Start
  BY <1>1, <1>2, DroppedKeeps DEF Dropped, Missed, NextMorning, Start
<1>3. CASE Crash(Pool) \/ Crash(Shell)
  BY <1>1, <1>3, DroppedKeeps DEF Dropped, Crash
<1>4. CASE \E t \in Threads : WriteFails(t)
  BY <1>1, <1>4, DroppedKeeps DEF Dropped, WriteFails
<1>. QED BY <1>2, <1>3, <1>4

LEMMA BeginKeeps ==
  ASSUME JobRunsInv, NEW t \in Threads, NEW job \in Jobs, Begin(t, job),
         slot' \in Nat \ {0}, UNCHANGED <<today, telegram, db, delivered>>
  PROVE  JobRunsInv'
<1>. DEFINE r == call'[t]  new == Len(jobRuns) + 1
            row == [job |-> job, day |-> today, status |-> "RUNNING"]
<1>1. /\ Shape /\ DOMAIN call = Threads /\ today \in Int /\ jobRuns \in Seq(Runs)
  BY DEF JobRunsInv, Shape
<1>2. row \in Runs
  BY <1>1 DEF Runs
<1>3. /\ jobRuns' \in Seq(Runs) /\ new \in Nat \ {0} /\ DOMAIN jobRuns' = DOMAIN jobRuns \cup {new}
      /\ jobRuns'[new] = row /\ new \notin DOMAIN jobRuns
      /\ \A i \in DOMAIN jobRuns : jobRuns'[i] = jobRuns[i]
  <2>1. jobRuns' = Append(jobRuns, row)
    BY DEF Begin
  <2>. HIDE DEF row
  <2>. QED BY <1>1, <1>2, <2>1, OneMore
<1>4. /\ r = [AtRest EXCEPT !.pc = "work", !.job = job, !.day = today, !.run = new]
      /\ Others(t) /\ call[t].pc = "idle"
  BY <1>1 DEF Begin, Others
<1>5. /\ DOMAIN r = CallFields /\ r.pc = "work" /\ r.job = job /\ r.day = today /\ r.run = new
      /\ r.w = NoWrites /\ r.result = "-"
  BY <1>4, EmptyHands DEF CallFields
<1>6. /\ row.job = job /\ row.day = today /\ row.status = "RUNNING"
  OBVIOUS
<1>7. Handled(r)
  BY <1>1, <1>3, <1>5, EmptyHands DEF Handled
<1>. HIDE DEF row, new
<1>8. Shape'
  BY <1>1, <1>3, <1>4, <1>7 DEF Shape, Others
<1>9. Honest(call[t])'
  BY <1>3, <1>5, <1>6, EmptyHands DEF Honest, Owns, RowsInHand, SentInHand, ToldInHand, Claims
<1>10. \A u \in Threads : call[u].pc # "idle" => call[u].run \in DOMAIN jobRuns
  BY DEF JobRunsInv, Honest, Owns
<1>11. \A x \in DOMAIN jobRuns : Told(x) => Told(x)'
  BY <1>3 DEF Told
<1>12. ASSUME NEW u \in Threads \ {t} PROVE Honest(call[u])'
  <2>1. call'[u] = call[u] /\ Honest(call[u])
    BY <1>4 DEF Others, JobRunsInv
  <2>. QED BY <1>3, <1>11, <2>1
           DEF Honest, Owns, RowsInHand, SentInHand, ToldInHand, Claims, Telling,
               Arrivals, Recommendation, Report, Target
<1>13. Separate'
  <2>1. \A u \in Threads \ {t} : call'[u] = call[u] /\ (call[u].pc # "idle" => call[u].run # new)
    BY <1>3, <1>4, <1>10 DEF Others
  <2>2. r.run = new
    BY <1>5
  <2>3. SUFFICES ASSUME NEW v \in Threads, NEW u \in Threads, v # u,
                        call'[v].pc # "idle", call'[u].pc # "idle"
                 PROVE  call'[v].run # call'[u].run
    BY DEF Separate
  <2>4. CASE v = t
    BY <2>1, <2>2, <2>3, <2>4
  <2>5. CASE u = t
    BY <2>1, <2>2, <2>3, <2>5
  <2>6. CASE v # t /\ u # t
    BY <2>1, <2>3, <2>6 DEF JobRunsInv, Separate
  <2>. QED BY <2>4, <2>5, <2>6
<1>14. LogsAreSafe'
  <2>1. /\ LogsAreSafe /\ UNCHANGED db /\ r.run = new
        /\ \A u \in Threads \ {t} : call'[u] = call[u]
    BY <1>4, <1>5 DEF JobRunsInv, Others
  <2>2. SUFFICES ASSUME NEW i \in DOMAIN db.logs, db.logs[i].run # 0
                 PROVE  /\ db.logs[i].run \in DOMAIN jobRuns'
                        /\ jobRuns'[db.logs[i].run].status # "FAILED"
                        /\ \A u \in Threads : call'[u].pc # "idle" /\ call'[u].run = db.logs[i].run =>
                             call'[u].pc = "finish" /\ call'[u].result # "FAILED"
    BY <2>1 DEF LogsAreSafe
  <2>3. /\ db.logs[i].run \in DOMAIN jobRuns /\ jobRuns[db.logs[i].run].status # "FAILED"
        /\ \A u \in Threads : call[u].pc # "idle" /\ call[u].run = db.logs[i].run =>
             call[u].pc = "finish" /\ call[u].result # "FAILED"
    BY <2>1, <2>2 DEF LogsAreSafe
  <2>. QED BY <1>3, <2>1, <2>3
<1>15. SuccessIsTold'
  BY <1>3, <1>6, <1>11 DEF JobRunsInv, SuccessIsTold
<1>16. SentIsTrue'
  BY DEF JobRunsInv, SentIsTrue, Arrivals, Recommendation, Report, Target
<1>. QED BY <1>8, <1>9, <1>12, <1>13, <1>14, <1>15, <1>16 DEF JobRunsInv

----
\* The commit of a run's work adds to the tables and takes nothing from them.
StoresGrow ==
  /\ db'.held = db.held
  /\ \A c \in db.checks : Key(c) \in {Key(d) : d \in db'.checks}
  /\ DOMAIN db.logs \subseteq DOMAIN db'.logs
  /\ \A i \in DOMAIN db.logs : db'.logs[i] = db.logs[i]

LEMMA ToldStays ==
  ASSUME NEW r, StoresGrow, UNCHANGED jobRuns, Told(r)
  PROVE  Told(r)'
<1>1. \A k \in {Key(c) : c \in db.checks} : k \in {Key(d) : d \in db'.checks}
  BY DEF StoresGrow
<1>. QED BY <1>1 DEF Told, StoresGrow, Key

LEMMA AppliedGrows ==
  ASSUME JobRunsInv, NEW t \in Threads, call[t].pc = "commit", db' = Applied(t)
  PROVE  /\ StoresGrow /\ DOMAIN db' = DbFields
         /\ db'.checks \subseteq Checks /\ call[t].w.checks \subseteq db'.checks
         /\ db'.logs \in Seq(Logs) /\ db'.sent \in BOOLEAN
         /\ db'.sent => db.sent \/ call[t].w.sent
         /\ \A i \in DOMAIN call[t].w.logs :
              \E k \in DOMAIN db'.logs : db'.logs[k] = call[t].w.logs[i]
         /\ \A k \in DOMAIN db'.logs :
              \/ k \in DOMAIN db.logs
              \/ \E i \in DOMAIN call[t].w.logs : db'.logs[k] = call[t].w.logs[i]
<1>. DEFINE w == call[t].w
<1>1. Shape /\ Written(w)
  BY AtWork DEF Handled, InWork, Working
<1>2. /\ DOMAIN db' = DbFields /\ db'.held = db.held
      /\ db'.checks = {c \in db.checks : Key(c) \notin {Key(d) : d \in w.checks}} \cup w.checks
      /\ db'.logs = db.logs \o w.logs
  BY <1>1 DEF Applied, Shape, DbFields
<1>3. db'.sent = (db.sent \/ w.sent)
  BY <1>1 DEF Applied, Shape, DbFields
<1>4. db.logs \in Seq(Logs) /\ w.logs \in Seq(Logs) /\ db.checks \subseteq Checks /\ w.checks \subseteq Checks
  BY <1>1 DEF Shape, Written
<1>. HIDE DEF w
<1>5. /\ db'.logs \in Seq(Logs) /\ DOMAIN db.logs \subseteq DOMAIN db'.logs
      /\ \A i \in DOMAIN db.logs : db'.logs[i] = db.logs[i]
      /\ \A i \in DOMAIN w.logs : \E k \in DOMAIN db'.logs : db'.logs[k] = w.logs[i]
      /\ \A k \in DOMAIN db'.logs :
           \/ k \in DOMAIN db.logs
           \/ \E i \in DOMAIN w.logs : db'.logs[k] = w.logs[i]
  <2>. DEFINE a == db.logs  b == w.logs  c == db'.logs
  <2>1. a \in Seq(Logs) /\ b \in Seq(Logs) /\ c = a \o b
    BY <1>2, <1>4
  <2>. HIDE DEF a, b, c
  <2>2. c \in Seq(Logs)
    BY <2>1, JoinedSpread
  <2>3. DOMAIN a \subseteq DOMAIN c /\ \A i \in DOMAIN a : c[i] = a[i]
    BY <2>1, JoinedSpread
  <2>4. AmongItems(b, c)
    BY <2>1, JoinedSpread
  <2>5. \A k \in DOMAIN c : k \in DOMAIN a \/ \E i \in DOMAIN b : c[k] = b[i]
    BY <2>1, JoinedSpread
  <2>. QED BY <2>2, <2>3, <2>4, <2>5 DEF a, b, c, AmongItems
<1>6. \A c \in db.checks : Key(c) \in {Key(d) : d \in db'.checks}
  BY <1>2
<1>7. db'.checks \subseteq Checks /\ w.checks \subseteq db'.checks
  BY <1>2, <1>4
<1>8. db'.sent \in BOOLEAN
  BY <1>3
<1>9. db'.sent => db.sent \/ w.sent
  BY <1>3
<1>. QED BY <1>2, <1>5, <1>6, <1>7, <1>8, <1>9 DEF StoresGrow, w

LEMMA CommitKeeps ==
  ASSUME JobRunsInv, NEW t \in Threads, Commit(t)
  PROVE  JobRunsInv'
<1>. DEFINE h == call[t]  r == call'[t]
<1>1. /\ h.pc = "commit" /\ db' = Applied(t)
      /\ call' = [call EXCEPT ![t].pc = "finish", ![t].w = NoWrites]
      /\ UNCHANGED <<today, slot, jobRuns, telegram, delivered>>
  BY DEF Commit
<1>2. /\ Handled(h) /\ DOMAIN h = CallFields /\ Shape /\ DOMAIN call = Threads
      /\ Owns(h) /\ RowsInHand(h) /\ SentInHand(h) /\ ToldInHand(h)
  BY <1>1, AtWork
<1>3. /\ r = [h EXCEPT !.pc = "finish", !.w = NoWrites] /\ Others(t)
  BY <1>1, <1>2 DEF Others, CallFields
<1>4. /\ DOMAIN r = CallFields /\ r.pc = "finish" /\ r.w = NoWrites
      /\ r.run = h.run /\ r.job = h.job /\ r.day = h.day /\ r.result = h.result
  BY <1>2, <1>3 DEF CallFields
<1>5. Handled(r)
  BY <1>1, <1>2, <1>4, EmptyHands DEF Handled
<1>6. /\ StoresGrow /\ DOMAIN db' = DbFields /\ db'.checks \subseteq Checks
      /\ h.w.checks \subseteq db'.checks /\ db'.logs \in Seq(Logs) /\ db'.sent \in BOOLEAN
      /\ \A i \in DOMAIN h.w.logs : \E k \in DOMAIN db'.logs : db'.logs[k] = h.w.logs[i]
  BY <1>1, AppliedGrows
<1>7. \A k \in DOMAIN db'.logs :
        \/ k \in DOMAIN db.logs /\ db'.logs[k] = db.logs[k]
        \/ \E i \in DOMAIN h.w.logs : db'.logs[k] = h.w.logs[i]
  BY <1>1, AppliedGrows DEF StoresGrow
<1>8. Shape'
  BY <1>1, <1>2, <1>3, <1>5, <1>6 DEF Shape, Others, StoresGrow
<1>9. ASSUME Claims(h) PROVE Told(call[t].run)'
  <2>1. Telling(h) /\ h.day = jobRuns[h.run].day /\ h.job = jobRuns[h.run].job
    BY <1>1, <1>2, <1>9 DEF ToldInHand, Owns, Claims
  <2>2. ASSUME NEW s \in db.held
        PROVE  <<s, jobRuns[h.run].day, jobRuns[h.run].job>> \in {Key(c) : c \in db'.checks}
    <3>1. PICK c \in h.w.checks : c.sym = s
      BY <2>1 DEF Telling
    <3>2. Key(c) = <<s, jobRuns[h.run].day, jobRuns[h.run].job>>
      BY <1>2, <2>1, <3>1 DEF RowsInHand, Key
    <3>. QED BY <1>6, <3>2
  <2>3. \E k \in DOMAIN db'.logs : db'.logs[k].run = h.run /\ Well(db'.logs[k])
    <3>1. PICK i \in DOMAIN h.w.logs : Well(h.w.logs[i])
      BY <2>1 DEF Telling
    <3>2. h.w.logs[i].run = h.run
      BY <1>2, <3>1 DEF RowsInHand
    <3>. QED BY <1>6, <3>1, <3>2
  <2>4. /\ \A s \in db'.held :
             <<s, jobRuns'[r.run].day, jobRuns'[r.run].job>> \in {Key(c) : c \in db'.checks}
        /\ \E k \in DOMAIN db'.logs : db'.logs[k].run = r.run /\ Well(db'.logs[k])
    BY <1>1, <1>4, <1>6, <2>2, <2>3 DEF StoresGrow
  <2>. QED BY <2>4 DEF Told, Key, Well, IsAlert
<1>10. Honest(call[t])'
  <2>1. Owns(call[t])'
    BY <1>1, <1>2, <1>4 DEF Owns
  <2>2. RowsInHand(call[t])' /\ SentInHand(call[t])'
    BY <1>4, EmptyHands DEF RowsInHand, SentInHand
  <2>3. ToldInHand(call[t])'
    BY <1>4, <1>6, <1>9 DEF ToldInHand, Claims, StoresGrow
  <2>. QED BY <2>1, <2>2, <2>3 DEF Honest
<1>11. ASSUME NEW u \in Threads \ {t} PROVE Honest(call[u])'
  <2>1. call'[u] = call[u] /\ Honest(call[u]) /\ db'.held = db.held
    BY <1>3, <1>6 DEF Others, JobRunsInv, StoresGrow
  <2>2. \A x : Told(x) => Told(x)'
    BY <1>1, <1>6, ToldStays
  <2>3. call[u].pc # "idle" => Owns(call[u])' /\ RowsInHand(call[u])' /\ SentInHand(call[u])'
    BY <1>1, <2>1 DEF Honest, Owns, RowsInHand, SentInHand, Arrivals, Recommendation, Report, Target
  <2>4. call[u].pc # "idle" => ToldInHand(call[u])'
    BY <1>1, <1>6, <2>1, <2>2 DEF Honest, ToldInHand, Claims, Telling
  <2>. QED BY <2>1, <2>3, <2>4 DEF Honest
<1>12. Separate'
  BY <1>1, <1>3, <1>4 DEF JobRunsInv, Separate, Others
<1>13. LogsAreSafe'
  <2>1. SUFFICES ASSUME NEW k \in DOMAIN db'.logs, db'.logs[k].run # 0
                 PROVE  /\ db'.logs[k].run \in DOMAIN jobRuns
                        /\ jobRuns[db'.logs[k].run].status # "FAILED"
                        /\ \A u \in Threads : call'[u].pc # "idle" /\ call'[u].run = db'.logs[k].run =>
                             call'[u].pc = "finish" /\ call'[u].result # "FAILED"
    BY <1>1 DEF LogsAreSafe
  <2>2. CASE k \in DOMAIN db.logs /\ db'.logs[k] = db.logs[k]
    <3>1. /\ db.logs[k].run \in DOMAIN jobRuns /\ jobRuns[db.logs[k].run].status # "FAILED"
          /\ \A u \in Threads : call[u].pc # "idle" /\ call[u].run = db.logs[k].run =>
               call[u].pc = "finish" /\ call[u].result # "FAILED"
      BY <2>1, <2>2 DEF JobRunsInv, LogsAreSafe
    <3>. QED BY <1>1, <1>3, <1>4, <2>2, <3>1 DEF Others
  <2>3. CASE \E i \in DOMAIN h.w.logs : db'.logs[k] = h.w.logs[i]
    <3>1. PICK i \in DOMAIN h.w.logs : db'.logs[k] = h.w.logs[i]
      BY <2>3
    <3>2. /\ db'.logs[k].run = h.run /\ h.result # "FAILED"
      BY <1>2, <3>1 DEF RowsInHand
    <3>3. h.run \in DOMAIN jobRuns /\ jobRuns[h.run].status # "FAILED"
      BY <1>2 DEF Owns
    <3>4. \A u \in Threads \ {t} : call'[u].pc # "idle" => call'[u].run # h.run
      BY <1>1, <1>3 DEF JobRunsInv, Separate, Others
    <3>. QED BY <1>4, <3>2, <3>3, <3>4
  <2>. QED BY <1>7, <2>2, <2>3
<1>14. SuccessIsTold'
  <2>1. \A x \in DOMAIN jobRuns : Told(x) => Told(x)'
    BY <1>1, <1>6, ToldStays
  <2>. QED BY <1>1, <1>6, <2>1 DEF JobRunsInv, SuccessIsTold, StoresGrow
<1>15. SentIsTrue'
  <2>. DEFINE True(log) == log.target = Recommendation /\ log.status = "SUCCESS"
  <2>1. SUFFICES ASSUME db'.sent
                 PROVE  Arrivals(Recommendation) > 0 /\ \E k \in DOMAIN db'.logs : True(db'.logs[k])
    BY <1>1 DEF SentIsTrue, Arrivals, Recommendation, Report, Target
  <2>2. db.sent \/ h.w.sent
    BY <1>1, <2>1, AppliedGrows
  <2>3. CASE db.sent
    <3>1. Arrivals(Recommendation) > 0 /\ \E k \in DOMAIN db.logs : True(db.logs[k])
      BY <2>3 DEF JobRunsInv, SentIsTrue
    <3>. QED BY <1>6, <3>1 DEF StoresGrow
  <2>4. CASE h.w.sent
    <3>1. Arrivals(Recommendation) > 0 /\ \E i \in DOMAIN h.w.logs : True(h.w.logs[i])
      BY <1>2, <2>4 DEF SentInHand
    <3>. QED BY <1>6, <3>1
  <2>. QED BY <2>2, <2>3, <2>4
<1>16. \A u \in Threads : Honest(call[u])'
  BY <1>10, <1>11
<1>. QED BY <1>8, <1>12, <1>13, <1>14, <1>15, <1>16 DEF JobRunsInv

----
LEMMA FinishKeeps ==
  ASSUME JobRunsInv, NEW t \in Threads, Finish(t)
  PROVE  JobRunsInv'
<1>. DEFINE h == call[t]
<1>1. /\ h.pc = "finish" /\ jobRuns' = [jobRuns EXCEPT ![h.run].status = h.result]
      /\ call' = [call EXCEPT ![t] = AtRest]
      /\ UNCHANGED <<today, slot, telegram, db, delivered>>
  BY DEF Finish
<1>2. /\ Handled(h) /\ Shape /\ DOMAIN call = Threads /\ Owns(h) /\ ToldInHand(h)
      /\ h.run \in DOMAIN jobRuns /\ h.result \in {"SUCCESS", "PARTIAL", "FAILED"}
  BY <1>1, AtWork DEF Handled, Owns
<1>3. call'[t] = AtRest /\ Others(t)
  BY <1>1, <1>2 DEF Others
<1>4. /\ jobRuns \in Seq(Runs) /\ DOMAIN jobRuns' = DOMAIN jobRuns
      /\ jobRuns'[h.run] = [jobRuns[h.run] EXCEPT !.status = h.result]
      /\ \A x \in DOMAIN jobRuns : x # h.run => jobRuns'[x] = jobRuns[x]
  BY <1>1, <1>2 DEF Shape
<1>5. jobRuns[h.run] \in Runs
  BY <1>2, RunsAre
<1>6. /\ jobRuns'[h.run] \in Runs /\ jobRuns'[h.run].status = h.result
      /\ jobRuns'[h.run].job = jobRuns[h.run].job /\ jobRuns'[h.run].day = jobRuns[h.run].day
  BY <1>2, <1>4, <1>5 DEF Runs
<1>7. jobRuns' \in Seq(Runs)
  <2>. DEFINE row == [jobRuns[h.run] EXCEPT !.status = h.result]  k == h.run
  <2>1. row \in Runs /\ k \in DOMAIN jobRuns /\ jobRuns' = [jobRuns EXCEPT ![k] = row]
    BY <1>1, <1>2, <1>4, <1>6
  <2>. HIDE DEF row, k
  <2>. QED BY <1>4, <2>1
<1>8. Shape'
  BY <1>1, <1>2, <1>3, <1>7, EmptyHands DEF Shape, Others
<1>9. \A x \in DOMAIN jobRuns : Told(x) => Told(x)'
  <2>1. \A x \in DOMAIN jobRuns : jobRuns'[x].day = jobRuns[x].day /\ jobRuns'[x].job = jobRuns[x].job
    BY <1>4, <1>6
  <2>. QED BY <1>1, <2>1 DEF Told
<1>10. ASSUME NEW u \in Threads PROVE Honest(call[u])'
  <2>1. CASE u = t
    BY <1>3, <2>1, EmptyHands DEF Honest
  <2>2. CASE u # t
    <3>1. call'[u] = call[u] /\ Honest(call[u])
      BY <1>3, <2>2 DEF Others, JobRunsInv
    <3>2. call[u].pc # "idle" => call[u].run \in DOMAIN jobRuns /\ call[u].run # h.run
      BY <1>1, <2>2, <3>1 DEF JobRunsInv, Separate, Honest, Owns
    <3>. QED BY <1>1, <1>4, <1>9, <3>1, <3>2
             DEF Honest, Owns, RowsInHand, SentInHand, ToldInHand, Claims, Telling,
                 Arrivals, Recommendation, Report, Target
  <2>. QED BY <2>1, <2>2
<1>11. Separate'
  BY <1>3, EmptyHands DEF JobRunsInv, Separate, Others
<1>12. LogsAreSafe'
  <2>1. SUFFICES ASSUME NEW i \in DOMAIN db.logs, db.logs[i].run # 0
                 PROVE  /\ db.logs[i].run \in DOMAIN jobRuns'
                        /\ jobRuns'[db.logs[i].run].status # "FAILED"
                        /\ \A u \in Threads : call'[u].pc # "idle" /\ call'[u].run = db.logs[i].run =>
                             call'[u].pc = "finish" /\ call'[u].result # "FAILED"
    BY <1>1 DEF LogsAreSafe
  <2>2. /\ db.logs[i].run \in DOMAIN jobRuns /\ jobRuns[db.logs[i].run].status # "FAILED"
        /\ \A u \in Threads : call[u].pc # "idle" /\ call[u].run = db.logs[i].run =>
             call[u].pc = "finish" /\ call[u].result # "FAILED"
    BY <2>1 DEF JobRunsInv, LogsAreSafe
  <2>3. db.logs[i].run = h.run => h.result # "FAILED"
    BY <1>1, <2>2
  <2>4. \A u \in Threads : call'[u].pc # "idle" => call'[u] = call[u]
    BY <1>3, EmptyHands DEF Others
  <2>5. jobRuns'[db.logs[i].run].status # "FAILED"
    <3>1. CASE db.logs[i].run = h.run
      BY <1>6, <2>3, <3>1
    <3>2. CASE db.logs[i].run # h.run
      BY <1>4, <2>2, <3>2
    <3>. QED BY <3>1, <3>2
  <2>. QED BY <1>4, <2>2, <2>4, <2>5
<1>13. SuccessIsTold'
  <2>1. SUFFICES ASSUME NEW x \in DOMAIN jobRuns, jobRuns'[x].status = "SUCCESS",
                        jobRuns'[x].job \in CheckJobs, db.held # {}
                 PROVE  Told(x)'
    BY <1>1, <1>4 DEF SuccessIsTold
  <2>2. CASE x = h.run
    <3>1. Claims(h)
      BY <1>2, <1>6, <2>1, <2>2 DEF Claims, Owns
    <3>2. Told(x)
      BY <1>1, <1>2, <2>2, <3>1 DEF ToldInHand
    <3>. QED BY <1>9, <3>2
  <2>3. CASE x # h.run
    BY <1>4, <1>9, <2>1, <2>3 DEF JobRunsInv, SuccessIsTold
  <2>. QED BY <2>2, <2>3
<1>14. SentIsTrue'
  BY <1>1 DEF JobRunsInv, SentIsTrue, Arrivals, Recommendation, Report, Target
<1>. QED BY <1>8, <1>10, <1>11, <1>12, <1>13, <1>14 DEF JobRunsInv

LEMMA RunsInvNext == JobRunsInv /\ [JobsNext]_jobsVars => JobRunsInv'
<1>. SUFFICES ASSUME JobRunsInv, [JobsNext]_jobsVars PROVE JobRunsInv'
  OBVIOUS
<1>1. /\ Shape /\ today \in Int /\ slot \in Nat \ {0} /\ DOMAIN call = Threads
      /\ Pool \subseteq Threads /\ Shell \subseteq Threads
  BY DEF JobRunsInv, Shape, Threads
<1>2. CASE Fire
  <2>1. PICK t \in Pool : Begin(t, Timetable[slot])
    BY <1>2 DEF Fire
  <2>2. Timetable[slot] \in Jobs
    <3>1. Timetable \in Seq(Jobs) /\ slot \in Nat \ {0} /\ slot <= Len(Timetable)
      BY <1>1, <1>2, DailyJobsAssumption DEF Fire
    <3>. QED BY <3>1
  <2>3. slot' \in Nat \ {0} /\ UNCHANGED <<today, telegram, db, delivered>>
    BY <1>1, <1>2 DEF Fire
  <2>. QED BY <1>1, <2>1, <2>2, <2>3, BeginKeeps
<1>3. CASE \E t \in Threads : \E job \in Jobs : RunByHand(t, job)
  <2>1. PICK t \in Threads : \E job \in Jobs : RunByHand(t, job)
    BY <1>3
  <2>2. PICK job \in Jobs : RunByHand(t, job)
    BY <2>1
  <2>3. /\ Begin(t, job) /\ slot' \in Nat \ {0} /\ UNCHANGED <<today, telegram, db, delivered>>
    BY <1>1, <2>2 DEF RunByHand
  <2>. QED BY <2>3, BeginKeeps
<1>4. ASSUME NEW t \in Threads, Step(t) PROVE JobRunsInv'
  <2>1. CASE Collect(t)
    BY <2>1, CollectSteps, WorkKeeps
  <2>2. CASE CalculateIndicators(t)
    BY <2>2, CalculateIndicatorsSteps, WorkKeeps
  <2>3. CASE UpdateDerived(t)
    BY <2>3, UpdateDerivedSteps, WorkKeeps
  <2>4. CASE SendRecommendations(t)
    BY <2>4, SendRecommendationsSteps, WorkKeeps
  <2>5. CASE RunHoldingCheck(t)
    BY <2>5, RunHoldingCheckSteps, WorkKeeps
  <2>6. CASE CheckUnlocked(t)
    BY <2>6, CheckUnlockedSteps, WorkKeeps
  <2>7. CASE SendHoldingReport(t)
    BY <2>7, SendHoldingReportSteps, WorkKeeps
  <2>8. CASE PlanAlerts(t)
    BY <2>8, PlanAlertsSteps, WorkKeeps
  <2>9. CASE SendAlert(t)
    BY <2>9, SendAlertSteps, WorkKeeps
  <2>10. CASE AlertsDone(t)
    BY <2>10, AlertsDoneSteps, WorkKeeps
  <2>11. CASE Raise(t)
    BY <2>11, RaiseSteps, WorkKeeps
  <2>12. CASE Commit(t)
    BY <2>12, CommitKeeps
  <2>13. CASE WriteFails(t)
    BY <2>13, OutsideKeeps
  <2>14. CASE Finish(t)
    BY <2>14, FinishKeeps
  <2>. QED BY <1>4, <2>1, <2>2, <2>3, <2>4, <2>5, <2>6, <2>7, <2>8, <2>9, <2>10, <2>11,
              <2>12, <2>13, <2>14 DEF Step
<1>5. CASE Missed \/ NextMorning \/ Start \/ Crash(Pool) \/ Crash(Shell)
  BY <1>5, OutsideKeeps
<1>6. CASE UNCHANGED jobsVars
  BY <1>1, <1>6, DroppedKeeps DEF Dropped, jobsVars
<1>. QED BY <1>2, <1>3, <1>4, <1>5, <1>6 DEF JobsNext

LEMMA RunsInvAlways == JobsSpec => []JobRunsInv
BY RunsInvInit, RunsInvNext, PTL DEF JobsSpec

(***************************************************************************)
(* What a job wrote, what it sent and what its job_runs row says agree in  *)
(* every state, although run_job writes them in two transactions and the   *)
(* scheduler and an operator may run the same job at once.                 *)
(***************************************************************************)
THEOREM RunsTell == JobsSpec => []RunsTellWhatWasDone
BY RunsInvAlways, RunsInvTells, PTL

----
(***************************************************************************)
(* Alerts.  An alert on its way is not among the rows that the dispatcher  *)
(* lists, and it stays so until it is committed: as long as the log is     *)
(* shorter than the list, it is about a row that this thread has locked    *)
(* and another thread with the same alert would have to have it too.       *)
(***************************************************************************)
Targeted(c) == Target(c.type, c.day, c.sym, c.level)
Recent == {db.logs[i].target : i \in {n \in DOMAIN db.logs : n <= ListLimit}}
Full == ListLimit <= Len(db.logs)
OnItsWay(h) == Alerts(h.w.logs) \cup {tg \in h.todo : h.pc = "alerts"}

EachOnce(q) ==
  \A i, j \in DOMAIN q : i < j /\ IsAlert(q[i].target) => q[i].target # q[j].target

OffTheList(h, tg) == tg \notin Recent /\ (Full \/ \E c \in h.w.checks : tg = Targeted(c))

AlertsInHand(h) ==
  /\ h.pc \notin {"alerts", "commit"} => Alerts(h.w.logs) = {}
  /\ EachOnce(h.w.logs)
  /\ h.pc = "alerts" => \A tg \in h.todo : IsAlert(tg) /\ tg \notin Alerts(h.w.logs)
  /\ \A tg \in OnItsWay(h) : OffTheList(h, tg)
  /\ h.pc \in {"alerts", "commit"} =>
       \A c \in h.w.checks : c.level # "NONE" => Targeted(c) \in Alerts(db.logs) \cup OnItsWay(h)

\* Two threads never hold rows of the same key.
Exclusive ==
  \A t, u \in Threads : t # u =>
    \A c \in call[t].w.checks, d \in call[u].w.checks : Key(c) # Key(d)

ChecksAreLogged == \A c \in db.checks : c.level # "NONE" => Targeted(c) \in Alerts(db.logs)

AlertsInv ==
  /\ \A t \in Threads : AlertsInHand(call[t])
  /\ Exclusive /\ ChecksAreLogged /\ AlertsRepeatOnlyPastTheList

LEMMA QuietHands ==
  ASSUME NEW h, Alerts(h.w.logs) = {}, h.pc \notin {"alerts", "commit"} \/ h.w.checks = {},
         h.pc # "alerts"
  PROVE  AlertsInHand(h)
<1>1. OnItsWay(h) = {}
  BY DEF OnItsWay
<1>2. EachOnce(h.w.logs)
  BY DEF EachOnce, Alerts
<1>. QED BY <1>1, <1>2 DEF AlertsInHand

LEMMA AlertsInvInit == JobsInit => AlertsInv
<1>. SUFFICES ASSUME JobsInit PROVE AlertsInv
  OBVIOUS
<1>1. /\ call = [t \in Threads |-> AtRest] /\ db \in Databases
  BY DEF JobsInit
<1>2. PICK some \in BOOLEAN, logs \in {<<>>, <<EarlierLog>>}, held \in {Held, {}} :
        db = Database(some, logs, held)
  BY <1>1 DEF Databases
<1>3. db.logs = logs /\ db.checks = {}
  BY <1>2 DEF Database
<1>4. \A i \in DOMAIN logs : ~IsAlert(logs[i].target)
  BY DEF EarlierLog, Report, Target, IsAlert
<1>5. AlertsInHand(AtRest)
  BY EmptyHands, NoRowsNoAlerts, QuietHands
<1>. QED BY <1>1, <1>3, <1>4, <1>5, EmptyHands
         DEF AlertsInv, Exclusive, ChecksAreLogged, AlertsRepeatOnlyPastTheList

\* A step of one thread that leaves the tables alone.
LEMMA AlertsLocally ==
  ASSUME AlertsInv, NEW t \in Threads, Others(t), UNCHANGED db, AlertsInHand(call[t])',
         \A u \in Threads \ {t} : \A c \in call'[t].w.checks, d \in call[u].w.checks : Key(c) # Key(d)
  PROVE  AlertsInv'
<1>1. ASSUME NEW u \in Threads PROVE AlertsInHand(call[u])'
  <2>1. CASE u = t
    BY <2>1
  <2>2. CASE u # t
    BY <2>2 DEF Others, AlertsInv, AlertsInHand, OnItsWay, OffTheList, Recent, Full
  <2>. QED BY <2>1, <2>2
<1>2. Exclusive'
  <2>1. SUFFICES ASSUME NEW v \in Threads, NEW u \in Threads, v # u,
                        NEW c \in call'[v].w.checks, NEW d \in call'[u].w.checks
                 PROVE  Key(c) # Key(d)
    BY DEF Exclusive, Key
  <2>2. \A x \in Threads \ {t} : call'[x] = call[x]
    BY DEF Others
  <2>3. CASE v = t
    BY <2>1, <2>2, <2>3
  <2>4. CASE u = t
    BY <2>1, <2>2, <2>4
  <2>5. CASE u # t /\ v # t
    BY <2>1, <2>2, <2>5 DEF AlertsInv, Exclusive
  <2>. QED BY <2>3, <2>4, <2>5
<1>3. ChecksAreLogged' /\ AlertsRepeatOnlyPastTheList'
  BY DEF AlertsInv, ChecksAreLogged, AlertsRepeatOnlyPastTheList, Targeted, Target
<1>. QED BY <1>1, <1>2, <1>3 DEF AlertsInv

LEMMA AlertsQuietly ==
  ASSUME AlertsInv, NEW t \in Threads, Others(t), UNCHANGED db, QuietStep(t)
  PROVE  AlertsInv'
<1>1. AlertsInHand(call[t])'
  <2>. DEFINE r == call'[t]
  <2>1. /\ r.w.checks = {} /\ Alerts(r.w.logs) = {} /\ r.pc # "alerts"
    BY DEF QuietStep
  <2>2. (\A tg : tg \notin OnItsWay(r)) /\ EachOnce(r.w.logs)
    BY <2>1 DEF OnItsWay, EachOnce, Alerts
  <2>. QED BY <2>1, <2>2 DEF AlertsInHand
<1>2. \A u \in Threads \ {t} : \A c \in call'[t].w.checks, d \in call[u].w.checks : Key(c) # Key(d)
  BY DEF QuietStep
<1>. QED BY <1>1, <1>2, AlertsLocally

----
LEMMA OneMoreAlert ==
  ASSUME NEW q \in Seq(Logs), NEW log \in Logs
  PROVE  /\ Alerts(Append(q, log)) = Alerts(q) \cup {tg \in {log.target} : IsAlert(tg)}
         /\ EachOnce(q) /\ log.target \notin Alerts(q) => EachOnce(Append(q, log))
<1>. DEFINE new == Append(q, log)  k == Len(q) + 1
<1>1. /\ DOMAIN new = DOMAIN q \cup {k} /\ new[k] = log /\ k \notin DOMAIN q
      /\ \A i \in DOMAIN q : new[i] = q[i]
  BY OneMore
<1>2. \A i \in DOMAIN q : i \in Nat /\ ~(k < i) /\ k \in Nat /\ ~(k < k)
  OBVIOUS
<1>. HIDE DEF new, k
<1>3. Alerts(new) = Alerts(q) \cup {tg \in {log.target} : IsAlert(tg)}
  BY <1>1 DEF Alerts
<1>4. ASSUME EachOnce(q), log.target \notin Alerts(q) PROVE EachOnce(new)
  <2>1. SUFFICES ASSUME NEW i \in DOMAIN new, NEW j \in DOMAIN new, i < j, IsAlert(new[i].target)
                 PROVE  new[i].target # new[j].target
    BY DEF EachOnce
  <2>2. i \in DOMAIN q
    <3>1. i = k => FALSE
      <4>1. k < j => j \in DOMAIN q \/ j = k
        BY <1>1
      <4>2. ~(k < k)
        BY DEF k
      <4>. QED BY <1>2, <2>1, <4>1, <4>2
    <3>. QED BY <1>1, <3>1
  <2>3. CASE j \in DOMAIN q
    BY <1>1, <1>4, <2>1, <2>2, <2>3 DEF EachOnce
  <2>4. CASE j = k
    <3>1. q[i].target \in Alerts(q)
      BY <1>1, <2>1, <2>2 DEF Alerts
    <3>. QED BY <1>1, <1>4, <2>2, <2>4, <3>1
  <2>. QED BY <1>1, <2>3, <2>4
<1>. QED BY <1>3, <1>4 DEF new

\* What the dispatcher lists: the recent rows, and of the others only its own.
LEMMA ListedIs ==
  ASSUME Shape, NEW t \in Threads, Handled(call[t])
  PROVE  /\ Recent \subseteq Listed(t)
         /\ \A i \in DOMAIN db.logs : ~Full => db.logs[i].target \in Listed(t)
         /\ \A tg \in Listed(t) :
              \/ \E i \in DOMAIN db.logs : db.logs[i].target = tg
              \/ \E i \in DOMAIN call[t].w.logs : call[t].w.logs[i].target = tg
<1>. DEFINE a == db.logs  b == call[t].w.logs  c == a \o b
<1>1. a \in Seq(Logs) /\ b \in Seq(Logs)
  BY DEF Shape, Handled, Written
<1>2. Listed(t) = {c[i].target : i \in {n \in DOMAIN c : n <= ListLimit}}
  BY DEF Listed
<1>. HIDE DEF a, b
<1>3. /\ DOMAIN a \subseteq DOMAIN c /\ \A i \in DOMAIN a : c[i] = a[i]
  BY <1>1, JoinedSpread
<1>4. \A k \in DOMAIN c : k \in DOMAIN a \/ \E i \in DOMAIN b : c[k] = b[i]
  BY <1>1, JoinedSpread
<1>5. \A i \in DOMAIN a : i \in Nat /\ i <= Len(a) /\ Len(a) \in Nat
  BY <1>1
<1>6. Recent = {a[i].target : i \in {n \in DOMAIN a : n <= ListLimit}} /\ (~Full => ~(ListLimit <= Len(a)))
  BY DEF Recent, Full, a
<1>. HIDE DEF c
<1>7. Recent \subseteq Listed(t)
  BY <1>2, <1>3, <1>6
<1>8. ASSUME NEW i \in DOMAIN a, ~Full PROVE a[i].target \in Listed(t)
  <2>1. i <= ListLimit
    <3>1. ListLimit \in Nat /\ ~(ListLimit <= Len(a))
      BY <1>6, <1>8, DailyJobsAssumption
    <3>2. i \in Nat /\ i <= Len(a) /\ Len(a) \in Nat
      BY <1>5
    <3>. QED BY <3>1, <3>2
  <2>. QED BY <1>2, <1>3, <2>1
<1>9. \A tg \in Listed(t) : (\E i \in DOMAIN a : a[i].target = tg) \/ (\E i \in DOMAIN b : b[i].target = tg)
  BY <1>2, <1>3, <1>4
<1>. QED BY <1>7, <1>8, <1>9 DEF a, b

----
LEMMA CheckedAlerts ==
  ASSUME AlertsInv, NEW t \in Threads, Others(t), UNCHANGED db, CheckedAlone(t)
  PROVE  AlertsInv'
<1>. DEFINE r == call'[t]
<1>1. /\ r.pc = "report" /\ r.w.logs = <<>>
      /\ \A u \in Threads \ {t} : \A c \in r.w.checks, d \in call[u].w.checks : Key(c) # Key(d)
  BY DEF CheckedAlone
<1>2. AlertsInHand(call[t])'
  <2>1. /\ r.pc = "report" /\ Alerts(r.w.logs) = {}
    BY <1>1, NoRowsNoAlerts
  <2>2. (\A tg : tg \notin OnItsWay(r)) /\ EachOnce(r.w.logs)
    BY <2>1 DEF OnItsWay, EachOnce, Alerts
  <2>. QED BY <2>1, <2>2 DEF AlertsInHand
<1>. QED BY <1>1, <1>2, AlertsLocally

\* A step that keeps the rows of the check.
LEMMA AlertsOfSameRows ==
  ASSUME AlertsInv, NEW t \in Threads, Others(t), UNCHANGED db, AlertsInHand(call[t])',
         call'[t].w.checks = call[t].w.checks
  PROVE  AlertsInv'
<1>1. \A u \in Threads \ {t} : \A c \in call'[t].w.checks, d \in call[u].w.checks : Key(c) # Key(d)
  BY DEF AlertsInv, Exclusive
<1>. QED BY <1>1, AlertsLocally

LEMMA ReportAlerts ==
  ASSUME JobRunsInv, AlertsInv, NEW t \in Threads, SendHoldingReport(t)
  PROVE  AlertsInv'
<1>. DEFINE h == call[t]  r == call'[t]
<1>1. /\ WorkStep(t) /\ h.pc = "report" /\ r.pc = "plan" /\ r.w.checks = h.w.checks
      /\ Alerts(r.w.logs) \subseteq Alerts(h.w.logs)
  BY SendHoldingReportSteps
<1>2. /\ Others(t) /\ UNCHANGED db
  BY <1>1 DEF WorkStep, Unwritten
<1>3. Alerts(r.w.logs) = {}
  BY <1>1 DEF AlertsInv, AlertsInHand
<1>4. (\A tg : tg \notin OnItsWay(r)) /\ EachOnce(r.w.logs)
  BY <1>1, <1>3 DEF OnItsWay, EachOnce, Alerts
<1>5. AlertsInHand(call[t])'
  BY <1>1, <1>3, <1>4 DEF AlertsInHand
<1>. QED BY <1>1, <1>2, <1>5, AlertsOfSameRows

LEMMA PlannedAlerts ==
  ASSUME JobRunsInv, AlertsInv, NEW t \in Threads, PlanAlerts(t)
  PROVE  AlertsInv'
<1>. DEFINE h == call[t]  r == call'[t]
            wanted == {Target(c.type, c.day, c.sym, c.level) :
                         c \in {d \in Current(t) : d.level # "NONE"}}
<1>1. /\ WorkStep(t) /\ h.pc = "plan" /\ r.pc = "alerts" /\ r.w = h.w
      /\ r.todo = wanted \ Listed(t)
  BY PlanAlertsSteps
<1>2. /\ Others(t) /\ UNCHANGED db
  BY <1>1 DEF WorkStep, Unwritten
<1>3. /\ Alerts(h.w.logs) = {} /\ Handled(h) /\ Shape /\ RowsInHand(h) /\ Written(h.w)
      /\ ChecksAreLogged
  BY <1>1, AtWork DEF AlertsInv, AlertsInHand, InWork, Working, Handled
<1>4. Current(t) \subseteq Checks /\ Current(t) \subseteq db.checks \cup h.w.checks
  BY <1>3 DEF Current, ChecksOf, Written, Shape
<1>5. h.w.checks \subseteq Current(t)
  BY <1>3 DEF Current, ChecksOf, RowsInHand
<1>6. wanted = {Targeted(c) : c \in {d \in Current(t) : d.level # "NONE"}}
  BY DEF Targeted
<1>. HIDE DEF wanted
<1>7. \A c \in Checks : IsAlert(Targeted(c))
  BY DEF Checks, Targeted, Target, IsAlert, Levels
<1>8. OnItsWay(r) = wanted \ Listed(t)
  BY <1>1, <1>3 DEF OnItsWay
<1>9. EachOnce(r.w.logs)
  BY <1>1, <1>3 DEF EachOnce, Alerts
<1>10. ASSUME NEW tg \in wanted \ Listed(t) PROVE OffTheList(call[t], tg)
  <2>1. tg \notin Recent
    BY <1>3, <1>10, ListedIs
  <2>2. PICK c \in Current(t) : c.level # "NONE" /\ tg = Targeted(c)
    BY <1>6, <1>10
  <2>3. ASSUME ~Full, c \in db.checks PROVE FALSE
    <3>1. PICK i \in DOMAIN db.logs : db.logs[i].target = tg
      BY <1>3, <2>2, <2>3 DEF ChecksAreLogged, Alerts
    <3>. QED BY <1>3, <1>10, <2>3, <3>1, ListedIs
  <2>. QED BY <1>4, <2>1, <2>2, <2>3 DEF OffTheList
<1>11. ASSUME NEW c \in h.w.checks, c.level # "NONE"
       PROVE  Targeted(c) \in Alerts(db.logs) \cup OnItsWay(r)
  <2>1. Targeted(c) \in wanted /\ IsAlert(Targeted(c))
    BY <1>4, <1>5, <1>6, <1>7, <1>11
  <2>2. CASE Targeted(c) \in Listed(t)
    <3>1. \/ \E i \in DOMAIN db.logs : db.logs[i].target = Targeted(c)
          \/ \E i \in DOMAIN h.w.logs : h.w.logs[i].target = Targeted(c)
      BY <1>3, <2>2, ListedIs
    <3>. QED BY <1>3, <2>1, <3>1 DEF Alerts
  <2>. QED BY <1>8, <2>1, <2>2
<1>12. AlertsInHand(call[t])'
  <2>1. \A tg \in r.todo : IsAlert(tg) /\ tg \notin Alerts(r.w.logs)
    BY <1>1, <1>3, <1>4, <1>6, <1>7
  <2>2. \A tg \in OnItsWay(r) : OffTheList(call[t], tg)
    BY <1>8, <1>10
  <2>3. \A tg \in OnItsWay(r) : OffTheList(call[t], tg)'
    BY <1>1, <1>2, <2>2 DEF OffTheList, Recent, Full, Targeted, Target
  <2>. QED BY <1>1, <1>2, <1>9, <1>11, <2>1, <2>3 DEF AlertsInHand, Targeted, Target
<1>. QED BY <1>1, <1>2, <1>12, AlertsOfSameRows

----
LEMMA SentAlerts ==
  ASSUME JobRunsInv, AlertsInv, NEW t \in Threads, SendAlert(t)
  PROVE  AlertsInv'
<1>. DEFINE h == call[t]  r == call'[t]
<1>1. /\ WorkStep(t) /\ h.pc = "alerts" /\ r.pc = "alerts" /\ r.w.checks = h.w.checks
  BY SendAlertSteps
<1>2. PICK log \in Logs : /\ log.target \in h.todo /\ r.todo = h.todo \ {log.target}
                          /\ r.w.logs = Append(h.w.logs, log)
  BY SendAlertSteps
<1>3. /\ Others(t) /\ UNCHANGED db
  BY <1>1 DEF WorkStep, Unwritten
<1>4. /\ AlertsInHand(h) /\ h.w.logs \in Seq(Logs)
  BY <1>1, AtWork DEF AlertsInv, InWork, Working, Handled, Written
<1>5. IsAlert(log.target) /\ log.target \notin Alerts(h.w.logs)
  BY <1>1, <1>2, <1>4 DEF AlertsInHand
<1>6. Alerts(r.w.logs) = Alerts(h.w.logs) \cup {log.target}
  BY <1>2, <1>4, <1>5, OneMoreAlert
<1>7. EachOnce(r.w.logs)
  BY <1>2, <1>4, <1>5, OneMoreAlert DEF AlertsInHand
<1>8. OnItsWay(r) = OnItsWay(h)
  BY <1>1, <1>2, <1>6 DEF OnItsWay
<1>9. \A tg \in r.todo : IsAlert(tg) /\ tg \notin Alerts(r.w.logs)
  BY <1>1, <1>2, <1>4, <1>6 DEF AlertsInHand
<1>10. \A tg \in OnItsWay(r) : OffTheList(call[t], tg)'
  BY <1>1, <1>3, <1>4, <1>8 DEF AlertsInHand, OffTheList, Recent, Full, Targeted, Target
<1>11. \A c \in r.w.checks : c.level # "NONE" => Targeted(c) \in Alerts(db.logs) \cup OnItsWay(r)
  BY <1>1, <1>4, <1>8 DEF AlertsInHand
<1>12. AlertsInHand(call[t])'
  BY <1>1, <1>3, <1>7, <1>9, <1>10, <1>11 DEF AlertsInHand, Targeted, Target
<1>. QED BY <1>1, <1>3, <1>12, AlertsOfSameRows

LEMMA DoneAlerts ==
  ASSUME JobRunsInv, AlertsInv, NEW t \in Threads, AlertsDone(t)
  PROVE  AlertsInv'
<1>. DEFINE h == call[t]  r == call'[t]
<1>1. /\ WorkStep(t) /\ h.pc = "alerts" /\ r.pc = "commit" /\ r.w = h.w /\ h.todo = {}
  BY AlertsDoneSteps
<1>2. /\ Others(t) /\ UNCHANGED db /\ AlertsInHand(h)
  BY <1>1 DEF WorkStep, Unwritten, AlertsInv
<1>3. OnItsWay(r) = OnItsWay(h)
  BY <1>1 DEF OnItsWay
<1>4. \A tg \in OnItsWay(r) : OffTheList(call[t], tg)'
  BY <1>1, <1>2, <1>3 DEF AlertsInHand, OffTheList, Recent, Full, Targeted, Target
<1>5. \A c \in r.w.checks : c.level # "NONE" => Targeted(c) \in Alerts(db.logs) \cup OnItsWay(r)
  BY <1>1, <1>2, <1>3 DEF AlertsInHand
<1>6. AlertsInHand(call[t])'
  BY <1>1, <1>2, <1>4, <1>5 DEF AlertsInHand, Targeted, Target
<1>. QED BY <1>1, <1>2, <1>6, AlertsOfSameRows

\* Rows b after rows a, by position.
Follow(a, b, c) ==
  /\ Len(c) >= Len(a)
  /\ \A k \in DOMAIN c : /\ k \in Nat
                         /\ \/ k \in DOMAIN a /\ k <= Len(a) /\ c[k] = a[k]
                            \/ k > Len(a) /\ k - Len(a) \in DOMAIN b /\ c[k] = b[k - Len(a)]

LEMMA JoinedFollow ==
  ASSUME NEW S, NEW a \in Seq(S), NEW b \in Seq(S)
  PROVE  Follow(a, b, a \o b)
<1>. DEFINE c == a \o b
<1>1. /\ c \in Seq(S) /\ DOMAIN a = 1 .. Len(a) /\ DOMAIN b = 1 .. Len(b)
      /\ DOMAIN c = 1 .. Len(a) + Len(b) /\ Len(a) \in Nat /\ Len(b) \in Nat
      /\ Len(c) = Len(a) + Len(b)
      /\ \A i \in DOMAIN a : c[i] = a[i]
      /\ \A i \in DOMAIN b : c[Len(a) + i] = b[i]
  OBVIOUS
<1>. HIDE DEF c
<1>2. Len(c) >= Len(a)
  BY <1>1
<1>3. \A k \in DOMAIN c : k \in Nat /\ (k <= Len(a) => k \in DOMAIN a)
  BY <1>1
<1>4. \A k \in DOMAIN c : k > Len(a) => k - Len(a) \in DOMAIN b /\ Len(a) + (k - Len(a)) = k
  BY <1>1
<1>5. \A k \in DOMAIN c : k <= Len(a) \/ k > Len(a)
  BY <1>1
<1>6. Follow(a, b, c)
  BY <1>1, <1>2, <1>3, <1>4, <1>5 DEF Follow
<1>. QED BY <1>6 DEF c

\* The commit of a check: nothing of it is recent, and nobody else has it.
LEMMA CommittedAlerts ==
  ASSUME JobRunsInv, AlertsInv, NEW t \in Threads, Commit(t)
  PROVE  AlertsInv'
<1>. DEFINE h == call[t]  r == call'[t]  a == db.logs  b == call[t].w.logs  c == db'.logs
<1>1. /\ h.pc = "commit" /\ db' = Applied(t)
      /\ call' = [call EXCEPT ![t].pc = "finish", ![t].w = NoWrites]
  BY DEF Commit
<1>2. /\ Handled(h) /\ DOMAIN h = CallFields /\ Shape /\ DOMAIN call = Threads
  BY <1>1, AtWork
<1>3. /\ r = [h EXCEPT !.pc = "finish", !.w = NoWrites] /\ Others(t)
  BY <1>1, <1>2 DEF Others, CallFields
<1>4. r.pc = "finish" /\ r.w = NoWrites
  BY <1>2, <1>3 DEF CallFields
<1>5. /\ AlertsInHand(h) /\ Exclusive /\ ChecksAreLogged /\ AlertsRepeatOnlyPastTheList
  BY DEF AlertsInv
<1>6. /\ db'.checks \subseteq db.checks \cup h.w.checks /\ db'.logs = a \o b
  BY <1>2 DEF Applied, Shape, DbFields, Commit
<1>7. a \in Seq(Logs) /\ b \in Seq(Logs)
  BY <1>2 DEF Shape, Handled, Written
<1>8. Follow(a, b, c)
  BY <1>6, <1>7, JoinedFollow
<1>9. Alerts(a) \subseteq Alerts(c) /\ Alerts(b) \subseteq Alerts(c)
  <2>1. c = a \o b
    BY <1>6
  <2>. HIDE DEF a, b, c
  <2>2. DOMAIN a \subseteq DOMAIN c /\ \A i \in DOMAIN a : c[i] = a[i]
    BY <1>7, <2>1, JoinedSpread
  <2>3. AmongItems(b, c)
    BY <1>7, <2>1, JoinedSpread
  <2>4. Alerts(b) \subseteq Alerts(c)
    BY <2>3 DEF Alerts, AmongItems
  <2>. QED BY <2>2, <2>4 DEF Alerts
<1>10. Len(a) \in Nat /\ Len(c) \in Nat /\ ListLimit \in Nat
  <2>1. c = a \o b
    BY <1>6
  <2>. HIDE DEF a, b, c
  <2>2. c \in Seq(Logs)
    BY <1>7, <2>1, JoinedSpread
  <2>3. Len(a) \in Nat /\ Len(c) \in Nat
    BY <1>7, <2>2
  <2>. QED BY <2>3, DailyJobsAssumption
<1>11. OnItsWay(h) = Alerts(b)
  BY <1>1 DEF OnItsWay
<1>12. /\ Recent = {a[i].target : i \in {n \in DOMAIN a : n <= ListLimit}}
       /\ Recent' = {c[i].target : i \in {n \in DOMAIN c : n <= ListLimit}}
       /\ (Full => ListLimit <= Len(a)) /\ (ListLimit <= Len(a) => Full)
       /\ (ListLimit <= Len(c) => Full')
  BY DEF Recent, Full
<1>. HIDE DEF a, b, c
<1>13. Full => Full' /\ Recent' \subseteq Recent
  BY <1>8, <1>10, <1>12 DEF Follow
<1>14. \A tg \in Recent' : tg \in Recent \/ \E i \in DOMAIN b : b[i].target = tg
  BY <1>8, <1>12 DEF Follow
<1>15. ASSUME NEW u \in Threads PROVE AlertsInHand(call[u])'
  <2>1. CASE u = t
    <3>1. /\ r.pc = "finish" /\ Alerts(r.w.logs) = {}
      BY <1>4, EmptyHands, NoRowsNoAlerts
    <3>2. (\A tg : tg \notin OnItsWay(r)) /\ EachOnce(r.w.logs)
      BY <3>1 DEF OnItsWay, EachOnce, Alerts
    <3>. QED BY <2>1, <3>1, <3>2 DEF AlertsInHand
  <2>2. CASE u # t
    <3>1. call'[u] = call[u] /\ AlertsInHand(call[u])
      BY <1>3, <2>2 DEF Others, AlertsInv
    <3>2. ASSUME NEW tg \in OnItsWay(call[u])
          PROVE  tg \notin Recent' /\ (Full' \/ \E d \in call[u].w.checks : tg = Targeted(d))
      <4>1. tg \notin Recent /\ (Full \/ \E d \in call[u].w.checks : tg = Targeted(d))
        BY <3>1, <3>2 DEF AlertsInHand, OffTheList
      <4>2. CASE Full
        BY <1>13, <4>1, <4>2
      <4>3. CASE ~Full
        <5>1. PICK d \in call[u].w.checks : tg = Targeted(d)
          BY <4>1, <4>3
        <5>2. ASSUME tg \in Recent' PROVE FALSE
          <6>1. PICK i \in DOMAIN b : b[i].target = tg
            BY <1>14, <4>1, <5>2
          <6>2. IsAlert(tg)
            BY <3>1, <3>2 DEF AlertsInHand, OnItsWay, Alerts
          <6>3. tg \in OnItsWay(h)
            BY <1>11, <6>1, <6>2 DEF Alerts
          <6>4. PICK e \in h.w.checks : tg = Targeted(e)
            BY <1>5, <4>3, <6>3 DEF AlertsInHand, OffTheList
          <6>5. Key(d) = Key(e)
            BY <5>1, <6>4 DEF Targeted, Target, Key
          <6>. QED BY <1>5, <2>2, <6>5 DEF Exclusive
        <5>. QED BY <5>1, <5>2
      <4>. QED BY <4>2, <4>3
    <3>3. \A tg \in OnItsWay(call[u]) : OffTheList(call[u], tg)'
      BY <3>1, <3>2 DEF OffTheList, Targeted, Target
    <3>4. Alerts(db.logs) \subseteq Alerts(db'.logs)
      BY <1>9 DEF a, c
    <3>. QED BY <3>1, <3>3, <3>4 DEF AlertsInHand, OnItsWay, Targeted, Target
  <2>. QED BY <2>1, <2>2
<1>16. Exclusive'
  <2>1. SUFFICES ASSUME NEW v \in Threads, NEW u \in Threads, v # u,
                        NEW x \in call'[v].w.checks, NEW y \in call'[u].w.checks
                 PROVE  Key(x) # Key(y)
    BY DEF Exclusive, Key
  <2>2. r.w.checks = {}
    BY <1>4, EmptyHands
  <2>3. v # t /\ u # t
    BY <2>1, <2>2
  <2>4. call'[v] = call[v] /\ call'[u] = call[u]
    BY <1>3, <2>3 DEF Others
  <2>. QED BY <1>5, <2>1, <2>4 DEF Exclusive
<1>17. ChecksAreLogged'
  <2>1. SUFFICES ASSUME NEW d \in db'.checks, d.level # "NONE" PROVE Targeted(d) \in Alerts(c)
    BY DEF ChecksAreLogged, Targeted, Target, c
  <2>2. CASE d \in db.checks
    BY <1>5, <1>9, <2>1, <2>2 DEF ChecksAreLogged, a
  <2>3. CASE d \in h.w.checks
    <3>1. Targeted(d) \in Alerts(a) \cup Alerts(b)
      BY <1>1, <1>5, <1>11, <2>1, <2>3 DEF AlertsInHand, a
    <3>. QED BY <1>9, <3>1
  <2>. QED BY <1>6, <2>1, <2>2, <2>3
<1>18. AlertsRepeatOnlyPastTheList'
  <2>1. SUFFICES ASSUME NEW i \in DOMAIN c, NEW j \in DOMAIN c, i < j, IsAlert(c[i].target),
                        c[i].target = c[j].target
                 PROVE  i > ListLimit
    BY DEF AlertsRepeatOnlyPastTheList, c
  <2>2. /\ i \in Nat /\ j \in Nat
        /\ \/ i \in DOMAIN a /\ i <= Len(a) /\ c[i] = a[i]
           \/ i > Len(a) /\ i - Len(a) \in DOMAIN b /\ c[i] = b[i - Len(a)]
        /\ \/ j \in DOMAIN a /\ j <= Len(a) /\ c[j] = a[j]
           \/ j > Len(a) /\ j - Len(a) \in DOMAIN b /\ c[j] = b[j - Len(a)]
    BY <1>8, <2>1 DEF Follow
  <2>3. CASE i \in DOMAIN a /\ c[i] = a[i] /\ j \in DOMAIN a /\ c[j] = a[j]
    BY <1>5, <2>1, <2>3 DEF AlertsRepeatOnlyPastTheList, a
  <2>4. CASE i \in DOMAIN a /\ c[i] = a[i] /\ j - Len(a) \in DOMAIN b /\ c[j] = b[j - Len(a)]
    <3>1. a[i].target \in OnItsWay(h)
      BY <1>11, <2>1, <2>4 DEF Alerts
    <3>2. a[i].target \notin Recent
      BY <1>5, <3>1 DEF AlertsInHand, OffTheList
    <3>3. ~(i <= ListLimit)
      BY <1>12, <2>4, <3>2
    <3>. QED BY <1>10, <2>2, <3>3
  <2>5. CASE i > Len(a) /\ i - Len(a) \in DOMAIN b /\ c[i] = b[i - Len(a)]
    <3>1. j > Len(a) /\ j - Len(a) \in DOMAIN b /\ c[j] = b[j - Len(a)]
      BY <1>10, <2>1, <2>2, <2>5
    <3>2. i - Len(a) < j - Len(a)
      BY <1>10, <2>1, <2>2
    <3>. QED BY <1>5, <2>1, <2>5, <3>1, <3>2 DEF AlertsInHand, EachOnce, b
  <2>. QED BY <2>2, <2>3, <2>4, <2>5
<1>. QED BY <1>15, <1>16, <1>17, <1>18 DEF AlertsInv

----
LEMMA DroppedAlerts ==
  ASSUME AlertsInv, UNCHANGED db, \A u \in Threads : call'[u] \in {call[u], AtRest}
  PROVE  AlertsInv'
<1>1. ASSUME NEW u \in Threads PROVE AlertsInHand(call[u])'
  <2>1. CASE call'[u] = AtRest
    <3>1. /\ call'[u].pc = "idle" /\ Alerts(call'[u].w.logs) = {}
      BY <2>1, EmptyHands, NoRowsNoAlerts
    <3>2. (\A tg : tg \notin OnItsWay(call'[u])) /\ EachOnce(call'[u].w.logs)
      BY <3>1 DEF OnItsWay, EachOnce, Alerts
    <3>. QED BY <3>1, <3>2 DEF AlertsInHand
  <2>2. CASE call'[u] = call[u]
    BY <2>2 DEF AlertsInv, AlertsInHand, OnItsWay, OffTheList, Recent, Full
  <2>. QED BY <2>1, <2>2
<1>2. Exclusive'
  <2>1. SUFFICES ASSUME NEW v \in Threads, NEW u \in Threads, v # u,
                        NEW x \in call'[v].w.checks, NEW y \in call'[u].w.checks
                 PROVE  Key(x) # Key(y)
    BY DEF Exclusive, Key
  <2>2. call'[v] = call[v] /\ call'[u] = call[u]
    BY <2>1, EmptyHands
  <2>. QED BY <2>1, <2>2 DEF AlertsInv, Exclusive
<1>3. ChecksAreLogged' /\ AlertsRepeatOnlyPastTheList'
  BY DEF AlertsInv, ChecksAreLogged, AlertsRepeatOnlyPastTheList, Targeted, Target
<1>. QED BY <1>1, <1>2, <1>3 DEF AlertsInv

LEMMA BegunAlerts ==
  ASSUME Shape, AlertsInv, UNCHANGED db, NEW t \in Threads, NEW job, Begin(t, job)
  PROVE  AlertsInv'
<1>1. /\ call'[t] = [AtRest EXCEPT !.pc = "work", !.job = job, !.day = today,
                                   !.run = Len(jobRuns) + 1]
      /\ Others(t)
  BY DEF Shape, Begin, Others
<1>2. call'[t].pc = "work" /\ call'[t].w = NoWrites
  BY <1>1, EmptyHands DEF CallFields
<1>3. QuietStep(t)
  BY <1>2, EmptyHands, NoRowsNoAlerts DEF QuietStep
<1>. QED BY <1>1, <1>3, AlertsQuietly

LEMMA WorkAlerts ==
  ASSUME AlertsInv, NEW t \in Threads, WorkStep(t), QuietStep(t) \/ CheckedAlone(t)
  PROVE  AlertsInv'
<1>1. Others(t) /\ UNCHANGED db
  BY DEF WorkStep, Unwritten
<1>. QED BY <1>1, AlertsQuietly, CheckedAlerts

LEMMA AlertsInvNext == JobRunsInv /\ AlertsInv /\ [JobsNext]_jobsVars => AlertsInv'
<1>. SUFFICES ASSUME JobRunsInv, AlertsInv, [JobsNext]_jobsVars PROVE AlertsInv'
  OBVIOUS
<1>1. /\ Shape /\ DOMAIN call = Threads /\ Pool \subseteq Threads
  BY DEF JobRunsInv, Shape, Threads
<1>2. CASE Fire
  <2>1. PICK t \in Pool : Begin(t, Timetable[slot])
    BY <1>2 DEF Fire
  <2>2. UNCHANGED db
    BY <1>2 DEF Fire
  <2>. QED BY <1>1, <2>1, <2>2, BegunAlerts
<1>3. CASE \E t \in Threads : \E job \in Jobs : RunByHand(t, job)
  <2>1. PICK t \in Threads : \E job \in Jobs : RunByHand(t, job)
    BY <1>3
  <2>2. PICK job \in Jobs : RunByHand(t, job)
    BY <2>1
  <2>3. Begin(t, job) /\ UNCHANGED db
    BY <2>2 DEF RunByHand
  <2>. QED BY <1>1, <2>3, BegunAlerts
<1>4. ASSUME NEW t \in Threads, Step(t) PROVE AlertsInv'
  <2>1. CASE Collect(t)
    BY <2>1, CollectSteps, WorkAlerts
  <2>2. CASE CalculateIndicators(t)
    BY <2>2, CalculateIndicatorsSteps, WorkAlerts
  <2>3. CASE UpdateDerived(t)
    BY <2>3, UpdateDerivedSteps, WorkAlerts
  <2>4. CASE SendRecommendations(t)
    BY <2>4, SendRecommendationsSteps, WorkAlerts
  <2>5. CASE RunHoldingCheck(t)
    BY <2>5, RunHoldingCheckSteps, WorkAlerts
  <2>6. CASE CheckUnlocked(t)
    BY <2>6, CheckUnlockedSteps, WorkAlerts
  <2>7. CASE SendHoldingReport(t)
    BY <2>7, ReportAlerts
  <2>8. CASE PlanAlerts(t)
    BY <2>8, PlannedAlerts
  <2>9. CASE SendAlert(t)
    BY <2>9, SentAlerts
  <2>10. CASE AlertsDone(t)
    BY <2>10, DoneAlerts
  <2>11. CASE Raise(t)
    BY <2>11, RaiseSteps, WorkAlerts
  <2>12. CASE Commit(t)
    BY <2>12, CommittedAlerts
  <2>13. CASE WriteFails(t)
    BY <1>1, <2>13, DroppedAlerts DEF WriteFails
  <2>14. CASE Finish(t)
    BY <1>1, <2>14, DroppedAlerts DEF Finish
  <2>. QED BY <1>4, <2>1, <2>2, <2>3, <2>4, <2>5, <2>6, <2>7, <2>8, <2>9, <2>10, <2>11,
              <2>12, <2>13, <2>14 DEF Step
<1>5. CASE Missed \/ NextMorning \/ Start
  BY <1>5, DroppedAlerts DEF Missed, NextMorning, Start
<1>6. CASE Crash(Pool) \/ Crash(Shell)
  BY <1>6, DroppedAlerts DEF Crash
<1>7. CASE UNCHANGED jobsVars
  BY <1>7, DroppedAlerts DEF jobsVars
<1>. QED BY <1>2, <1>3, <1>4, <1>5, <1>6, <1>7 DEF JobsNext

(***************************************************************************)
(* An alert is sent again only when it has left the rows that the          *)
(* dispatcher lists, also when the scheduler and an operator check the     *)
(* same holdings at once: the rows of a check are locked until its alerts  *)
(* are committed, and whoever comes next finds them in the log.            *)
(***************************************************************************)
THEOREM AlertsRepeatLate == JobsSpec => []AlertsRepeatOnlyPastTheList
<1>1. AlertsInv => AlertsRepeatOnlyPastTheList
  BY DEF AlertsInv
<1>. QED BY <1>1, AlertsInvInit, AlertsInvNext, RunsInvAlways, PTL DEF JobsSpec

----
(***************************************************************************)
(* Losses.  A message is on record, or it is charged to a run: one that    *)
(* failed, one that nobody works on, or one whose thread has the message's *)
(* row in hand.  A run sends a message once, so that it is charged once;   *)
(* it stops being charged when the row is committed, and a run that ends   *)
(* well has no row in hand that is not.                                    *)
(***************************************************************************)
LoggedFor(tg) == {i \in DOMAIN db.logs : db.logs[i].target = tg}
InHand(h, tg) == h.result = "FAILED" \/ \E i \in DOMAIN h.w.logs : h.w.logs[i].target = tg
Charged(tg) ==
  {r \in DOMAIN jobRuns : /\ jobRuns[r].status \in {"FAILED", "RUNNING"}
                          /\ \A t \in Threads : call[t].pc # "idle" /\ call[t].run = r =>
                                                  InHand(call[t], tg)}
Orphans == {r \in DOMAIN jobRuns : jobRuns[r].status = "RUNNING" /\ \A t \in Threads : call[t].run # r}

Balanced(tg) == Arrivals(tg) <= Cardinality(LoggedFor(tg)) + Cardinality(Charged(tg))

OrphansExplained ==
  /\ crashes \in Nat /\ writeErrors \in Nat
  /\ Cardinality(Orphans) <= crashes * Cardinality(Threads) + writeErrors

LossInv ==
  /\ \A tg \in DOMAIN delivered : Balanced(tg)
  /\ OrphansExplained
  /\ \A t \in Threads : /\ call[t].pc = "idle" => call[t].run = 0
                        /\ call[t].pc = "report" => call[t].w.logs = <<>>

LEMMA SomeRows ==
  ASSUME NEW X, NEW q \in Seq(X), NEW S, S \subseteq DOMAIN q
  PROVE  IsFiniteSet(S) /\ Cardinality(S) \in Nat
<1>1. Len(q) \in Nat /\ DOMAIN q = 1 .. Len(q)
  OBVIOUS
<1>2. IsFiniteSet(DOMAIN q)
  BY <1>1, FS_Interval
<1>3. IsFiniteSet(S)
  BY <1>2, FS_Subset
<1>. QED BY <1>3, FS_CardinalityType

LEMMA FiniteRows ==
  ASSUME Shape, NEW tg
  PROVE  /\ IsFiniteSet(LoggedFor(tg)) /\ IsFiniteSet(Charged(tg)) /\ IsFiniteSet(Orphans)
         /\ Cardinality(LoggedFor(tg)) \in Nat /\ Cardinality(Charged(tg)) \in Nat
         /\ Cardinality(Orphans) \in Nat /\ Arrivals(tg) \in Nat
<1>1. jobRuns \in Seq(Runs) /\ db.logs \in Seq(Logs)
  BY DEF Shape
<1>2. /\ LoggedFor(tg) \subseteq DOMAIN db.logs /\ Charged(tg) \subseteq DOMAIN jobRuns
      /\ Orphans \subseteq DOMAIN jobRuns
  BY DEF LoggedFor, Charged, Orphans
<1>3. Arrivals(tg) \in Nat
  BY DEF Shape, Arrivals
<1>. QED BY <1>1, <1>2, <1>3, SomeRows

\* What is in the log or charged stays so.
LEMMA BalancedGrows ==
  ASSUME Shape, Shape', NEW tg, Balanced(tg), Arrivals(tg)' = Arrivals(tg),
         LoggedFor(tg) \subseteq LoggedFor(tg)', Charged(tg) \subseteq Charged(tg)'
  PROVE  Balanced(tg)'
<1>. DEFINE L == LoggedFor(tg)
            K == LoggedFor(tg)'
            C == Charged(tg)
            D == Charged(tg)'
<1>1. IsFiniteSet(K) /\ IsFiniteSet(D) /\ Cardinality(K) \in Nat /\ Cardinality(D) \in Nat
  <2>1. jobRuns' \in Seq(Runs) /\ db.logs' \in Seq(Logs)
    BY DEF Shape
  <2>2. K \subseteq DOMAIN db.logs' /\ D \subseteq DOMAIN jobRuns'
    BY DEF LoggedFor, Charged
  <2>. QED BY <2>1, <2>2, SomeRows
<1>2. Cardinality(L) \in Nat /\ Cardinality(C) \in Nat /\ Arrivals(tg) \in Nat
  BY FiniteRows
<1>3. L \subseteq K /\ C \subseteq D
  OBVIOUS
<1>4. Balanced(tg)' <=> Arrivals(tg)' <= Cardinality(K) + Cardinality(D)
  BY DEF Balanced
<1>5. Arrivals(tg) <= Cardinality(L) + Cardinality(C)
  BY DEF Balanced
<1>. HIDE DEF L, K, C, D
<1>6. Cardinality(L) <= Cardinality(K) /\ Cardinality(C) <= Cardinality(D)
  BY <1>1, <1>3, FS_Subset
<1>. QED BY <1>1, <1>2, <1>4, <1>5, <1>6

\* Nothing is sent: what is in hand stays in hand, or the run fails.
LEMMA WorkCharges ==
  ASSUME JobRunsInv, LossInv, NEW t \in Threads, WorkStep(t), UNCHANGED delivered,
         \A tg : InHand(call[t], tg) => InHand(call'[t], tg),
         call'[t].pc = "report" => call'[t].w.logs = <<>>
  PROVE  LossInv'
<1>1. /\ UNCHANGED <<jobRuns, db, crashes, writeErrors>> /\ Others(t)
      /\ call[t].pc # "idle" /\ call'[t].pc # "idle" /\ call'[t].run = call[t].run
  BY DEF WorkStep, Unwritten, InWork, Working
<1>2. Shape /\ Shape'
  BY WorkKeeps DEF JobRunsInv
<1>3. ASSUME NEW tg \in DOMAIN delivered'
      PROVE  Balanced(tg)'
  <2>1. Balanced(tg) /\ Arrivals(tg)' = Arrivals(tg)
    BY DEF LossInv, Arrivals
  <2>2. LoggedFor(tg)' = LoggedFor(tg)
    BY <1>1 DEF LoggedFor
  <2>3. Charged(tg) \subseteq Charged(tg)'
    BY <1>1 DEF Charged, Others
  <2>. QED BY <1>2, <2>1, <2>2, <2>3, BalancedGrows
<1>4. Orphans' = Orphans
  <2>1. \A u \in Threads : call'[u].run = call[u].run
    BY <1>1 DEF Others
  <2>. QED BY <1>1, <2>1 DEF Orphans
<1>5. OrphansExplained'
  BY <1>1, <1>4 DEF LossInv, OrphansExplained
<1>6. \A u \in Threads : /\ call'[u].pc = "idle" => call'[u].run = 0
                         /\ call'[u].pc = "report" => call'[u].w.logs = <<>>
  BY <1>1 DEF LossInv, Others
<1>. QED BY <1>3, <1>5, <1>6 DEF LossInv

\* Before its report a run has sent nothing; a failed one has nothing in hand.
LEMMA NothingInHand ==
  ASSUME JobRunsInv, LossInv, NEW t \in Threads, call[t].pc \in {"work", "locked", "report"}, NEW tg
  PROVE  ~InHand(call[t], tg)
<1>1. Handled(call[t])
  BY DEF JobRunsInv, Shape
<1>2. call[t].w.logs = <<>> /\ call[t].result = "-"
  BY <1>1, EmptyHands DEF Handled, LossInv
<1>. QED BY <1>2 DEF InHand

\* A message that the run has not sent: it is charged to the run, or it goes
\* nowhere.
Reached(x) ==
  delivered' \in {delivered, [y \in DOMAIN delivered \cup {x} |-> Arrivals(y) + IF y = x THEN 1 ELSE 0]}

LEMMA SendCharges ==
  ASSUME JobRunsInv, LossInv, NEW t \in Threads, WorkStep(t), NEW x, ~InHand(call[t], x), Reached(x),
         NEW log \in Logs, log.target = x, call'[t].w.logs = Append(call[t].w.logs, log),
         call'[t].pc # "report"
  PROVE  LossInv'
<1>. DEFINE q == call[t].w.logs
            run == call[t].run
<1>1. /\ UNCHANGED <<jobRuns, db, crashes, writeErrors>> /\ Others(t)
      /\ call[t].pc # "idle" /\ call'[t].pc # "idle" /\ call'[t].run = call[t].run
  BY DEF WorkStep, Unwritten, InWork, Working
<1>2. Shape /\ Shape'
  BY WorkKeeps DEF JobRunsInv
<1>3. q \in Seq(Logs)
  BY <1>2 DEF Shape, Handled, Written
<1>4. \A tg : InHand(call'[t], tg) \/ (tg # x /\ ~InHand(call[t], tg))
  <2>1. call[t].result # "FAILED"
    BY DEF InHand
  <2>2. /\ DOMAIN Append(q, log) = DOMAIN q \cup {Len(q) + 1}
        /\ Append(q, log)[Len(q) + 1] = log
        /\ \A i \in DOMAIN q : Append(q, log)[i] = q[i]
    BY <1>3, OneMore
  <2>. HIDE DEF q
  <2>. QED BY <2>1, <2>2 DEF InHand, q
<1>5. run \in DOMAIN jobRuns /\ jobRuns[run].status = "RUNNING"
  BY <1>1 DEF JobRunsInv, Honest, Owns
<1>6. \A tg : Arrivals(tg) \in Nat
  BY <1>2, FiniteRows
<1>7. \A tg : Arrivals(tg)' = Arrivals(tg) \/ (tg = x /\ Arrivals(tg)' = Arrivals(tg) + 1)
  <2>1. CASE delivered' = delivered
    BY <2>1 DEF Arrivals
  <2>2. CASE delivered' = [y \in DOMAIN delivered \cup {x} |-> Arrivals(y) + IF y = x THEN 1 ELSE 0]
    <3>. SUFFICES ASSUME NEW tg
                  PROVE  Arrivals(tg)' = Arrivals(tg) \/ (tg = x /\ Arrivals(tg)' = Arrivals(tg) + 1)
      OBVIOUS
    <3>1. Arrivals(tg)' = IF tg \in DOMAIN delivered' THEN delivered'[tg] ELSE 0
      BY DEF Arrivals
    <3>2. CASE tg \in DOMAIN delivered \cup {x}
      <4>1. Arrivals(tg)' = Arrivals(tg) + IF tg = x THEN 1 ELSE 0
        BY <2>2, <3>1, <3>2
      <4>. QED BY <1>6, <4>1
    <3>3. CASE tg \notin DOMAIN delivered \cup {x}
      <4>1. Arrivals(tg) = 0
        BY <3>3 DEF Arrivals
      <4>. QED BY <2>2, <3>1, <3>3, <4>1
    <3>. QED BY <3>2, <3>3
  <2>. QED BY <2>1, <2>2 DEF Reached
<1>8. \A tg : LoggedFor(tg)' = LoggedFor(tg) /\ Charged(tg) \subseteq Charged(tg)'
  BY <1>1, <1>4 DEF LoggedFor, Charged, Others
<1>9. run \notin Charged(x) /\ run \in Charged(x)'
  <2>1. run \notin Charged(x)
    BY <1>1 DEF Charged
  <2>2. ASSUME NEW u \in Threads, call'[u].pc # "idle", call'[u].run = run
        PROVE  InHand(call'[u], x)
    <3>1. u = t
      BY <1>1, <2>2 DEF Others, JobRunsInv, Separate
    <3>. QED BY <1>4, <3>1
  <2>3. run \in Charged(x)'
    BY <1>1, <1>5, <2>2 DEF Charged
  <2>. QED BY <2>1, <2>3
<1>10. ASSUME NEW tg
       PROVE  Balanced(tg)
  <2>1. CASE tg \in DOMAIN delivered
    BY <2>1 DEF LossInv
  <2>2. CASE tg \notin DOMAIN delivered
    <3>1. Arrivals(tg) = 0
      BY <2>2 DEF Arrivals
    <3>2. Cardinality(LoggedFor(tg)) \in Nat /\ Cardinality(Charged(tg)) \in Nat
      BY <1>2, FiniteRows
    <3>. QED BY <3>1, <3>2 DEF Balanced
  <2>. QED BY <2>1, <2>2
<1>11. ASSUME NEW tg \in DOMAIN delivered'
       PROVE  Balanced(tg)'
  <2>1. CASE Arrivals(tg)' = Arrivals(tg)
    BY <1>2, <1>8, <1>10, <2>1, BalancedGrows
  <2>2. CASE tg = x /\ Arrivals(tg)' = Arrivals(tg) + 1
    <3>. DEFINE L == Cardinality(LoggedFor(tg))
                C == Charged(tg)
                D == Charged(tg)'
                m == Arrivals(tg)
    <3>1. /\ L \in Nat /\ IsFiniteSet(C) /\ Cardinality(C) \in Nat /\ m \in Nat
          /\ m <= L + Cardinality(C)
      BY <1>2, <1>10, FiniteRows DEF Balanced
    <3>2. IsFiniteSet(D)
      <4>1. D \subseteq DOMAIN jobRuns' /\ jobRuns' \in Seq(Runs)
        BY <1>2 DEF Charged, Shape
      <4>. QED BY <4>1, SomeRows
    <3>3. Balanced(tg)' <=> Arrivals(tg)' <= L + Cardinality(D)
      BY <1>8 DEF Balanced
    <3>4. run \notin C /\ run \in D /\ C \subseteq D
      BY <1>8, <1>9, <2>2
    <3>. HIDE DEF L, C, D, m, run
    <3>5. Cardinality(C \cup {run}) = Cardinality(C) + 1 /\ IsFiniteSet(C \cup {run})
      BY <3>1, <3>4, FS_AddElement
    <3>6. Cardinality(C \cup {run}) <= Cardinality(D) /\ Cardinality(D) \in Nat
      <4>1. C \cup {run} \subseteq D
        BY <3>4
      <4>. QED BY <3>2, <4>1, FS_Subset, FS_CardinalityType
    <3>7. Arrivals(tg)' = m + 1
      BY <2>2 DEF m
    <3>. QED BY <3>1, <3>3, <3>5, <3>6, <3>7
  <2>. QED BY <1>7, <2>1, <2>2
<1>12. Orphans' = Orphans
  <2>1. \A u \in Threads : call'[u].run = call[u].run
    BY <1>1 DEF Others
  <2>. QED BY <1>1, <2>1 DEF Orphans
<1>13. OrphansExplained'
  BY <1>1, <1>12 DEF LossInv, OrphansExplained
<1>14. \A u \in Threads : /\ call'[u].pc = "idle" => call'[u].run = 0
                          /\ call'[u].pc = "report" => call'[u].w.logs = <<>>
  BY <1>1 DEF LossInv, Others
<1>. QED BY <1>11, <1>13, <1>14 DEF LossInv

LEMMA QuietCharges ==
  ASSUME JobRunsInv, LossInv, NEW t \in Threads, call[t].pc \in {"work", "locked"},
         WorkStep(t), QuietStep(t) \/ CheckedAlone(t), UNCHANGED delivered
  PROVE  LossInv'
<1>1. \A tg : InHand(call[t], tg) => InHand(call'[t], tg)
  BY NothingInHand
<1>2. call'[t].pc = "report" => call'[t].w.logs = <<>>
  BY DEF QuietStep, CheckedAlone
<1>. QED BY <1>1, <1>2, WorkCharges

LEMMA RaiseCharges ==
  ASSUME JobRunsInv, LossInv, NEW t \in Threads, Raise(t)
  PROVE  LossInv'
<1>1. WorkStep(t) /\ QuietStep(t) /\ UNCHANGED delivered
  BY RaiseSteps DEF Raise, Silently
<1>2. call'[t].result = "FAILED" /\ call'[t].pc = "finish"
  <2>1. DOMAIN call = Threads
    BY DEF JobRunsInv, Shape
  <2>2. call'[t] = [AtRest EXCEPT !.pc = "finish", !.run = call[t].run,
                                  !.job = call[t].job, !.result = "FAILED"]
    BY <2>1 DEF Raise
  <2>. QED BY <2>2, EmptyHands DEF CallFields
<1>3. \A tg : InHand(call'[t], tg)
  BY <1>2 DEF InHand
<1>. QED BY <1>1, <1>2, <1>3, WorkCharges

LEMMA SentReaches ==
  ASSUME NEW t, NEW tg, NEW o, NEW then, Send(t, tg, o, then)
  PROVE  Reached(tg)
BY DEF Send, Reached

LEMMA RecommendationCharges ==
  ASSUME JobRunsInv, LossInv, NEW t \in Threads, SendRecommendations(t)
  PROVE  LossInv'
<1>. DEFINE h == call[t]  r == call'[t]
<1>1. /\ h.pc = "work" /\ h.pc \in InWork /\ WorkStep(t) /\ QuietStep(t)
  BY SendRecommendationsSteps DEF SendRecommendations, Work, InWork, Working
<1>2. CASE Silently
  BY <1>1, <1>2, QuietCharges DEF Silently
<1>3. ASSUME NEW o \in Outcomes,
             Send(t, Recommendation, o,
                  [call[t] EXCEPT !.pc = "commit", !.result = Reported(o, FALSE),
                                  !.w.sent = (o.status = "SUCCESS")])
      PROVE  LossInv'
  <2>. DEFINE then == [call[t] EXCEPT !.pc = "commit", !.result = Reported(o, FALSE),
                                      !.w.sent = (o.status = "SUCCESS")]
              log == LogOf(h, Recommendation, o)
  <2>1. /\ Handled(h) /\ DOMAIN h = CallFields /\ h.w = NoWrites /\ DOMAIN h.w = WriteFields
    BY <1>1, AtWork, EmptyHands DEF Handled, Written
  <2>2. Carries(then, h.w)
    BY <2>1 DEF Carries, CallFields, WriteFields
  <2>3. Recommendation \in Targets
    BY DEF Recommendation, Report, Target, Targets, Jobs
  <2>4. Send(t, Recommendation, o, then)
    BY <1>3
  <2>. HIDE DEF then
  <2>5. log \in Logs /\ r.w.logs = Append(h.w.logs, log)
    BY <1>1, <2>2, <2>3, <2>4, SendInHand
  <2>6. log.target = Recommendation
    BY DEF LogOf
  <2>7. ~InHand(h, Recommendation) /\ Reached(Recommendation) /\ r.pc # "report"
    BY <1>1, <2>4, NothingInHand, SentReaches DEF QuietStep
  <2>. HIDE DEF log
  <2>. QED BY <1>1, <2>5, <2>6, <2>7, SendCharges
<1>. QED BY <1>2, <1>3 DEF SendRecommendations, Recommendation

LEMMA ReportCharges ==
  ASSUME JobRunsInv, LossInv, NEW t \in Threads, SendHoldingReport(t)
  PROVE  LossInv'
<1>. DEFINE h == call[t]  r == call'[t]  tg == Report(call[t].job, call[t].day)
            skips == {c.sym : c \in call[t].w.checks} # db.held
<1>1. /\ h.pc = "report" /\ h.pc \in InWork /\ WorkStep(t) /\ r.pc = "plan"
  BY SendHoldingReportSteps DEF InWork, Working
<1>2. /\ Handled(h) /\ DOMAIN h = CallFields /\ Written(h.w)
      /\ h.day \in Int /\ h.job \in Jobs
  BY <1>1, AtWork DEF Handled
<1>3. PICK o \in Outcomes :
        Send(t, tg, o, [call[t] EXCEPT !.pc = "plan", !.result = Reported(o, skips)])
  BY DEF SendHoldingReport
<1>. DEFINE then == [call[t] EXCEPT !.pc = "plan", !.result = Reported(o, skips)]
            log == LogOf(h, tg, o)
<1>4. tg \in Targets
  BY <1>2 DEF Report, Target, Targets
<1>5. DOMAIN then = CallFields /\ then.w = h.w
  BY <1>2 DEF CallFields
<1>6. Carries(then, h.w)
  BY <1>2, <1>5 DEF Carries, Written
<1>7. Send(t, tg, o, then)
  BY <1>3
<1>. HIDE DEF then, tg, skips
<1>8. log \in Logs /\ r.w.logs = Append(h.w.logs, log)
  BY <1>1, <1>4, <1>6, <1>7, SendInHand
<1>9. log.target = tg
  BY DEF LogOf
<1>10. ~InHand(h, tg) /\ Reached(tg)
  BY <1>1, <1>7, NothingInHand, SentReaches
<1>. HIDE DEF log
<1>. QED BY <1>1, <1>8, <1>9, <1>10, SendCharges

\* An alert that is on its way has no row in hand yet.
LEMMA AlertCharges ==
  ASSUME JobRunsInv, AlertsInv, LossInv, NEW t \in Threads, SendAlert(t)
  PROVE  LossInv'
<1>. DEFINE h == call[t]  r == call'[t]
<1>1. /\ h.pc = "alerts" /\ h.pc \in InWork /\ WorkStep(t) /\ r.pc = "alerts"
  BY SendAlertSteps DEF InWork, Working
<1>2. /\ Handled(h) /\ DOMAIN h = CallFields /\ Written(h.w) /\ h.result \in {"SUCCESS", "PARTIAL"}
      /\ h.todo \subseteq Targets
  BY <1>1, AtWork DEF Handled
<1>3. PICK tg \in h.todo : \E o \in Outcomes : Send(t, tg, o, [call[t] EXCEPT !.todo = @ \ {tg}])
  BY DEF SendAlert
<1>4. PICK o \in Outcomes : Send(t, tg, o, [call[t] EXCEPT !.todo = @ \ {tg}])
  BY <1>3
<1>. DEFINE then == [call[t] EXCEPT !.todo = @ \ {tg}]
            log == LogOf(h, tg, o)
<1>5. DOMAIN then = CallFields /\ then.w = h.w
  BY <1>2 DEF CallFields
<1>6. Carries(then, h.w)
  BY <1>2, <1>5 DEF Carries, Written
<1>7. Send(t, tg, o, then) /\ tg \in Targets
  BY <1>2, <1>4
<1>. HIDE DEF then
<1>8. log \in Logs /\ r.w.logs = Append(h.w.logs, log)
  BY <1>1, <1>6, <1>7, SendInHand
<1>9. log.target = tg
  BY DEF LogOf
<1>10. ~InHand(h, tg)
  <2>1. IsAlert(tg) /\ tg \notin Alerts(h.w.logs)
    BY <1>1 DEF AlertsInv, AlertsInHand
  <2>. QED BY <1>2, <2>1 DEF InHand, Alerts
<1>11. Reached(tg)
  BY <1>7, SentReaches
<1>. HIDE DEF log
<1>. QED BY <1>1, <1>8, <1>9, <1>10, <1>11, SendCharges

----
\* Nothing has arrived and nobody has run at the start.
LEMMA LossInvInit == JobsInit => LossInv
<1>. SUFFICES ASSUME JobsInit PROVE LossInv
  OBVIOUS
<1>1. /\ jobRuns = <<>> /\ call = [t \in Threads |-> AtRest] /\ delivered = <<>>
      /\ crashes = 0 /\ writeErrors = 0
  BY DEF JobsInit
<1>2. Orphans = {} /\ DOMAIN delivered = {}
  BY <1>1 DEF Orphans
<1>3. Cardinality(Threads) \in Nat
  <2>1. IsFiniteSet(Threads)
    BY DailyJobsAssumption, FS_Union DEF Threads
  <2>. QED BY <2>1, FS_CardinalityType
<1>4. OrphansExplained
  BY <1>1, <1>2, <1>3, FS_EmptySet DEF OrphansExplained
<1>5. AtRest.run = 0 /\ AtRest.pc = "idle"
  BY DEF AtRest
<1>. QED BY <1>1, <1>2, <1>4, <1>5 DEF LossInv

\* Runs lose their threads one fault at a time.
LEMMA OrphansStay ==
  ASSUME Shape, Shape', OrphansExplained, Orphans' \subseteq Orphans,
         UNCHANGED <<crashes, writeErrors>>
  PROVE  OrphansExplained'
<1>. DEFINE A == Orphans
            B == Orphans'
<1>1. IsFiniteSet(A) /\ B \subseteq A
  BY FiniteRows
<1>2. OrphansExplained' <=> /\ crashes \in Nat /\ writeErrors \in Nat
                            /\ Cardinality(B) <= crashes * Cardinality(Threads) + writeErrors
  BY DEF OrphansExplained
<1>3. /\ crashes \in Nat /\ writeErrors \in Nat
      /\ Cardinality(A) <= crashes * Cardinality(Threads) + writeErrors
  BY DEF OrphansExplained
<1>. HIDE DEF A, B
<1>4. Cardinality(B) <= Cardinality(A) /\ Cardinality(B) \in Nat /\ Cardinality(A) \in Nat
  BY <1>1, FS_Subset, FS_CardinalityType
<1>5. Cardinality(Threads) \in Nat
  <2>1. IsFiniteSet(Threads)
    BY DailyJobsAssumption, FS_Union DEF Threads
  <2>. QED BY <2>1, FS_CardinalityType
<1>6. crashes * Cardinality(Threads) \in Nat
  BY <1>3, <1>5
<1>. HIDE DEF OrphansExplained
<1>. QED BY <1>2, <1>3, <1>4, <1>6

\* A new run has its thread, and it has sent nothing yet.
LEMMA BegunLosses ==
  ASSUME Shape, Shape', LossInv, NEW t \in Threads, NEW job, Begin(t, job),
         \A u \in Threads : call[u].pc # "idle" => call[u].run \in DOMAIN jobRuns,
         UNCHANGED <<db, delivered, crashes, writeErrors>>
  PROVE  LossInv'
<1>. DEFINE new == Len(jobRuns) + 1
            row == [job |-> job, day |-> today, status |-> "RUNNING"]
<1>1. jobRuns \in Seq(Runs) /\ jobRuns' \in Seq(Runs) /\ jobRuns' = Append(jobRuns, row)
  BY DEF Shape, Begin
<1>2. /\ DOMAIN jobRuns' = DOMAIN jobRuns \cup {new} /\ new \notin DOMAIN jobRuns
      /\ \A i \in DOMAIN jobRuns : jobRuns'[i] = jobRuns[i]
  <2>. HIDE DEF row
  <2>. QED BY <1>1
<1>3. /\ call'[t] = [AtRest EXCEPT !.pc = "work", !.job = job, !.day = today, !.run = new]
      /\ Others(t) /\ call[t].pc = "idle"
  BY DEF Shape, Begin, Others
<1>4. call'[t].run = new /\ call'[t].pc = "work"
  BY <1>3, EmptyHands DEF CallFields
<1>. HIDE DEF new, row
<1>5. ASSUME NEW tg \in DOMAIN delivered'
      PROVE  Balanced(tg)'
  <2>1. Balanced(tg) /\ Arrivals(tg)' = Arrivals(tg)
    BY DEF LossInv, Arrivals
  <2>2. LoggedFor(tg)' = LoggedFor(tg)
    BY DEF LoggedFor
  <2>3. Charged(tg) \subseteq Charged(tg)'
    <3>1. SUFFICES ASSUME NEW r \in Charged(tg), NEW u \in Threads, call'[u].pc # "idle", call'[u].run = r
                   PROVE  InHand(call'[u], tg)
      BY <1>2 DEF Charged
    <3>2. u # t
      BY <1>2, <1>4, <3>1 DEF Charged
    <3>. QED BY <1>3, <3>1, <3>2 DEF Charged, Others
  <2>. QED BY <2>1, <2>2, <2>3, BalancedGrows
<1>6. Orphans' \subseteq Orphans
  <2>1. SUFFICES ASSUME NEW r \in Orphans' PROVE r \in Orphans
    OBVIOUS
  <2>2. r \in DOMAIN jobRuns' /\ jobRuns'[r].status = "RUNNING" /\ \A u \in Threads : call'[u].run # r
    BY <2>1 DEF Orphans
  <2>3. r \in DOMAIN jobRuns /\ jobRuns[r].status = "RUNNING"
    BY <1>2, <1>4, <2>2
  <2>4. call[t].run = 0 /\ 0 \notin DOMAIN jobRuns
    BY <1>1, <1>3 DEF LossInv
  <2>5. \A u \in Threads : call[u].run # r
    BY <1>3, <2>2, <2>3, <2>4 DEF Others
  <2>. QED BY <2>3, <2>5 DEF Orphans
<1>7. OrphansExplained'
  BY <1>6, OrphansStay DEF LossInv
<1>8. \A u \in Threads : /\ call'[u].pc = "idle" => call'[u].run = 0
                         /\ call'[u].pc = "report" => call'[u].w.logs = <<>>
  BY <1>3, <1>4 DEF LossInv, Others
<1>. QED BY <1>5, <1>7, <1>8 DEF LossInv

\* A thread that lets go of its run leaves it charged.
LEMMA DroppedBalances ==
  ASSUME JobRunsInv, LossInv, Dropped
  PROVE  /\ \A tg \in DOMAIN delivered' : Balanced(tg)'
         /\ \A u \in Threads : /\ call'[u].pc = "idle" => call'[u].run = 0
                               /\ call'[u].pc = "report" => call'[u].w.logs = <<>>
<1>1. AtRest.pc = "idle" /\ AtRest.run = 0
  BY DEF AtRest
<1>2. Shape /\ Shape'
  BY DroppedKeeps DEF JobRunsInv
<1>3. ASSUME NEW tg \in DOMAIN delivered'
      PROVE  Balanced(tg)'
  <2>1. Balanced(tg) /\ Arrivals(tg)' = Arrivals(tg)
    BY DEF LossInv, Arrivals, Dropped
  <2>2. LoggedFor(tg)' = LoggedFor(tg)
    BY DEF LoggedFor, Dropped
  <2>3. Charged(tg) \subseteq Charged(tg)'
    BY <1>1 DEF Charged, Dropped
  <2>. QED BY <1>2, <2>1, <2>2, <2>3, BalancedGrows
<1>4. \A u \in Threads : /\ call'[u].pc = "idle" => call'[u].run = 0
                         /\ call'[u].pc = "report" => call'[u].w.logs = <<>>
  BY <1>1 DEF LossInv, Dropped
<1>. QED BY <1>3, <1>4

\* The calendar and the start of the server concern no run.
LEMMA IdlyLosses ==
  ASSUME JobRunsInv, LossInv, Dropped, UNCHANGED <<call, crashes, writeErrors>>
  PROVE  LossInv'
<1>1. Shape /\ Shape'
  BY DroppedKeeps DEF JobRunsInv
<1>2. Orphans' = Orphans
  BY DEF Orphans, Dropped
<1>3. OrphansExplained'
  BY <1>1, <1>2, OrphansStay DEF LossInv
<1>. QED BY <1>3, DroppedBalances DEF LossInv

\* A failed write leaves one run without its thread.
LEMMA WriteFailsLosses ==
  ASSUME JobRunsInv, LossInv, NEW t \in Threads, WriteFails(t)
  PROVE  LossInv'
<1>. DEFINE A == Orphans
            B == Orphans'
            run == call[t].run
<1>1. Dropped
  BY DEF JobRunsInv, Shape, Dropped, WriteFails
<1>2. Shape /\ Shape'
  BY <1>1, DroppedKeeps DEF JobRunsInv
<1>3. IsFiniteSet(A) /\ Cardinality(A) \in Nat
  BY <1>2, FiniteRows
<1>4. B \subseteq A \cup {run}
  BY <1>2 DEF Orphans, Shape, WriteFails
<1>5. /\ crashes \in Nat /\ writeErrors \in Nat
      /\ Cardinality(A) <= crashes * Cardinality(Threads) + writeErrors
  BY DEF LossInv, OrphansExplained
<1>6. crashes' = crashes /\ writeErrors' = writeErrors + 1
  BY DEF WriteFails
<1>7. OrphansExplained' <=> /\ crashes' \in Nat /\ writeErrors' \in Nat
                            /\ Cardinality(B) <= crashes' * Cardinality(Threads) + writeErrors'
  BY DEF OrphansExplained
<1>. HIDE DEF A, B, run
<1>8. Cardinality(B) <= Cardinality(A) + 1 /\ Cardinality(B) \in Nat
  <2>1. /\ IsFiniteSet(A \cup {run})
        /\ Cardinality(A \cup {run}) = IF run \in A THEN Cardinality(A) ELSE Cardinality(A) + 1
    BY <1>3, FS_AddElement
  <2>2. Cardinality(B) <= Cardinality(A \cup {run}) /\ IsFiniteSet(B)
    BY <1>4, <2>1, FS_Subset
  <2>3. Cardinality(B) \in Nat
    BY <2>2, FS_CardinalityType
  <2>. QED BY <1>3, <2>1, <2>2, <2>3
<1>9. Cardinality(Threads) \in Nat
  <2>1. IsFiniteSet(Threads)
    BY DailyJobsAssumption, FS_Union DEF Threads
  <2>. QED BY <2>1, FS_CardinalityType
<1>10. crashes * Cardinality(Threads) \in Nat
  BY <1>5, <1>9
<1>11. OrphansExplained'
  <2>1. Cardinality(B) <= crashes * Cardinality(Threads) + (writeErrors + 1)
    BY <1>3, <1>5, <1>8, <1>10
  <2>. QED BY <1>5, <1>6, <1>7, <2>1
<1>. QED BY <1>1, <1>11, DroppedBalances DEF LossInv

\* A crash leaves at most one run for each thread.
LEMMA RunsOfThreads ==
  /\ IsFiniteSet(Threads) /\ Cardinality(Threads) \in Nat
  /\ \A h : /\ IsFiniteSet({h[u] : u \in Threads})
            /\ Cardinality({h[u] : u \in Threads}) <= Cardinality(Threads)
<1>1. IsFiniteSet(Threads)
  BY DailyJobsAssumption, FS_Union DEF Threads
<1>2. ASSUME NEW h
      PROVE  /\ IsFiniteSet({h[u] : u \in Threads})
             /\ Cardinality({h[u] : u \in Threads}) <= Cardinality(Threads)
  <2>. DEFINE T == {h[u] : u \in Threads}
              k == [u \in Threads |-> h[u]]
  <2>1. k \in Surjection(Threads, T)
    BY DEF Surjection
  <2>. HIDE DEF T, k
  <2>2. IsFiniteSet(T) /\ Cardinality(T) <= Cardinality(Threads)
    BY <1>1, <2>1, FS_Surjection
  <2>. QED BY <2>2 DEF T
<1>3. Cardinality(Threads) \in Nat
  BY <1>1, FS_CardinalityType
<1>. QED BY <1>1, <1>2, <1>3

LEMMA CrashLosses ==
  ASSUME JobRunsInv, LossInv, NEW threads, Crash(threads)
  PROVE  LossInv'
<1>. DEFINE A == Orphans
            B == Orphans'
            h == [u \in Threads |-> call[u].run]
            R == {h[u] : u \in Threads}
            n == Cardinality(Threads)
<1>1. Dropped
  BY DEF JobRunsInv, Shape, Dropped, Crash
<1>2. Shape /\ Shape'
  BY <1>1, DroppedKeeps DEF JobRunsInv
<1>3. IsFiniteSet(A) /\ Cardinality(A) \in Nat
  BY <1>2, FiniteRows
<1>4. B \subseteq A \cup R
  BY DEF Orphans, Crash
<1>5. /\ crashes \in Nat /\ writeErrors \in Nat
      /\ Cardinality(A) <= crashes * n + writeErrors
  BY DEF LossInv, OrphansExplained
<1>6. crashes' = crashes + 1 /\ writeErrors' = writeErrors
  BY DEF Crash
<1>7. OrphansExplained' <=> /\ crashes' \in Nat /\ writeErrors' \in Nat
                            /\ Cardinality(B) <= crashes' * n + writeErrors'
  BY DEF OrphansExplained
<1>8. n \in Nat /\ IsFiniteSet(R) /\ Cardinality(R) <= n
  <2>. HIDE DEF h
  <2>. QED BY RunsOfThreads
<1>. HIDE DEF A, B, R, n
<1>9. Cardinality(B) <= Cardinality(A) + n /\ Cardinality(B) \in Nat
  <2>1. /\ IsFiniteSet(A \cup R) /\ Cardinality(A \cap R) \in Nat
        /\ Cardinality(A \cup R) = Cardinality(A) + Cardinality(R) - Cardinality(A \cap R)
    <3>1. IsFiniteSet(A \cap R)
      BY <1>3, FS_Intersection
    <3>. QED BY <1>3, <1>8, <3>1, FS_Union, FS_CardinalityType
  <2>2. Cardinality(B) <= Cardinality(A \cup R) /\ IsFiniteSet(B)
    BY <1>4, <2>1, FS_Subset
  <2>3. Cardinality(B) \in Nat /\ Cardinality(R) \in Nat
    BY <1>8, <2>2, FS_CardinalityType
  <2>. QED BY <1>3, <1>8, <2>1, <2>2, <2>3
<1>10. (crashes + 1) * n = crashes * n + n /\ crashes * n \in Nat
  BY <1>5, <1>8
<1>11. OrphansExplained'
  <2>1. Cardinality(B) <= (crashes + 1) * n + writeErrors
    BY <1>3, <1>5, <1>8, <1>9, <1>10
  <2>. QED BY <1>5, <1>6, <1>7, <2>1
<1>. QED BY <1>1, <1>11, DroppedBalances DEF LossInv

\* Planning and the end of the alerts leave the rows in hand.
LEMMA PlannedCharges ==
  ASSUME JobRunsInv, LossInv, NEW t \in Threads, PlanAlerts(t)
  PROVE  LossInv'
<1>1. /\ WorkStep(t) /\ call[t].pc = "plan" /\ call'[t].pc = "alerts" /\ call'[t].w = call[t].w
      /\ UNCHANGED delivered
  BY PlanAlertsSteps DEF PlanAlerts, Silently
<1>2. call[t].result \in {"SUCCESS", "PARTIAL"}
  BY <1>1, AtWork DEF Handled, InWork, Working
<1>3. \A tg : InHand(call[t], tg) => InHand(call'[t], tg)
  BY <1>1, <1>2 DEF InHand
<1>. QED BY <1>1, <1>3, WorkCharges

LEMMA DoneCharges ==
  ASSUME JobRunsInv, LossInv, NEW t \in Threads, AlertsDone(t)
  PROVE  LossInv'
<1>1. /\ WorkStep(t) /\ call[t].pc = "alerts" /\ call'[t].pc = "commit" /\ call'[t].w = call[t].w
      /\ UNCHANGED delivered
  BY AlertsDoneSteps DEF AlertsDone, Silently
<1>2. call[t].result \in {"SUCCESS", "PARTIAL"}
  BY <1>1, AtWork DEF Handled, InWork, Working
<1>3. \A tg : InHand(call[t], tg) => InHand(call'[t], tg)
  BY <1>1, <1>2 DEF InHand
<1>. QED BY <1>1, <1>3, WorkCharges

\* The rows of a commit follow those of the log.
LEMMA AppliedLogs ==
  ASSUME Shape, NEW t \in Threads, db' = Applied(t)
  PROVE  db'.logs = db.logs \o call[t].w.logs
BY DEF Shape, DbFields, Applied

\* A message on record is no longer charged: each that the run stops being
\* charged with has at least one new row.
LEMMA CommitBalances ==
  ASSUME JobRunsInv, NEW t \in Threads, Commit(t), NEW tg, Balanced(tg), Arrivals(tg)' = Arrivals(tg)
  PROVE  Balanced(tg)'
<1>. DEFINE h == call[t]  r == call'[t]  run == call[t].run
            p == db.logs  q == call[t].w.logs
<1>1. /\ h.pc = "commit" /\ db' = Applied(t) /\ UNCHANGED jobRuns
      /\ call' = [call EXCEPT ![t].pc = "finish", ![t].w = NoWrites]
  BY DEF Commit
<1>2. /\ DOMAIN h = CallFields /\ Written(h.w) /\ Shape /\ Shape' /\ DOMAIN call = Threads
  BY <1>1, AtWork, CommitKeeps DEF JobRunsInv, Handled
<1>3. r = [h EXCEPT !.pc = "finish", !.w = NoWrites] /\ Others(t)
  BY <1>1, <1>2 DEF Others, CallFields
<1>4. r.run = run /\ r.result = h.result /\ r.pc = "finish"
  BY <1>2, <1>3 DEF CallFields
<1>5. p \in Seq(Logs) /\ q \in Seq(Logs) /\ db'.logs = p \o q
  BY <1>1, <1>2, AppliedLogs DEF Shape, Written
<1>6. /\ Len(p) \in Nat /\ DOMAIN p = 1 .. Len(p) /\ DOMAIN q = 1 .. Len(q) /\ Len(q) \in Nat
      /\ DOMAIN (p \o q) = 1 .. Len(p) + Len(q)
      /\ \A i \in DOMAIN p : (p \o q)[i] = p[i]
      /\ \A i \in DOMAIN q : (p \o q)[Len(p) + i] = q[i]
  <2>. HIDE DEF p, q
  <2>. QED BY <1>5
<1>7. LoggedFor(tg) \subseteq LoggedFor(tg)'
  <2>1. DOMAIN p \subseteq DOMAIN (p \o q)
    <3>. HIDE DEF p, q
    <3>1. \A n \in 1 .. Len(p) : n \in 1 .. Len(p) + Len(q)
      BY <1>6
    <3>. QED BY <1>6, <3>1
  <2>. QED BY <1>5, <1>6, <2>1 DEF LoggedFor
<1>8. CASE \A i \in DOMAIN q : q[i].target # tg
  <2>1. InHand(h, tg) => InHand(r, tg)
    BY <1>4, <1>8 DEF InHand
  <2>2. Charged(tg) \subseteq Charged(tg)'
    BY <1>1, <1>3, <1>4, <2>1 DEF Charged, Others
  <2>. QED BY <1>2, <1>7, <2>2, BalancedGrows
<1>9. CASE \E i \in DOMAIN q : q[i].target = tg
  <2>1. PICK i \in DOMAIN q : q[i].target = tg
    BY <1>9
  <2>. DEFINE k == Len(p) + i
              L == LoggedFor(tg)  K == LoggedFor(tg)'
              C == Charged(tg)    D == Charged(tg)'
              m == Arrivals(tg)
  <2>2. k \in K /\ k \notin L
    <3>. HIDE DEF p, q
    <3>1. k \in DOMAIN (p \o q) /\ (p \o q)[k].target = tg /\ k \notin DOMAIN p
      <4>1. i \in 1 .. Len(q) /\ (p \o q)[k] = q[i]
        BY <1>6, <2>1
      <4>2. k \in 1 .. Len(p) + Len(q) /\ k \notin 1 .. Len(p)
        BY <1>6, <4>1
      <4>. QED BY <1>6, <2>1, <4>1, <4>2
    <3>2. k \in DOMAIN db'.logs /\ db'.logs[k].target = tg
      BY <1>5, <3>1
    <3>. QED BY <3>1, <3>2 DEF LoggedFor, p
  <2>3. C \ {run} \subseteq D
    <3>1. \A u \in Threads : call'[u].run = call[u].run /\ (u # t => call'[u] = call[u])
      BY <1>3, <1>4 DEF Others
    <3>2. SUFFICES ASSUME NEW x \in C, x # run, NEW u \in Threads, call'[u].pc # "idle", call'[u].run = x
                   PROVE  InHand(call'[u], tg)
      BY <1>1 DEF Charged
    <3>3. u # t
      BY <1>4, <3>2
    <3>. QED BY <3>1, <3>2, <3>3 DEF Charged
  <2>4. /\ IsFiniteSet(L) /\ Cardinality(L) \in Nat /\ IsFiniteSet(C) /\ Cardinality(C) \in Nat
        /\ m \in Nat /\ m <= Cardinality(L) + Cardinality(C)
    BY <1>2, FiniteRows DEF Balanced
  <2>5. IsFiniteSet(K) /\ IsFiniteSet(D) /\ Cardinality(K) \in Nat /\ Cardinality(D) \in Nat
    <3>1. jobRuns' \in Seq(Runs) /\ db.logs' \in Seq(Logs)
      BY <1>2 DEF Shape
    <3>2. K \subseteq DOMAIN db.logs' /\ D \subseteq DOMAIN jobRuns'
      BY DEF LoggedFor, Charged
    <3>. QED BY <3>1, <3>2, SomeRows
  <2>6. Balanced(tg)' <=> Arrivals(tg)' <= Cardinality(K) + Cardinality(D)
    BY DEF Balanced
  <2>7. L \cup {k} \subseteq K
    BY <1>7, <2>2
  <2>8. Arrivals(tg)' = m
    OBVIOUS
  <2>. HIDE DEF k, L, K, C, D, m, run
  <2>9. Cardinality(L) + 1 <= Cardinality(K)
    <3>1. Cardinality(L \cup {k}) = Cardinality(L) + 1
      BY <2>2, <2>4, FS_AddElement
    <3>2. Cardinality(L \cup {k}) <= Cardinality(K)
      BY <2>5, <2>7, FS_Subset
    <3>. QED BY <3>1, <3>2
  <2>10. Cardinality(C) <= Cardinality(D) + 1
    <3>1. Cardinality(C \ {run}) = IF run \in C THEN Cardinality(C) - 1 ELSE Cardinality(C)
      BY <2>4, FS_RemoveElement
    <3>2. Cardinality(C \ {run}) <= Cardinality(D)
      BY <2>3, <2>5, FS_Subset
    <3>. QED BY <2>4, <2>5, <3>1, <3>2
  <2>. QED BY <2>4, <2>5, <2>6, <2>8, <2>9, <2>10
<1>. QED BY <1>8, <1>9

LEMMA CommitLosses ==
  ASSUME JobRunsInv, LossInv, NEW t \in Threads, Commit(t)
  PROVE  LossInv'
<1>1. /\ call[t].pc = "commit" /\ UNCHANGED <<jobRuns, delivered, crashes, writeErrors>>
      /\ call' = [call EXCEPT ![t].pc = "finish", ![t].w = NoWrites]
  BY DEF Commit
<1>2. /\ DOMAIN call[t] = CallFields /\ Shape /\ Shape' /\ DOMAIN call = Threads
  BY <1>1, AtWork, CommitKeeps DEF JobRunsInv
<1>3. call'[t] = [call[t] EXCEPT !.pc = "finish", !.w = NoWrites] /\ Others(t)
  BY <1>1, <1>2 DEF Others, CallFields
<1>4. call'[t].run = call[t].run /\ call'[t].pc = "finish"
  BY <1>2, <1>3 DEF CallFields
<1>5. ASSUME NEW tg \in DOMAIN delivered'
      PROVE  Balanced(tg)'
  <2>1. Balanced(tg) /\ Arrivals(tg)' = Arrivals(tg)
    BY <1>1 DEF LossInv, Arrivals
  <2>. QED BY <2>1, CommitBalances
<1>6. Orphans' \subseteq Orphans
  BY <1>1, <1>3, <1>4 DEF Orphans, Others
<1>7. OrphansExplained'
  BY <1>1, <1>2, <1>6, OrphansStay DEF LossInv
<1>8. \A u \in Threads : /\ call'[u].pc = "idle" => call'[u].run = 0
                         /\ call'[u].pc = "report" => call'[u].w.logs = <<>>
  BY <1>3, <1>4 DEF LossInv, Others
<1>. QED BY <1>5, <1>7, <1>8 DEF LossInv

\* A run that fails keeps what it is charged with; one that ends well was
\* charged with nothing.
LEMMA FinishLosses ==
  ASSUME JobRunsInv, LossInv, NEW t \in Threads, Finish(t)
  PROVE  LossInv'
<1>. DEFINE h == call[t]
<1>1. /\ h.pc = "finish" /\ jobRuns' = [jobRuns EXCEPT ![h.run].status = h.result]
      /\ call' = [call EXCEPT ![t] = AtRest]
      /\ UNCHANGED <<db, delivered, crashes, writeErrors>>
  BY DEF Finish
<1>2. /\ Handled(h) /\ Shape /\ Shape' /\ DOMAIN call = Threads /\ h.run \in DOMAIN jobRuns
      /\ h.w.logs = <<>> /\ h.result \in {"SUCCESS", "PARTIAL", "FAILED"}
  BY <1>1, AtWork, FinishKeeps, EmptyHands DEF Handled, Owns, JobRunsInv
<1>3. call'[t] = AtRest /\ Others(t) /\ AtRest.pc = "idle" /\ AtRest.run = 0
  BY <1>1, <1>2 DEF Others, AtRest
<1>4. /\ DOMAIN jobRuns' = DOMAIN jobRuns /\ jobRuns'[h.run].status = h.result
      /\ \A x \in DOMAIN jobRuns : x # h.run => jobRuns'[x] = jobRuns[x]
  <2>1. /\ jobRuns \in Seq(Runs) /\ DOMAIN jobRuns' = DOMAIN jobRuns
        /\ jobRuns'[h.run] = [jobRuns[h.run] EXCEPT !.status = h.result]
        /\ \A x \in DOMAIN jobRuns : x # h.run => jobRuns'[x] = jobRuns[x]
    BY <1>1, <1>2 DEF Shape
  <2>2. jobRuns[h.run] \in Runs
    BY <1>2, RunsAre
  <2>. QED BY <2>1, <2>2 DEF Runs
<1>5. ASSUME NEW tg \in DOMAIN delivered'
      PROVE  Balanced(tg)'
  <2>1. Balanced(tg) /\ Arrivals(tg)' = Arrivals(tg)
    BY <1>1 DEF LossInv, Arrivals
  <2>2. LoggedFor(tg)' = LoggedFor(tg)
    BY <1>1 DEF LoggedFor
  <2>3. ASSUME NEW x \in Charged(tg)
        PROVE  x \in Charged(tg)'
    <3>1. \A u \in Threads \ {t} : call'[u] = call[u]
      BY <1>3 DEF Others
    <3>2. \A u \in Threads : call'[u].pc # "idle" /\ call'[u].run = x => InHand(call'[u], tg)
      BY <1>3, <2>3, <3>1 DEF Charged
    <3>3. x = h.run => h.result = "FAILED"
      BY <1>1, <1>2, <2>3 DEF Charged, InHand
    <3>4. x \in DOMAIN jobRuns /\ jobRuns'[x].status \in {"FAILED", "RUNNING"}
      BY <1>4, <2>3, <3>3 DEF Charged
    <3>. QED BY <1>4, <3>2, <3>4 DEF Charged
  <2>. QED BY <1>2, <2>1, <2>2, <2>3, BalancedGrows
<1>6. Orphans' \subseteq Orphans
  <2>1. SUFFICES ASSUME NEW x \in Orphans' PROVE x \in Orphans
    OBVIOUS
  <2>2. x \in DOMAIN jobRuns' /\ jobRuns'[x].status = "RUNNING" /\ \A u \in Threads : call'[u].run # x
    BY <2>1 DEF Orphans
  <2>3. x # h.run /\ x \in DOMAIN jobRuns /\ jobRuns[x].status = "RUNNING"
    BY <1>2, <1>4, <2>2
  <2>. QED BY <1>3, <2>2, <2>3 DEF Orphans, Others
<1>7. OrphansExplained'
  BY <1>1, <1>2, <1>6, OrphansStay DEF LossInv
<1>8. \A u \in Threads : /\ call'[u].pc = "idle" => call'[u].run = 0
                         /\ call'[u].pc = "report" => call'[u].w.logs = <<>>
  BY <1>3 DEF LossInv, Others
<1>. QED BY <1>5, <1>7, <1>8 DEF LossInv

LEMMA LossInvNext == JobRunsInv /\ AlertsInv /\ LossInv /\ [JobsNext]_jobsVars => LossInv'
<1>. SUFFICES ASSUME JobRunsInv, AlertsInv, LossInv, [JobsNext]_jobsVars PROVE LossInv'
  OBVIOUS
<1>1. /\ Shape /\ Shape' /\ DOMAIN call = Threads /\ Pool \subseteq Threads
      /\ \A u \in Threads : call[u].pc # "idle" => call[u].run \in DOMAIN jobRuns
  BY RunsInvNext DEF JobRunsInv, Shape, Threads, Honest, Owns
<1>2. CASE Fire
  <2>1. PICK t \in Pool : Begin(t, Timetable[slot])
    BY <1>2 DEF Fire
  <2>2. UNCHANGED <<db, delivered, crashes, writeErrors>>
    BY <1>2 DEF Fire
  <2>. QED BY <1>1, <2>1, <2>2, BegunLosses
<1>3. CASE \E t \in Threads : \E job \in Jobs : RunByHand(t, job)
  <2>1. PICK t \in Threads : \E job \in Jobs : RunByHand(t, job)
    BY <1>3
  <2>2. PICK job \in Jobs : RunByHand(t, job)
    BY <2>1
  <2>3. Begin(t, job) /\ UNCHANGED <<db, delivered, crashes, writeErrors>>
    BY <2>2 DEF RunByHand
  <2>. QED BY <1>1, <2>3, BegunLosses
<1>4. ASSUME NEW t \in Threads, Step(t) PROVE LossInv'
  <2>1. CASE Collect(t)
    BY <2>1, CollectSteps, QuietCharges DEF Collect, Work, Silently
  <2>2. CASE CalculateIndicators(t)
    BY <2>2, CalculateIndicatorsSteps, QuietCharges DEF CalculateIndicators, Work, Silently
  <2>3. CASE UpdateDerived(t)
    BY <2>3, UpdateDerivedSteps, QuietCharges DEF UpdateDerived, Silently
  <2>4. CASE SendRecommendations(t)
    BY <2>4, RecommendationCharges
  <2>5. CASE RunHoldingCheck(t)
    BY <2>5, RunHoldingCheckSteps, QuietCharges DEF RunHoldingCheck, Silently
  <2>6. CASE CheckUnlocked(t)
    BY <2>6, CheckUnlockedSteps, QuietCharges DEF CheckUnlocked, Silently
  <2>7. CASE SendHoldingReport(t)
    BY <2>7, ReportCharges
  <2>8. CASE PlanAlerts(t)
    BY <2>8, PlannedCharges
  <2>9. CASE SendAlert(t)
    BY <2>9, AlertCharges
  <2>10. CASE AlertsDone(t)
    BY <2>10, DoneCharges
  <2>11. CASE Raise(t)
    BY <2>11, RaiseCharges
  <2>12. CASE Commit(t)
    BY <2>12, CommitLosses
  <2>13. CASE WriteFails(t)
    BY <2>13, WriteFailsLosses
  <2>14. CASE Finish(t)
    BY <2>14, FinishLosses
  <2>. QED BY <1>4, <2>1, <2>2, <2>3, <2>4, <2>5, <2>6, <2>7, <2>8, <2>9, <2>10, <2>11,
              <2>12, <2>13, <2>14 DEF Step
<1>5. CASE Missed \/ NextMorning \/ Start
  <2>1. Dropped /\ UNCHANGED <<call, crashes, writeErrors>>
    BY <1>1, <1>5 DEF Shape, Dropped, Missed, NextMorning, Start
  <2>. QED BY <2>1, IdlyLosses
<1>6. CASE Crash(Pool) \/ Crash(Shell)
  BY <1>6, CrashLosses
<1>7. CASE UNCHANGED jobsVars
  <2>1. Dropped /\ UNCHANGED <<call, crashes, writeErrors>>
    BY <1>1, <1>7 DEF Shape, Dropped, jobsVars
  <2>. QED BY <2>1, IdlyLosses
<1>. QED BY <1>2, <1>3, <1>4, <1>5, <1>6, <1>7 DEF JobsNext

(***************************************************************************)
(* The chat holds a message more often than the log only for runs that     *)
(* failed, were cut off or are under way, and only a crash or a failed     *)
(* write leaves a job_runs row RUNNING that nobody works on: what          *)
(* NotificationService loses with its transaction is told by the rows of   *)
(* run_job, whatever the threads do at the same time.                      *)
(***************************************************************************)
THEOREM LossesAccounted == JobsSpec => []LossesAreAccounted
<1>1. ASSUME JobRunsInv, LossInv PROVE LossesAreAccounted
  <2>. DEFINE U == {r \in DOMAIN jobRuns : jobRuns[r].status \in {"FAILED", "RUNNING"}}
  <2>1. Shape /\ jobRuns \in Seq(Runs)
    BY <1>1 DEF JobRunsInv, Shape
  <2>2. IsFiniteSet(U) /\ Cardinality(U) \in Nat
    BY <2>1, SomeRows
  <2>3. ASSUME NEW tg \in DOMAIN delivered
        PROVE  delivered[tg] <= Cardinality(LoggedFor(tg)) + Cardinality(U)
    <3>. DEFINE C == Charged(tg)
    <3>1. C \subseteq U
      BY DEF Charged
    <3>2. /\ Cardinality(LoggedFor(tg)) \in Nat /\ Cardinality(C) \in Nat /\ Arrivals(tg) \in Nat
          /\ Arrivals(tg) <= Cardinality(LoggedFor(tg)) + Cardinality(C)
      BY <1>1, <2>1, FiniteRows DEF LossInv, Balanced
    <3>3. Arrivals(tg) = delivered[tg]
      BY DEF Arrivals
    <3>. HIDE DEF U, C
    <3>4. Cardinality(C) <= Cardinality(U)
      BY <2>2, <3>1, FS_Subset
    <3>. QED BY <2>2, <3>2, <3>3, <3>4
  <2>4. Cardinality(Orphans) <= crashes * Cardinality(Threads) + writeErrors
    BY <1>1 DEF LossInv, OrphansExplained
  <2>. QED BY <2>3, <2>4 DEF LossesAreAccounted, LoggedFor, Orphans
<1>2. JobRunsInv /\ LossInv => LossesAreAccounted
  BY <1>1
<1>. QED BY <1>2, LossInvInit, LossInvNext, AlertsInvInit, AlertsInvNext, RunsInvAlways, PTL DEF JobsSpec

----
(***************************************************************************)
(* The shape of the tables.  A run computes from what it has read: what it *)
(* has in hand is never ahead of the tables, and they do not move back     *)
(* under it.                                                               *)
(***************************************************************************)
OneOfAKey(members) == \A c, d \in members : Key(c) = Key(d) => c = d

Days ==
  /\ today \in Nat /\ 1 <= today /\ today <= LastDay
  /\ slot \in 1..(Len(Timetable) + 1) /\ up \in BOOLEAN

Series ==
  /\ db.prices \in [Members -> Nat] /\ db.ind \in [Members -> Nat]
  /\ \A s \in Members : db.ind[s] <= db.prices[s] /\ db.prices[s] <= today
  /\ \A c \in db.checks : db.ind[c.sym] > 0
  /\ OneOfAKey(db.checks)

DatedInHand(h) ==
  h.pc \notin {"idle", "finish"} => h.day \in Nat /\ 1 <= h.day /\ h.day <= today

ComputedInHand(h) ==
  /\ \A s \in Members : s \in DOMAIN h.w.ind => h.w.ind[s] \in Nat /\ h.w.ind[s] <= db.prices[s]
  /\ \A c \in h.w.checks : db.ind[c.sym] > 0
  /\ OneOfAKey(h.w.checks)
  /\ h.pc = "locked" => \A s \in h.todo : db.ind[s] > 0

DataInHand(h) == DatedInHand(h) /\ ComputedInHand(h)

DataInv == Days /\ Series /\ \A t \in Threads : DataInHand(call[t])

LEMMA NothingComputed ==
  /\ DOMAIN NoWrites.ind = {} /\ NoWrites.checks = {} /\ OneOfAKey({})
  /\ DataInHand(AtRest)
<1>1. /\ NoWrites.ind = <<>> /\ NoWrites.checks = {}
  BY DEF NoWrites
<1>2. DOMAIN <<>> = {}
  OBVIOUS
<1>. QED BY <1>1, <1>2, EmptyHands DEF OneOfAKey, DataInHand, DatedInHand, ComputedInHand

LEMMA DataInvInit == JobsInit => DataInv
<1>. SUFFICES ASSUME JobsInit PROVE DataInv
  OBVIOUS
<1>1. /\ today = 1 /\ slot \in DOMAIN Timetable /\ up = TRUE /\ call = [t \in Threads |-> AtRest]
  BY DEF JobsInit
<1>2. /\ LastDay \in Nat \ {0} /\ DOMAIN Timetable = 1..Len(Timetable) /\ Len(Timetable) \in Nat
  BY DailyJobsAssumption
<1>3. PICK some \in BOOLEAN, logs \in {<<>>, <<EarlierLog>>}, held \in {Held, {}} :
        db = Database(some, logs, held)
  BY DEF JobsInit, Databases
<1>4. /\ db.prices = [s \in Members |-> IF some THEN 1 ELSE 0]
      /\ db.ind = [s \in Members |-> IF some THEN 1 ELSE 0] /\ db.checks = {}
  BY <1>3 DEF Database
<1>5. Days
  BY <1>1, <1>2 DEF Days
<1>6. Series
  BY <1>1, <1>4 DEF Series, OneOfAKey
<1>. QED BY <1>1, <1>5, <1>6, NothingComputed DEF DataInv

\* A step of the work leaves the tables alone: only what the thread has counts.
LEMMA WorkData ==
  ASSUME DataInv, NEW t \in Threads, WorkStep(t), DataInHand(call[t])'
  PROVE  DataInv'
<1>1. UNCHANGED <<today, slot, up, db>> /\ Others(t)
  BY DEF WorkStep, Unwritten
<1>2. Days' /\ Series'
  BY <1>1 DEF DataInv, Days, Series, OneOfAKey, Key
<1>3. ASSUME NEW u \in Threads, u # t PROVE DataInHand(call[u])'
  <2>1. call'[u] = call[u] /\ DataInHand(call[u])
    BY <1>1, <1>3 DEF Others, DataInv
  <2>. QED BY <1>1, <2>1 DEF DataInHand, DatedInHand, ComputedInHand, OneOfAKey, Key
<1>. QED BY <1>2, <1>3 DEF DataInv

\* A thread that goes on with the same rows.
LEMMA SameData ==
  ASSUME NEW t, DataInHand(call[t]), Unwritten, call[t].pc \in InWork,
         call'[t].day = call[t].day, call'[t].w.ind = call[t].w.ind,
         call'[t].w.checks = call[t].w.checks, call'[t].pc # "locked"
  PROVE  DataInHand(call[t])'
<1>1. UNCHANGED <<today, db>> /\ call[t].pc \notin {"idle", "finish"}
  BY DEF Unwritten, InWork, Working
<1>. QED BY <1>1 DEF DataInHand, DatedInHand, ComputedInHand, OneOfAKey, Key

LEMMA ReturnedData ==
  ASSUME JobRunsInv, DataInv, NEW t \in Threads, call[t].pc = "work", NEW writes, NEW result,
         writes.checks = {}, Return(t, writes, result), Silently,
         \A s \in Members : s \in DOMAIN writes.ind =>
           writes.ind[s] \in Nat /\ writes.ind[s] <= db.prices[s]
  PROVE  DataInHand(call[t])'
<1>1. /\ DOMAIN call = Threads /\ DOMAIN call[t] = CallFields
  BY AtWork DEF InWork, Working
<1>2. call'[t] = [call[t] EXCEPT !.pc = "commit", !.w = writes, !.result = result]
  BY <1>1 DEF Return, CallFields
<1>3. /\ call'[t].pc = "commit" /\ call'[t].w = writes /\ call'[t].day = call[t].day
  BY <1>1, <1>2 DEF CallFields
<1>4. UNCHANGED <<today, db>> /\ DataInHand(call[t])
  BY DEF Silently, Unwritten, DataInv
<1>5. DatedInHand(call[t])'
  BY <1>3, <1>4 DEF DataInHand, DatedInHand
<1>6. ComputedInHand(call[t])'
  BY <1>3, <1>4 DEF ComputedInHand, OneOfAKey
<1>. QED BY <1>5, <1>6 DEF DataInHand

LEMMA CollectData ==
  ASSUME JobRunsInv, DataInv, NEW t \in Threads,
         Collect(t) \/ CalculateIndicators(t) \/ UpdateDerived(t)
  PROVE  DataInHand(call[t])'
<1>1. call[t].pc = "work" /\ Silently
  BY DEF Collect, CalculateIndicators, UpdateDerived, Work
<1>2. ASSUME NEW result, Return(t, NoWrites, result) PROVE DataInHand(call[t])'
  BY <1>1, <1>2, NothingComputed, ReturnedData
<1>3. ASSUME NEW ok, NEW result, Return(t, [NoWrites EXCEPT !.ranked = TRUE, !.prices = ok], result)
      PROVE  DataInHand(call[t])'
  <2>. DEFINE writes == [NoWrites EXCEPT !.ranked = TRUE, !.prices = ok]
  <2>1. writes.checks = {} /\ DOMAIN writes.ind = {} /\ Return(t, writes, result)
    BY <1>3, NothingComputed DEF NoWrites
  <2>. HIDE DEF writes
  <2>. QED BY <1>1, <2>1, ReturnedData
<1>4. ASSUME NEW d, NEW result, Return(t, [NoWrites EXCEPT !.derived = d], result)
      PROVE  DataInHand(call[t])'
  <2>. DEFINE writes == [NoWrites EXCEPT !.derived = d]
  <2>1. writes.checks = {} /\ DOMAIN writes.ind = {} /\ Return(t, writes, result)
    BY <1>4, NothingComputed DEF NoWrites
  <2>. HIDE DEF writes
  <2>. QED BY <1>1, <2>1, ReturnedData
<1>5. ASSUME NEW ok \in SUBSET Members, NEW result,
             Return(t, [NoWrites EXCEPT !.ind = [s \in ok |-> db.prices[s]]], result)
      PROVE  DataInHand(call[t])'
  <2>. DEFINE ind == [s \in ok |-> db.prices[s]]  writes == [NoWrites EXCEPT !.ind = ind]
  <2>1. writes.checks = {} /\ writes.ind = ind /\ Return(t, writes, result)
    BY <1>5 DEF NoWrites
  <2>2. \A s \in Members : s \in DOMAIN ind => ind[s] \in Nat /\ ind[s] <= db.prices[s]
    BY DEF DataInv, Series
  <2>. HIDE DEF writes, ind
  <2>. QED BY <1>1, <2>1, <2>2, ReturnedData
<1>6. CASE Collect(t)
  BY <1>2, <1>3, <1>6 DEF Collect
<1>7. CASE UpdateDerived(t)
  BY <1>4, <1>7 DEF UpdateDerived
<1>8. CASE CalculateIndicators(t)
  <2>1. CASE ~db.ranked
    BY <1>2, <1>8, <2>1 DEF CalculateIndicators
  <2>2. CASE db.ranked
    <3>. DEFINE priced == {s \in Members : db.prices[s] > 0}
    <3>1. PICK ok \in SUBSET priced :
            Return(t, [NoWrites EXCEPT !.ind = [s \in ok |-> db.prices[s]]],
                   Verdict(ok, priced \ ok, Members \ priced))
      BY <1>8, <2>2 DEF CalculateIndicators
    <3>2. ok \in SUBSET Members
      OBVIOUS
    <3>. QED BY <1>5, <3>1, <3>2
  <2>. QED BY <2>1, <2>2
<1>. QED BY <1>6, <1>7, <1>8

\* A message adds a row of the log to what is in hand, and nothing else.
LEMMA SentData ==
  ASSUME JobRunsInv, NEW t \in Threads, NEW tg, NEW o, NEW then,
         DOMAIN then = CallFields, DOMAIN then.w = WriteFields, Send(t, tg, o, then)
  PROVE  /\ call'[t].pc = then.pc /\ call'[t].day = then.day
         /\ call'[t].w.ind = then.w.ind /\ call'[t].w.checks = then.w.checks /\ Unwritten
<1>. DEFINE log == [target |-> tg, status |-> o.status, run |-> call[t].run]
<1>1. DOMAIN call = Threads
  BY DEF JobRunsInv, Shape
<1>2. /\ call'[t] = [then EXCEPT !.w.logs = Append(@, log)] /\ Unwritten
  BY <1>1 DEF Send
<1>. HIDE DEF log
<1>3. /\ call'[t].w = [then.w EXCEPT !.logs = Append(@, log)]
      /\ call'[t].pc = then.pc /\ call'[t].day = then.day
  BY <1>2 DEF CallFields
<1>. QED BY <1>2, <1>3 DEF WriteFields

LEMMA MessageData ==
  ASSUME JobRunsInv, DataInv, NEW t \in Threads,
         SendRecommendations(t) \/ SendHoldingReport(t) \/ SendAlert(t)
  PROVE  DataInHand(call[t])'
<1>. DEFINE h == call[t]
<1>1. h.pc \in InWork /\ h.pc \in {"work", "report", "alerts"}
  BY DEF SendRecommendations, SendHoldingReport, SendAlert, Work, InWork, Working
<1>2. /\ DataInHand(h) /\ DOMAIN h = CallFields /\ DOMAIN h.w = WriteFields
  BY <1>1, AtWork DEF DataInv, Handled, Written
<1>3. ASSUME NEW then, NEW tg, NEW o, DOMAIN then = CallFields, DOMAIN then.w = WriteFields,
             Send(t, tg, o, then), then.day = h.day, then.w.ind = h.w.ind,
             then.w.checks = h.w.checks, then.pc # "locked"
      PROVE  DataInHand(call[t])'
  <2>1. /\ call'[t].pc = then.pc /\ call'[t].day = then.day
        /\ call'[t].w.ind = then.w.ind /\ call'[t].w.checks = then.w.checks /\ Unwritten
    BY <1>3, SentData
  <2>. QED BY <1>1, <1>2, <1>3, <2>1, SameData
<1>4. CASE SendRecommendations(t)
  <2>1. CASE Return(t, NoWrites, "SUCCESS") /\ Silently
    <3>1. h.pc = "work"
      BY <1>4 DEF SendRecommendations, Work
    <3>. QED BY <2>1, <3>1, NothingComputed, ReturnedData
  <2>2. ASSUME NEW o \in Outcomes,
               Send(t, Report("report", 0), o,
                    [call[t] EXCEPT !.pc = "commit", !.result = Reported(o, FALSE),
                                    !.w.sent = (o.status = "SUCCESS")])
        PROVE  DataInHand(call[t])'
    <3>. DEFINE then == [call[t] EXCEPT !.pc = "commit", !.result = Reported(o, FALSE),
                                        !.w.sent = (o.status = "SUCCESS")]
                tg == Report("report", 0)
    <3>1. /\ DOMAIN then = CallFields /\ DOMAIN then.w = WriteFields /\ then.day = h.day
          /\ then.w.ind = h.w.ind /\ then.w.checks = h.w.checks /\ then.pc = "commit"
      BY <1>2 DEF CallFields, WriteFields
    <3>2. Send(t, tg, o, then)
      BY <2>2
    <3>. HIDE DEF then, tg
    <3>. QED BY <1>3, <3>1, <3>2
  <2>. QED BY <1>4, <2>1, <2>2 DEF SendRecommendations
<1>5. CASE SendHoldingReport(t)
  <2>. DEFINE tg == Report(call[t].job, call[t].day)
              skips == {c.sym : c \in call[t].w.checks} # db.held
              then(o) == [call[t] EXCEPT !.pc = "plan", !.result = Reported(o, skips)]
  <2>1. PICK o \in Outcomes : Send(t, tg, o, then(o))
    BY <1>5 DEF SendHoldingReport
  <2>2. /\ DOMAIN then(o) = CallFields /\ then(o).w = h.w /\ then(o).day = h.day
        /\ then(o).pc = "plan"
    BY <1>2 DEF CallFields
  <2>. HIDE DEF then, tg
  <2>. QED BY <1>2, <1>3, <2>1, <2>2
<1>6. CASE SendAlert(t)
  <2>. DEFINE then(tg) == [call[t] EXCEPT !.todo = @ \ {tg}]
  <2>1. PICK tg \in h.todo, o \in Outcomes : Send(t, tg, o, then(tg))
    BY <1>6 DEF SendAlert
  <2>2. h.pc = "alerts"
    BY <1>6 DEF SendAlert
  <2>3. /\ DOMAIN then(tg) = CallFields /\ then(tg).w = h.w /\ then(tg).day = h.day
        /\ then(tg).pc = "alerts"
    BY <1>2, <2>2 DEF CallFields
  <2>. HIDE DEF then
  <2>. QED BY <1>2, <1>3, <2>1, <2>3
<1>. QED BY <1>4, <1>5, <1>6

LEMMA PlannedData ==
  ASSUME JobRunsInv, DataInv, NEW t \in Threads, PlanAlerts(t) \/ AlertsDone(t)
  PROVE  DataInHand(call[t])'
<1>1. call[t].pc \in InWork /\ DataInHand(call[t]) /\ Unwritten
  BY DEF PlanAlerts, AlertsDone, InWork, Working, DataInv, Silently
<1>2. DOMAIN call = Threads /\ DOMAIN call[t] = CallFields
  BY <1>1, AtWork
<1>3. /\ call'[t].day = call[t].day /\ call'[t].w = call[t].w /\ call'[t].pc # "locked"
  <2>1. CASE PlanAlerts(t)
    <3>1. PICK todo : call' = [call EXCEPT ![t].pc = "alerts", ![t].todo = todo]
      BY <2>1 DEF PlanAlerts
    <3>. QED BY <1>2, <3>1 DEF CallFields
  <2>2. CASE AlertsDone(t)
    <3>1. call' = [call EXCEPT ![t].pc = "commit"]
      BY <2>2 DEF AlertsDone
    <3>. QED BY <1>2, <3>1 DEF CallFields
  <2>. QED BY <2>1, <2>2
<1>. QED BY <1>1, <1>3, SameData

\* The rows of a check are one for each symbol that has its indicators.
LEMMA CheckedData ==
  ASSUME NEW t, NEW members, NEW levels, \A s \in members : db.ind[s] > 0
  PROVE  LET w == CheckRows(t, members, levels) IN
         /\ DOMAIN w.ind = {} /\ OneOfAKey(w.checks)
         /\ \A c \in w.checks : db.ind[c.sym] > 0
<1>. DEFINE RowOf(s) == [sym |-> s, day |-> call[t].day, type |-> call[t].job, level |-> levels[s]]
            w == CheckRows(t, members, levels)
<1>1. w.checks = {RowOf(s) : s \in members} /\ w.ind = NoWrites.ind
  BY DEF CheckRows, NoWrites
<1>2. \A s \in members : RowOf(s).sym = s
  OBVIOUS
<1>3. \A c, d : Key(c) = Key(d) => c.sym = d.sym
  BY DEF Key
<1>. HIDE DEF w, RowOf
<1>4. OneOfAKey(w.checks)
  BY <1>1, <1>2, <1>3 DEF OneOfAKey
<1>5. \A c \in w.checks : db.ind[c.sym] > 0
  BY <1>1, <1>2
<1>. QED BY <1>1, <1>4, <1>5, NothingComputed DEF w

LEMMA CheckData ==
  ASSUME JobRunsInv, DataInv, NEW t \in Threads, RunHoldingCheck(t) \/ CheckUnlocked(t)
  PROVE  DataInHand(call[t])'
<1>. DEFINE h == call[t]
<1>1. h.pc \in InWork /\ h.pc \in {"work", "locked"} /\ Silently
  BY DEF RunHoldingCheck, CheckUnlocked, InWork, Working
<1>2. /\ DataInHand(h) /\ DOMAIN h = CallFields /\ DOMAIN call = Threads /\ h.w = NoWrites
      /\ UNCHANGED <<today, db>>
  BY <1>1, AtWork DEF DataInv, Handled, Silently, Unwritten
<1>3. h.day \in Nat /\ 1 <= h.day /\ h.day <= today
  BY <1>1, <1>2 DEF DataInHand, DatedInHand
<1>4. ASSUME NEW members, NEW levels, \A s \in members : db.ind[s] > 0,
             call'[t].w = CheckRows(t, members, levels), call'[t].pc = "report", call'[t].day = h.day
      PROVE  DataInHand(call[t])'
  <2>. DEFINE w == CheckRows(t, members, levels)
  <2>1. /\ DOMAIN w.ind = {} /\ OneOfAKey(w.checks) /\ \A c \in w.checks : db.ind[c.sym] > 0
    BY <1>4, CheckedData
  <2>2. call'[t].w = w
    BY <1>4
  <2>. HIDE DEF w
  <2>3. DatedInHand(call[t])'
    BY <1>2, <1>3, <1>4 DEF DatedInHand
  <2>4. ComputedInHand(call[t])'
    BY <1>2, <1>4, <2>1, <2>2 DEF ComputedInHand, OneOfAKey, Key
  <2>. QED BY <2>3, <2>4 DEF DataInHand
<1>5. \A s \in Checkable : db.ind[s] > 0
  BY DEF Checkable
<1>6. CASE CheckUnlocked(t)
  <2>1. h.pc = "locked" /\ \A s \in h.todo : db.ind[s] > 0
    BY <1>2, <1>6 DEF CheckUnlocked, DataInHand, ComputedInHand
  <2>2. PICK levels \in [h.todo -> RiskLevels] :
          call' = [call EXCEPT ![t].pc = "report", ![t].todo = {}, ![t].fresh = {},
                               ![t].w = CheckRows(t, h.todo, levels)]
    BY <1>6 DEF CheckUnlocked
  <2>. DEFINE w == CheckRows(t, h.todo, levels)
  <2>3. call' = [call EXCEPT ![t].pc = "report", ![t].todo = {}, ![t].fresh = {}, ![t].w = w]
    BY <2>2
  <2>. HIDE DEF w
  <2>4. call'[t].w = w /\ call'[t].pc = "report" /\ call'[t].day = h.day
    BY <1>2, <2>3 DEF CallFields
  <2>. QED BY <1>4, <2>1, <2>4 DEF w
<1>7. CASE RunHoldingCheck(t)
  <2>0. h.pc = "work"
    BY <1>7 DEF RunHoldingCheck
  <2>1. CASE Return(t, NoWrites, "SUCCESS")
    BY <1>1, <2>0, <2>1, NothingComputed, ReturnedData
  <2>2. ASSUME NEW levels \in [Checkable -> RiskLevels],
               call' = [call EXCEPT ![t].pc = "report", ![t].w = CheckRows(t, Checkable, levels)]
        PROVE  DataInHand(call[t])'
    <3>. DEFINE w == CheckRows(t, Checkable, levels)
    <3>1. call' = [call EXCEPT ![t].pc = "report", ![t].w = w]
      BY <2>2
    <3>. HIDE DEF w
    <3>2. call'[t].w = w /\ call'[t].pc = "report" /\ call'[t].day = h.day
      BY <1>2, <3>1 DEF CallFields
    <3>. QED BY <1>4, <1>5, <3>2 DEF w
  <2>3. ASSUME NEW fresh,
               call' = [call EXCEPT ![t].pc = "locked", ![t].todo = Checkable, ![t].fresh = fresh]
        PROVE  DataInHand(call[t])'
    <3>1. /\ call'[t].pc = "locked" /\ call'[t].todo = Checkable /\ call'[t].w = NoWrites
          /\ call'[t].day = h.day
      BY <1>2, <2>3 DEF CallFields
    <3>2. DatedInHand(call[t])'
      BY <1>2, <1>3, <3>1 DEF DatedInHand
    <3>3. ComputedInHand(call[t])'
      BY <1>2, <1>5, <3>1, NothingComputed DEF ComputedInHand, OneOfAKey
    <3>. QED BY <3>2, <3>3 DEF DataInHand
  <2>4. CASE \E levels \in [Checkable -> RiskLevels] :
               call' = [call EXCEPT ![t].pc = "report", ![t].w = CheckRows(t, Checkable, levels)]
    BY <2>2, <2>4
  <2>5. CASE call' = [call EXCEPT ![t].pc = "locked", ![t].todo = Checkable,
                        ![t].fresh = {s \in Checkable :
                           <<s, call[t].day, call[t].job>> \notin {Key(c) : c \in db.checks}}]
    BY <2>3, <2>5
  <2>. QED BY <1>7, <2>1, <2>4, <2>5 DEF RunHoldingCheck
<1>. QED BY <1>6, <1>7

LEMMA RaisedData ==
  ASSUME JobRunsInv, DataInv, NEW t \in Threads, Raise(t)
  PROVE  DataInHand(call[t])'
<1>1. DOMAIN call = Threads
  BY DEF JobRunsInv, Shape
<1>2. call'[t] = [AtRest EXCEPT !.pc = "finish", !.run = call[t].run,
                                !.job = call[t].job, !.result = "FAILED"]
  BY <1>1 DEF Raise
<1>3. call'[t].pc = "finish" /\ call'[t].w = NoWrites
  BY <1>2, EmptyHands DEF CallFields
<1>. QED BY <1>3, NothingComputed DEF DataInHand, DatedInHand, ComputedInHand, OneOfAKey

----
\* What an action outside the work leaves: nobody has more in hand, and the
\* calendar moves on.
LEMMA DroppedData ==
  ASSUME DataInv, JobRunsInv, DOMAIN call' = Threads, UNCHANGED db, Days', today <= today',
         \A u \in Threads : call'[u] = call[u] \/ call'[u] = AtRest
                            \/ (DataInHand(call[u])' /\ today' = today)
  PROVE  DataInv'
<1>1. today \in Nat /\ today' \in Nat
  BY DEF DataInv, Days
<1>2. Series'
  BY <1>1 DEF DataInv, Series, OneOfAKey, Key
<1>3. ASSUME NEW u \in Threads PROVE DataInHand(call[u])'
  <2>1. CASE call'[u] = AtRest
    <3>1. call'[u].pc = "idle" /\ call'[u].w = NoWrites
      BY <2>1, EmptyHands
    <3>. QED BY <3>1, NothingComputed DEF DataInHand, DatedInHand, ComputedInHand, OneOfAKey
  <2>2. CASE call'[u] = call[u]
    <3>1. DataInHand(call[u])
      BY DEF DataInv
    <3>. QED BY <1>1, <2>2, <3>1 DEF DataInHand, DatedInHand, ComputedInHand, OneOfAKey, Key
  <2>. QED BY <2>1, <2>2
<1>. QED BY <1>2, <1>3 DEF DataInv

LEMMA BegunData ==
  ASSUME DataInv, JobRunsInv, NEW t \in Threads, NEW job, Begin(t, job), UNCHANGED <<today, db>>
  PROVE  /\ DOMAIN call' = Threads /\ DataInHand(call[t])'
         /\ \A u \in Threads \ {t} : call'[u] = call[u]
<1>1. DOMAIN call = Threads
  BY DEF JobRunsInv, Shape
<1>2. /\ call'[t] = [AtRest EXCEPT !.pc = "work", !.job = job, !.day = today, !.run = Len(jobRuns) + 1]
      /\ DOMAIN call' = Threads /\ \A u \in Threads \ {t} : call'[u] = call[u]
  BY <1>1 DEF Begin
<1>3. call'[t].pc = "work" /\ call'[t].day = today /\ call'[t].w = NoWrites
  BY <1>2, EmptyHands DEF CallFields
<1>4. today \in Nat /\ 1 <= today
  BY DEF DataInv, Days
<1>. QED BY <1>2, <1>3, <1>4, NothingComputed
         DEF DataInHand, DatedInHand, ComputedInHand, OneOfAKey

LEMMA OutsideData ==
  ASSUME DataInv, JobRunsInv,
         \/ Fire \/ Missed \/ NextMorning \/ Start \/ Crash(Pool) \/ Crash(Shell)
         \/ \E t \in Threads : \/ WriteFails(t) \/ Finish(t)
                               \/ \E job \in Jobs : RunByHand(t, job)
  PROVE  DataInv'
<1>1. /\ today \in Nat /\ slot \in Nat /\ DOMAIN call = Threads /\ Len(Timetable) \in Nat /\ Days
      /\ Pool \subseteq Threads
  BY DailyJobsAssumption DEF DataInv, JobRunsInv, Shape, Days, Threads
<1>2. CASE Missed \/ NextMorning \/ Start
  <2>1. UNCHANGED <<db, call>> /\ today <= today'
    BY <1>1, <1>2 DEF Missed, NextMorning, Start
  <2>2. Days'
    <3>1. LastDay \in Nat
      BY DailyJobsAssumption
    <3>2. CASE Missed
      BY <1>1, <3>2 DEF Missed, Days
    <3>3. CASE NextMorning
      BY <1>1, <3>1, <3>3 DEF NextMorning, Days
    <3>4. CASE Start
      BY <1>1, <3>4 DEF Start, Days
    <3>. QED BY <1>2, <3>2, <3>3, <3>4
  <2>. QED BY <1>1, <2>1, <2>2, DroppedData
<1>3. CASE Crash(Pool) \/ Crash(Shell)
  <2>1. /\ UNCHANGED <<today, db>> /\ DOMAIN call' = Threads
        /\ \A u \in Threads : call'[u] = call[u] \/ call'[u] = AtRest
    BY <1>3 DEF Crash
  <2>2. Days'
    BY <1>1, <1>3 DEF Crash, Days
  <2>. QED BY <1>1, <2>1, <2>2, DroppedData
<1>4. CASE \E t \in Threads : WriteFails(t) \/ Finish(t)
  <2>1. /\ UNCHANGED <<today, slot, up, db>> /\ DOMAIN call' = Threads
        /\ \A u \in Threads : call'[u] = call[u] \/ call'[u] = AtRest
    BY <1>1, <1>4 DEF WriteFails, Finish
  <2>2. Days'
    BY <1>1, <2>1 DEF Days
  <2>. QED BY <1>1, <2>1, <2>2, DroppedData
<1>5. CASE Fire
  <2>1. PICK t \in Pool : Begin(t, Timetable[slot])
    BY <1>5 DEF Fire
  <2>2. UNCHANGED <<today, up, db>> /\ slot' = slot + 1 /\ slot <= Len(Timetable) /\ t \in Threads
    BY <1>1, <1>5 DEF Fire
  <2>3. Days'
    BY <1>1, <2>2 DEF Days
  <2>4. /\ DOMAIN call' = Threads /\ DataInHand(call[t])'
        /\ \A u \in Threads \ {t} : call'[u] = call[u]
    BY <2>1, <2>2, BegunData
  <2>. QED BY <1>1, <2>2, <2>3, <2>4, DroppedData
<1>6. CASE \E t \in Threads, job \in Jobs : RunByHand(t, job)
  <2>1. PICK t \in Threads, job \in Jobs : RunByHand(t, job)
    BY <1>6
  <2>2. UNCHANGED <<today, slot, up, db>> /\ Begin(t, job)
    BY <2>1 DEF RunByHand
  <2>3. Days'
    BY <1>1, <2>2 DEF Days
  <2>4. /\ DOMAIN call' = Threads /\ DataInHand(call[t])'
        /\ \A u \in Threads \ {t} : call'[u] = call[u]
    BY <2>2, BegunData
  <2>. QED BY <1>1, <2>2, <2>3, <2>4, DroppedData
<1>. QED BY <1>2, <1>3, <1>4, <1>5, <1>6

----
(***************************************************************************)
(* A commit brings what was computed from the tables as they were.  They   *)
(* have only moved forward since.                                          *)
(***************************************************************************)
Forward ==
  /\ db'.prices \in [Members -> Nat] /\ db'.ind \in [Members -> Nat]
  /\ \A s \in Members :
       /\ db.prices[s] <= db'.prices[s] /\ db'.prices[s] <= today
       /\ db.ind[s] <= db'.ind[s] /\ db'.ind[s] <= db'.prices[s]

LEMMA AppliedForward ==
  ASSUME JobRunsInv, DataInv, NEW t \in Threads, call[t].pc = "commit", db' = Applied(t)
  PROVE  Forward
<1>. DEFINE h == call[t]
            prices == [s \in Members |-> IF s \in h.w.prices THEN Newest(db.prices[s], h.day)
                                                             ELSE db.prices[s]]
            ind == [s \in Members |-> IF s \in DOMAIN h.w.ind THEN Newest(db.ind[s], h.w.ind[s])
                                                              ELSE db.ind[s]]
<1>1. DOMAIN db = DbFields
  BY DEF JobRunsInv, Shape
<1>2. db'.prices = prices /\ db'.ind = ind
  BY <1>1 DEF Applied, DbFields
<1>3. /\ h.day \in Nat /\ h.day <= today /\ today \in Nat
      /\ \A s \in Members : s \in DOMAIN h.w.ind => h.w.ind[s] \in Nat /\ h.w.ind[s] <= db.prices[s]
  BY DEF DataInv, DataInHand, DatedInHand, ComputedInHand, Days
<1>4. /\ \A s \in Members : /\ db.prices[s] \in Nat /\ db.ind[s] \in Nat
                            /\ db.ind[s] <= db.prices[s] /\ db.prices[s] <= today
  BY DEF DataInv, Series
<1>5. ASSUME NEW s \in Members
      PROVE  /\ prices[s] \in Nat /\ db.prices[s] <= prices[s] /\ prices[s] <= today
             /\ ind[s] \in Nat /\ db.ind[s] <= ind[s] /\ ind[s] <= prices[s]
  <2>1. prices[s] \in Nat /\ db.prices[s] <= prices[s] /\ prices[s] <= today
    BY <1>3, <1>4 DEF Newest
  <2>2. ind[s] \in Nat /\ db.ind[s] <= ind[s] /\ ind[s] <= db.prices[s]
    BY <1>3, <1>4 DEF Newest
  <2>. QED BY <1>4, <2>1, <2>2
<1>6. prices \in [Members -> Nat] /\ ind \in [Members -> Nat]
  BY <1>5
<1>. HIDE DEF prices, ind
<1>. QED BY <1>2, <1>5, <1>6 DEF Forward

LEMMA CommittedData ==
  ASSUME JobRunsInv, DataInv, NEW t \in Threads, Commit(t)
  PROVE  DataInv'
<1>. DEFINE h == call[t]  w == call[t].w
<1>1. /\ h.pc = "commit" /\ db' = Applied(t) /\ UNCHANGED <<today, slot, up>>
      /\ call' = [call EXCEPT ![t].pc = "finish", ![t].w = NoWrites]
  BY DEF Commit
<1>2. /\ DOMAIN call = Threads /\ DOMAIN h = CallFields /\ Shape /\ w.checks \subseteq Checks
  BY <1>1, AtWork DEF Handled, Written
<1>3. Forward
  BY <1>1, AppliedForward
<1>4. Held \subseteq Members /\ \A c \in Checks : c.sym \in Members
  BY DailyJobsAssumption DEF Checks
<1>5. /\ db'.checks = {c \in db.checks : Key(c) \notin {Key(d) : d \in w.checks}} \cup w.checks
  BY <1>1, <1>2 DEF Applied, Shape, DbFields
<1>6. /\ OneOfAKey(w.checks) /\ \A c \in w.checks : db.ind[c.sym] > 0
      /\ OneOfAKey(db.checks) /\ \A c \in db.checks : db.ind[c.sym] > 0
  BY DEF DataInv, DataInHand, ComputedInHand, Series
<1>. HIDE DEF w
<1>7. db.checks \subseteq Checks /\ w.checks \subseteq Checks
  BY <1>2 DEF Shape, w
<1>8. \A s \in Members : db.ind[s] \in Nat /\ db'.ind[s] \in Nat /\ db.ind[s] <= db'.ind[s]
  BY <1>3 DEF Forward, DataInv, Series
<1>9. \A c \in Checks : db.ind[c.sym] > 0 => db'.ind[c.sym] > 0
  BY <1>4, <1>8
<1>10. \A c \in db'.checks : db'.ind[c.sym] > 0
  BY <1>5, <1>6, <1>7, <1>9
<1>11. \A c, d \in db'.checks : Key(c) = Key(d) => c = d
  BY <1>5, <1>6 DEF OneOfAKey
<1>12. Series'
  BY <1>1, <1>3, <1>10, <1>11 DEF Forward, Series, OneOfAKey, Key
<1>13. Days'
  BY <1>1 DEF DataInv, Days
<1>14. DataInHand(call[t])'
  <2>1. call'[t].pc = "finish" /\ call'[t].w = NoWrites
    BY <1>1, <1>2 DEF CallFields
  <2>. QED BY <2>1, NothingComputed DEF DataInHand, DatedInHand, ComputedInHand, OneOfAKey
<1>15. ASSUME NEW u \in Threads, u # t PROVE DataInHand(call[u])'
  <2>1. call'[u] = call[u] /\ DataInHand(call[u]) /\ Handled(call[u])
    BY <1>1, <1>2, <1>15 DEF DataInv, Shape
  <2>2. DatedInHand(call[u])'
    BY <1>1, <2>1 DEF DataInHand, DatedInHand
  <2>3. \A s \in Members : db.prices[s] \in Nat /\ db'.prices[s] \in Nat /\ db.prices[s] <= db'.prices[s]
    BY <1>3 DEF Forward, DataInv, Series
  <2>4. \A s \in Members : s \in DOMAIN call[u].w.ind =>
          call[u].w.ind[s] \in Nat /\ call[u].w.ind[s] <= db'.prices[s]
    BY <2>1, <2>3 DEF DataInHand, ComputedInHand
  <2>5. call[u].w.checks \subseteq Checks /\ (call[u].pc = "locked" => call[u].todo \subseteq Members)
    BY <1>4, <2>1 DEF Handled, Written
  <2>6. \A c \in call[u].w.checks : db'.ind[c.sym] > 0
    BY <1>9, <2>1, <2>5 DEF DataInHand, ComputedInHand
  <2>7. call[u].pc = "locked" => \A s \in call[u].todo : db'.ind[s] > 0
    BY <1>8, <2>1, <2>5 DEF DataInHand, ComputedInHand
  <2>8. \A c, d \in call[u].w.checks : Key(c) = Key(d) => c = d
    BY <2>1 DEF DataInHand, ComputedInHand, OneOfAKey
  <2>9. ComputedInHand(call[u])'
    BY <2>1, <2>4, <2>6, <2>7, <2>8 DEF ComputedInHand, OneOfAKey, Key
  <2>. QED BY <2>2, <2>9 DEF DataInHand
<1>. QED BY <1>12, <1>13, <1>14, <1>15 DEF DataInv

LEMMA DataInvNext == JobRunsInv /\ DataInv /\ [JobsNext]_jobsVars => DataInv'
<1>. SUFFICES ASSUME JobRunsInv, DataInv, [JobsNext]_jobsVars PROVE DataInv'
  OBVIOUS
<1>1. ASSUME NEW t \in Threads, Step(t) PROVE DataInv'
  <2>1. CASE Collect(t) \/ CalculateIndicators(t) \/ UpdateDerived(t)
    BY <2>1, CollectData, CollectSteps, CalculateIndicatorsSteps, UpdateDerivedSteps, WorkData
  <2>2. CASE SendRecommendations(t) \/ SendHoldingReport(t) \/ SendAlert(t)
    BY <2>2, MessageData, SendRecommendationsSteps, SendHoldingReportSteps, SendAlertSteps, WorkData
  <2>3. CASE RunHoldingCheck(t) \/ CheckUnlocked(t)
    BY <2>3, CheckData, RunHoldingCheckSteps, CheckUnlockedSteps, WorkData
  <2>4. CASE PlanAlerts(t) \/ AlertsDone(t)
    BY <2>4, PlannedData, PlanAlertsSteps, AlertsDoneSteps, WorkData
  <2>5. CASE Raise(t)
    BY <2>5, RaisedData, RaiseSteps, WorkData
  <2>6. CASE Commit(t)
    BY <2>6, CommittedData
  <2>7. CASE WriteFails(t) \/ Finish(t)
    BY <2>7, OutsideData
  <2>. QED BY <1>1, <2>1, <2>2, <2>3, <2>4, <2>5, <2>6, <2>7 DEF Step
<1>2. CASE Fire \/ Missed \/ NextMorning \/ Start \/ Crash(Pool) \/ Crash(Shell)
           \/ \E t \in Threads, job \in Jobs : RunByHand(t, job)
  BY <1>2, OutsideData
<1>3. CASE UNCHANGED jobsVars
  BY <1>3 DEF jobsVars, DataInv, Days, Series, DataInHand, DatedInHand, ComputedInHand, OneOfAKey, Key
<1>. QED BY <1>1, <1>2, <1>3 DEF JobsNext

(***************************************************************************)
(* The shape of the tables, for any number of days, threads and faults.    *)
(* Jobs of two days may overlap, and each writes what it has read before   *)
(* the other's commit: indicators are still never ahead of the prices they *)
(* come from, a check never of its indicators, a day has one check of a    *)
(* kind for a holding, and every run and every row of the log is on        *)
(* record.                                                                 *)
(***************************************************************************)
THEOREM JobsShape == JobsSpec => []JobsTypeOK
<1>1. JobRunsInv /\ DataInv => JobsTypeOK
  <2>. SUFFICES ASSUME JobRunsInv, DataInv PROVE JobsTypeOK
    OBVIOUS
  <2>1. /\ today \in 1..LastDay /\ slot \in 1..(Len(Timetable) + 1) /\ up \in BOOLEAN
        /\ LastDay \in Nat /\ today <= LastDay /\ today \in Nat
    BY DailyJobsAssumption DEF DataInv, Days
  <2>2. \A i \in DOMAIN jobRuns :
          /\ jobRuns[i].job \in Jobs
          /\ jobRuns[i].status \in {"RUNNING", "SUCCESS", "PARTIAL", "FAILED"}
    BY RunsAre DEF JobRunsInv, Runs
  <2>3. \A t \in Threads : call[t].pc = "idle" \/ call[t].run \in DOMAIN jobRuns
    BY DEF JobRunsInv, Honest, Owns
  <2>4. \A s \in Members : /\ db.prices[s] \in Nat /\ db.ind[s] \in Nat
                           /\ db.ind[s] <= db.prices[s] /\ db.prices[s] <= today
    BY DEF DataInv, Series
  <2>5. \A s \in Members : db.prices[s] \in 0..LastDay /\ db.ind[s] \in 0..LastDay
    BY <2>1, <2>4
  <2>6. db.prices \in [Members -> 0..LastDay] /\ db.ind \in [Members -> 0..LastDay]
    BY <2>5 DEF DataInv, Series
  <2>7. \A c, d \in db.checks : Key(c) = Key(d) => c = d
    BY DEF DataInv, Series, OneOfAKey
  <2>8. \A i \in DOMAIN db.logs : db.logs[i].run \in 0..Len(jobRuns)
    <3>1. DOMAIN jobRuns = 1..Len(jobRuns) /\ Len(jobRuns) \in Nat
      BY DEF JobRunsInv, Shape
    <3>. QED BY <3>1 DEF JobRunsInv, LogsAreSafe
  <2>9. \A c \in db.checks : c.sym \in Members
    BY DailyJobsAssumption DEF JobRunsInv, Shape, Checks
  <2>10. \A c \in db.checks : db.ind[c.sym] > 0 /\ db.prices[c.sym] <= today
    BY <2>4, <2>9 DEF DataInv, Series
  <2>. QED BY <2>1, <2>2, <2>3, <2>4, <2>6, <2>7, <2>8, <2>10 DEF JobsTypeOK
<1>. QED BY <1>1, DataInvInit, DataInvNext, RunsInvAlways, PTL DEF JobsSpec

----
(***************************************************************************)
(* No call is held up.  The steps of a call lead to its end, and who waits *)
(* for rows waits for a call that can go on.                               *)
(***************************************************************************)
Stage == [idle |-> 0, finish |-> 1, commit |-> 2, alerts |-> 3, plan |-> 4, report |-> 5,
          locked |-> 6, work |-> 7]

\* A later stage of the job, or one alert less to send.
Onward(c, d) ==
  \/ Stage[d.pc] < Stage[c.pc]
  \/ c.pc = "alerts" /\ d.pc = "alerts" /\ \E tg \in c.todo : d.todo = c.todo \ {tg}

StaysFinite(c, d) == IsFiniteSet(c.todo) => IsFiniteSet(d.todo)

LEMMA StagesAre ==
  /\ Stage["idle"] = 0 /\ Stage["finish"] = 1 /\ Stage["commit"] = 2 /\ Stage["alerts"] = 3
  /\ Stage["plan"] = 4 /\ Stage["report"] = 5 /\ Stage["locked"] = 6 /\ Stage["work"] = 7
BY DEF Stage

LEMMA RestIsLast ==
  \A c : c.pc \in {"finish", "commit", "alerts", "plan", "report", "locked", "work"} =>
           Onward(c, AtRest) /\ StaysFinite(c, AtRest)
<1>1. AtRest.pc = "idle" /\ AtRest.todo = {}
  BY DEF AtRest
<1>. QED BY <1>1, StagesAre, FS_EmptySet DEF Onward, StaysFinite

LEMMA ReturnedOnward ==
  ASSUME JobRunsInv, NEW t \in Threads, call[t].pc = "work", NEW writes, NEW result,
         Return(t, writes, result)
  PROVE  Onward(call[t], call'[t]) /\ StaysFinite(call[t], call'[t])
<1>1. DOMAIN call = Threads /\ DOMAIN call[t] = CallFields
  BY AtWork DEF InWork, Working
<1>2. call'[t].pc = "commit" /\ call'[t].todo = call[t].todo
  BY <1>1 DEF Return, CallFields
<1>. QED BY <1>2, StagesAre DEF Onward, StaysFinite

LEMMA SentOnward ==
  ASSUME NEW t \in Threads, DOMAIN call = Threads, NEW tg, NEW o, NEW then,
         DOMAIN then = CallFields, Send(t, tg, o, then)
  PROVE  call'[t].pc = then.pc /\ call'[t].todo = then.todo
BY DEF Send, CallFields

LEMMA WorkOnward ==
  ASSUME JobRunsInv, NEW t \in Threads,
         Collect(t) \/ CalculateIndicators(t) \/ UpdateDerived(t) \/ SendRecommendations(t)
  PROVE  Onward(call[t], call'[t]) /\ StaysFinite(call[t], call'[t])
<1>1. call[t].pc = "work"
  BY DEF Collect, CalculateIndicators, UpdateDerived, SendRecommendations, Work
<1>2. ASSUME NEW writes, NEW result, Return(t, writes, result)
      PROVE  Onward(call[t], call'[t]) /\ StaysFinite(call[t], call'[t])
  BY <1>1, <1>2, ReturnedOnward
<1>3. CASE Collect(t)
  BY <1>2, <1>3 DEF Collect
<1>4. CASE CalculateIndicators(t)
  <2>1. CASE ~db.ranked
    BY <1>2, <1>4, <2>1 DEF CalculateIndicators
  <2>2. CASE db.ranked
    BY <1>2, <1>4, <2>2 DEF CalculateIndicators
  <2>. QED BY <2>1, <2>2
<1>5. CASE UpdateDerived(t)
  BY <1>2, <1>5 DEF UpdateDerived
<1>6. CASE SendRecommendations(t)
  <2>1. ASSUME NEW o \in Outcomes,
               Send(t, Report("report", 0), o,
                  [call[t] EXCEPT !.pc = "commit", !.result = Reported(o, FALSE),
                                  !.w.sent = (o.status = "SUCCESS")])
        PROVE  Onward(call[t], call'[t]) /\ StaysFinite(call[t], call'[t])
    <3>. DEFINE then == [call[t] EXCEPT !.pc = "commit", !.result = Reported(o, FALSE),
                                        !.w.sent = (o.status = "SUCCESS")]
    <3>1. DOMAIN call = Threads /\ DOMAIN call[t] = CallFields
      BY <1>1, AtWork DEF InWork, Working
    <3>2. DOMAIN then = CallFields /\ then.pc = "commit" /\ then.todo = call[t].todo
      BY <3>1 DEF CallFields
    <3>3. Send(t, Report("report", 0), o, then)
      BY <2>1
    <3>. HIDE DEF then
    <3>4. call'[t].pc = "commit" /\ call'[t].todo = call[t].todo
      BY <3>1, <3>2, <3>3, SentOnward
    <3>. QED BY <1>1, <3>4, StagesAre DEF Onward, StaysFinite
  <2>. QED BY <1>2, <1>6, <2>1 DEF SendRecommendations
<1>. QED BY <1>3, <1>4, <1>5, <1>6

LEMMA CheckOnward ==
  ASSUME JobRunsInv, NEW t \in Threads, RunHoldingCheck(t) \/ CheckUnlocked(t)
  PROVE  Onward(call[t], call'[t]) /\ StaysFinite(call[t], call'[t])
<1>1. /\ call[t].pc \in {"work", "locked"} /\ DOMAIN call = Threads /\ DOMAIN call[t] = CallFields
      /\ db.held \subseteq Held
  BY AtWork DEF RunHoldingCheck, CheckUnlocked, InWork, Working, Shape
<1>2. IsFiniteSet(Checkable)
  BY <1>1, HoldingsAreFew, FS_Subset DEF Checkable
<1>3. CASE RunHoldingCheck(t)
  <2>1. call[t].pc = "work"
    BY <1>3 DEF RunHoldingCheck
  <2>2. CASE Return(t, NoWrites, "SUCCESS")
    BY <2>1, <2>2, ReturnedOnward
  <2>3. ASSUME NEW w, call' = [call EXCEPT ![t].pc = "report", ![t].w = w]
        PROVE  Onward(call[t], call'[t]) /\ StaysFinite(call[t], call'[t])
    <3>1. call'[t].pc = "report" /\ call'[t].todo = call[t].todo
      BY <1>1, <2>3 DEF CallFields
    <3>. QED BY <2>1, <3>1, StagesAre DEF Onward, StaysFinite
  <2>4. ASSUME NEW fresh, call' = [call EXCEPT ![t].pc = "locked", ![t].todo = Checkable, ![t].fresh = fresh]
        PROVE  Onward(call[t], call'[t]) /\ StaysFinite(call[t], call'[t])
    <3>1. call'[t].pc = "locked" /\ call'[t].todo = Checkable
      BY <1>1, <2>4 DEF CallFields
    <3>. QED BY <1>2, <2>1, <3>1, StagesAre DEF Onward, StaysFinite
  <2>. QED BY <1>3, <2>2, <2>3, <2>4 DEF RunHoldingCheck
<1>4. CASE CheckUnlocked(t)
  <2>1. PICK w : call' = [call EXCEPT ![t].pc = "report", ![t].todo = {}, ![t].fresh = {}, ![t].w = w]
    BY <1>4 DEF CheckUnlocked
  <2>2. call[t].pc = "locked" /\ call'[t].pc = "report" /\ call'[t].todo = {}
    BY <1>1, <1>4, <2>1 DEF CheckUnlocked, CallFields
  <2>. QED BY <2>2, StagesAre, FS_EmptySet DEF Onward, StaysFinite
<1>. QED BY <1>3, <1>4

\* The alerts of a check are at most three for each holding.
LEMMA FewAlerts ==
  ASSUME JobRunsInv, NEW t \in Threads, PlanAlerts(t)
  PROVE  IsFiniteSet(call'[t].todo)
<1>. DEFINE about(level) == {Target(call[t].job, call[t].day, s, level) : s \in Held}
            wanted == {Target(c.type, c.day, c.sym, c.level) :
                         c \in {d \in Current(t) : d.level # "NONE"}}
<1>1. ASSUME NEW level PROVE IsFiniteSet(about(level))
  <2>. DEFINE T == about(level)
              k == [s \in Held |-> Target(call[t].job, call[t].day, s, level)]
  <2>1. k \in Surjection(Held, T)
    BY DEF Surjection
  <2>. HIDE DEF T, k
  <2>2. IsFiniteSet(T)
    BY <2>1, HoldingsAreFew, FS_Surjection
  <2>. QED BY <2>2 DEF T
<1>2. IsFiniteSet(about("HIGH_RISK") \cup about("CHECK_ALERT") \cup about("NONE"))
  BY <1>1, FS_Union
<1>3. Shape /\ Handled(call[t])
  BY AtWork DEF PlanAlerts, InWork, Working
<1>4. ASSUME NEW c \in Current(t) PROVE Target(c.type, c.day, c.sym, c.level) \in about(c.level)
  <2>1. c \in Checks /\ c.day = call[t].day /\ c.type = call[t].job
    BY <1>3 DEF Current, ChecksOf, Shape, Handled, Written
  <2>2. c.sym \in Held
    BY <2>1 DEF Checks
  <2>. QED BY <2>1, <2>2
<1>5. \A c \in Current(t) : c.level \in Levels
  BY <1>3 DEF Current, ChecksOf, Shape, Handled, Written, Checks
<1>6. call'[t].todo = wanted \ Listed(t)
  BY PlanAlertsSteps
<1>. HIDE DEF about
<1>7. wanted \subseteq about("HIGH_RISK") \cup about("CHECK_ALERT") \cup about("NONE")
  BY <1>4, <1>5 DEF Levels
<1>. HIDE DEF wanted
<1>8. call'[t].todo \subseteq about("HIGH_RISK") \cup about("CHECK_ALERT") \cup about("NONE")
  BY <1>6, <1>7
<1>. QED BY <1>2, <1>8, FS_Subset

LEMMA AlertsOnward ==
  ASSUME JobRunsInv, NEW t \in Threads,
         SendHoldingReport(t) \/ PlanAlerts(t) \/ SendAlert(t) \/ AlertsDone(t)
  PROVE  Onward(call[t], call'[t]) /\ StaysFinite(call[t], call'[t])
<1>1. CASE SendHoldingReport(t)
  <2>1. DOMAIN call = Threads /\ DOMAIN call[t] = CallFields
    BY <1>1, AtWork DEF SendHoldingReport, InWork, Working
  <2>2. PICK o \in Outcomes : Send(t, Report(call[t].job, call[t].day), o,
            [call[t] EXCEPT !.pc = "plan",
               !.result = Reported(o, {c.sym : c \in call[t].w.checks} # db.held)])
    BY <1>1 DEF SendHoldingReport
  <2>. DEFINE then == [call[t] EXCEPT !.pc = "plan",
                         !.result = Reported(o, {c.sym : c \in call[t].w.checks} # db.held)]
  <2>3. DOMAIN then = CallFields /\ then.pc = "plan" /\ then.todo = call[t].todo
    BY <2>1 DEF CallFields
  <2>4. Send(t, Report(call[t].job, call[t].day), o, then)
    BY <2>2
  <2>. HIDE DEF then
  <2>5. call'[t].pc = "plan" /\ call'[t].todo = call[t].todo
    BY <2>1, <2>3, <2>4, SentOnward
  <2>6. call[t].pc = "report"
    BY <1>1 DEF SendHoldingReport
  <2>. QED BY <2>5, <2>6, StagesAre DEF Onward, StaysFinite
<1>2. CASE PlanAlerts(t)
  BY <1>2, PlanAlertsSteps, FewAlerts, StagesAre DEF Onward, StaysFinite
<1>3. CASE SendAlert(t)
  <2>1. /\ call[t].pc = "alerts" /\ call'[t].pc = "alerts"
        /\ \E tg \in call[t].todo : call'[t].todo = call[t].todo \ {tg}
    BY <1>3, SendAlertSteps
  <2>2. call'[t].todo \subseteq call[t].todo
    BY <2>1
  <2>. QED BY <2>1, <2>2, FS_Subset DEF Onward, StaysFinite
<1>4. CASE AlertsDone(t)
  <2>1. DOMAIN call = Threads /\ DOMAIN call[t] = CallFields
    BY <1>4, AtWork DEF AlertsDone, InWork, Working
  <2>2. call[t].pc = "alerts" /\ call'[t].pc = "commit" /\ call'[t].todo = call[t].todo
    BY <1>4, <2>1 DEF AlertsDone, CallFields
  <2>. QED BY <2>2, StagesAre DEF Onward, StaysFinite
<1>. QED BY <1>1, <1>2, <1>3, <1>4

LEMMA EndOnward ==
  ASSUME JobRunsInv, NEW t \in Threads, Raise(t) \/ Commit(t) \/ WriteFails(t) \/ Finish(t)
  PROVE  Onward(call[t], call'[t]) /\ StaysFinite(call[t], call'[t])
<1>0. /\ DOMAIN call = Threads /\ DOMAIN call[t] = CallFields
      /\ call[t].pc \in InWork \cup {"commit", "finish"}
  BY AtWork DEF Raise, Commit, WriteFails, Finish, InWork
<1>1. CASE Raise(t)
  <2>1. call[t].pc \in InWork
    BY <1>1 DEF Raise, InWork
  <2>2. call'[t] = [AtRest EXCEPT !.pc = "finish", !.run = call[t].run,
                                  !.job = call[t].job, !.result = "FAILED"]
    BY <1>0, <1>1 DEF Raise
  <2>3. call'[t].pc = "finish" /\ call'[t].todo = {}
    BY <2>2 DEF AtRest
  <2>. QED BY <2>1, <2>3, StagesAre, FS_EmptySet DEF InWork, Working, Onward, StaysFinite
<1>2. CASE Commit(t)
  <2>1. call[t].pc = "commit" /\ call'[t].pc = "finish" /\ call'[t].todo = call[t].todo
    BY <1>0, <1>2 DEF Commit, CallFields
  <2>. QED BY <2>1, StagesAre DEF Onward, StaysFinite
<1>3. CASE WriteFails(t) \/ Finish(t)
  <2>1. call[t].pc \in {"commit", "finish"} /\ call'[t] = AtRest
    BY <1>0, <1>3 DEF WriteFails, Finish
  <2>. QED BY <2>1, RestIsLast
<1>. QED BY <1>1, <1>2, <1>3

LEMMA StepOnward ==
  ASSUME JobRunsInv, NEW t \in Threads, Step(t)
  PROVE  /\ Onward(call[t], call'[t]) /\ StaysFinite(call[t], call'[t])
         /\ \A u \in Threads \ {t} : call'[u] = call[u]
<1>1. CASE Raise(t) \/ Commit(t) \/ WriteFails(t) \/ Finish(t)
  <2>1. DOMAIN call = Threads
    BY DEF JobRunsInv, Shape
  <2>2. \A u \in Threads \ {t} : call'[u] = call[u]
    BY <1>1, <2>1 DEF Raise, Commit, WriteFails, Finish
  <2>. QED BY <1>1, <2>2, EndOnward
<1>2. CASE Collect(t) \/ CalculateIndicators(t) \/ UpdateDerived(t) \/ SendRecommendations(t)
  <2>1. Others(t)
    BY <1>2, CollectSteps, CalculateIndicatorsSteps, UpdateDerivedSteps, SendRecommendationsSteps DEF WorkStep
  <2>. QED BY <1>2, <2>1, WorkOnward DEF Others
<1>3. CASE RunHoldingCheck(t) \/ CheckUnlocked(t)
  <2>1. Others(t)
    BY <1>3, RunHoldingCheckSteps, CheckUnlockedSteps DEF WorkStep
  <2>. QED BY <1>3, <2>1, CheckOnward DEF Others
<1>4. CASE SendHoldingReport(t) \/ PlanAlerts(t) \/ SendAlert(t) \/ AlertsDone(t)
  <2>1. Others(t)
    BY <1>4, SendHoldingReportSteps, PlanAlertsSteps, SendAlertSteps, AlertsDoneSteps DEF WorkStep
  <2>. QED BY <1>4, <2>1, AlertsOnward DEF Others
<1>. QED BY <1>1, <1>2, <1>3, <1>4 DEF Step

FewToDo == \A t \in Threads : IsFiniteSet(call[t].todo)

NewOrOnward ==
  \A t \in Threads : call'[t] # call[t] /\ call[t].pc # "idle" => Onward(call[t], call'[t])

LEMMA AllOnward ==
  ASSUME JobRunsInv, FewToDo, [JobsNext]_jobsVars
  PROVE  FewToDo' /\ NewOrOnward
<1>1. DOMAIN call = Threads /\ \A t \in Threads : Handled(call[t])
  BY DEF JobRunsInv, Shape
<1>2. ASSUME NEW t \in Threads, Step(t) PROVE FewToDo' /\ NewOrOnward
  <2>1. Onward(call[t], call'[t]) /\ IsFiniteSet(call'[t].todo)
    BY <1>2, StepOnward DEF FewToDo, StaysFinite
  <2>2. \A u \in Threads \ {t} : call'[u] = call[u]
    BY <1>2, StepOnward
  <2>. QED BY <2>1, <2>2 DEF FewToDo, NewOrOnward
<1>3. ASSUME NEW t \in Threads, NEW job, Begin(t, job) PROVE FewToDo' /\ NewOrOnward
  <2>1. /\ call[t].pc = "idle" /\ call'[t].todo = {}
        /\ \A u \in Threads \ {t} : call'[u] = call[u]
    BY <1>1, <1>3 DEF Begin, AtRest
  <2>. QED BY <2>1, FS_EmptySet DEF FewToDo, NewOrOnward
<1>4. ASSUME \A t \in Threads : call'[t] \in {call[t], AtRest} PROVE FewToDo' /\ NewOrOnward
  <2>1. \A t \in Threads :
          call[t].pc \in {"idle", "work", "locked", "report", "plan", "alerts", "commit", "finish"}
    BY <1>1 DEF Handled
  <2>2. AtRest.todo = {}
    BY DEF AtRest
  <2>. QED BY <1>4, <2>1, <2>2, RestIsLast, FS_EmptySet DEF FewToDo, NewOrOnward
<1>5. CASE Missed \/ NextMorning \/ Start \/ UNCHANGED jobsVars
  BY <1>4, <1>5 DEF Missed, NextMorning, Start, jobsVars
<1>6. CASE Crash(Pool) \/ Crash(Shell)
  BY <1>4, <1>6 DEF Crash
<1>7. CASE Fire
  BY <1>3, <1>7 DEF Fire, Threads
<1>8. ASSUME NEW t \in Threads, NEW job \in Jobs, RunByHand(t, job) PROVE FewToDo' /\ NewOrOnward
  BY <1>3, <1>8 DEF RunByHand
<1>. QED BY <1>2, <1>5, <1>6, <1>7, <1>8 DEF JobsNext

\* Every step of a call, and whatever else happens to it, brings it to a later stage
\* of its job or leaves it one alert less of finitely many to send: no retry, skipped
\* holding or failed message ever sends run_job back.  This is the safety half of
\* CallsEnd.
THEOREM CallsGoOnward ==
  JobsSpec => []FewToDo /\ [][NewOrOnward]_jobsVars
<1>1. JobsInit => FewToDo
  <2>1. JobsInit => \A t \in Threads : call[t] = AtRest
    BY DEF JobsInit
  <2>2. IsFiniteSet(AtRest.todo)
    BY FS_EmptySet DEF AtRest
  <2>. QED BY <2>1, <2>2 DEF FewToDo
<1>2. JobRunsInv /\ FewToDo /\ [JobsNext]_jobsVars => FewToDo' /\ [NewOrOnward]_jobsVars
  BY AllOnward
<1>. QED BY <1>1, <1>2, RunsInvAlways, PTL DEF JobsSpec

\* Who waits for the rows of another call waits for one that has written its rows and
\* goes on to its commit without waiting itself: no two calls wait for each other,
\* and no chain of waiting calls is longer than one.
THEOREM WaitersWaitForWorkers ==
  JobsSpec =>
    [](\A t, u \in Threads : call[t].pc = "locked" /\ u \in WaitsFor(t, call[t].todo) =>
         call[u].pc \in {"report", "plan", "alerts", "commit"})
<1>1. JobRunsInv =>
        \A t, u \in Threads : call[t].pc = "locked" /\ u \in WaitsFor(t, call[t].todo) =>
          call[u].pc \in {"report", "plan", "alerts", "commit"}
  <2>. SUFFICES ASSUME JobRunsInv, NEW t \in Threads, NEW u \in Threads,
                       u \in WaitsFor(t, call[t].todo)
                PROVE  call[u].pc \in {"report", "plan", "alerts", "commit"}
    OBVIOUS
  <2>1. call[u].w.checks # {}
    BY DEF WaitsFor
  <2>2. Handled(call[u])
    BY DEF JobRunsInv, Shape
  <2>. QED BY <2>1, <2>2, EmptyHands DEF Handled
<1>. QED BY <1>1, RunsInvAlways, PTL

----
(***************************************************************************)
(* The parts of the day side by side.                                      *)
(***************************************************************************)
\* Whatever the jobs, the collection, the engines, the producers and the imports
\* of a day do, and in whatever order they do it, every table keeps its shape and
\* every score stays on its scale, however the producers are nested.
THEOREM DailyWorkKeepsItsShape ==
  DailySpec => [](DailyTypeOK /\ NestingDoesNotMatter /\ ScoresStayOnScale)
<1>1. /\ JobsTypeOK /\ MDTypeOK /\ DDTypeOK /\ BTTypeOK /\ EVTypeOK /\ ImportsTypeOK
      /\ NestingDoesNotMatter /\ ScoresStayOnScale
      => DailyTypeOK
  BY DEF DailyTypeOK
<1>. QED
  BY <1>1, JobsShape, TokensStayFresh, EnginesGoOn, TablesKeepTheirShape,
     BacktestsKeepTheirShape, EvidenceStaysOnScale, ImportsKeepTheirShape, PTL DEF DailySpec
====
