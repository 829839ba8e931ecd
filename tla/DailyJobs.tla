---- MODULE DailyJobs ----
(***************************************************************************)
(* The scheduled jobs: run_job of app/scheduler/jobs.py (a job_runs row in *)
(* one transaction, the work in another), the jobs that collect prices,    *)
(* compute indicators, check holdings and send reports, the notification   *)
(* path behind them, and the timetable of app/scheduler/scheduler.py.  A   *)
(* job may be run by the scheduler's pool and by an operator's shell at    *)
(* the same time.  The paper jobs are in PaperBroker, the expiry sweep in  *)
(* ApprovalWorkflow.                                                       *)
(***************************************************************************)
EXTENDS Integers, Sequences, FiniteSets, SequencesExt

CONSTANTS
  Members,         \* the universe of the market-cap ranking
  Held,            \* the symbols with an active holding
  Pool,            \* threads of the server's scheduler
  Shell,           \* threads of an operator's shell
  Timetable,       \* jobs in the order of the day (DEFAULT_SCHEDULE)
  Telegrams,       \* settings to start from: "on", "off", "nocreds"
  ListLimit,       \* rows BaseRepository.list() returns at most
  RiskLevels,      \* what the risk engine may say of a holding
  HandRun,         \* jobs the operator runs
  LastDay, MaxRuns, MaxFaults  \* bounds of the exploration

Threads == Pool \cup Shell
CheckJobs == {"pre_market", "post_market"}
DerivedJobs == {"consensus", "news", "disclosures"}
Jobs == {"collect", "indicators", "report"} \cup CheckJobs \cup DerivedJobs

ASSUME DailyJobsAssumption ==
  /\ Held \subseteq Members
  /\ IsFiniteSet(Pool) /\ IsFiniteSet(Shell) /\ Pool \cap Shell = {}
  /\ Timetable \in Seq(Jobs) /\ Telegrams \subseteq {"on", "off", "nocreds"}
  /\ RiskLevels \subseteq {"HIGH_RISK", "CHECK_ALERT", "NONE"}
  /\ ListLimit \in Nat /\ LastDay \in Nat \ {0} /\ MaxRuns \in Nat
\* The holdings are the rows of a table.
ASSUME HoldingsAreFew == IsFiniteSet(Held)

\* What a message is about: the recommendation report, a holding report or one
\* alert.  The alert's level is part of its target.
Target(kind, date, sym, level) == [kind |-> kind, day |-> date, sym |-> sym, level |-> level]
Report(job, date) == Target(job, date, "-", "-")
IsAlert(tg) == tg.level # "-"

VARIABLES
  today, slot,     \* the calendar and the next entry of the timetable
  up,              \* the server process runs
  jobRuns,         \* job_runs, in order of job_id
  call,            \* what each thread has in hand
  db,              \* the committed tables
  telegram,        \* the Telegram settings
  delivered,       \* messages that reached the chat (bag over targets)
  crashes, writeErrors

jobsVars == <<today, slot, up, jobRuns, call, db, telegram, delivered, crashes, writeErrors>>

NoWrites == [ranked |-> FALSE, prices |-> {}, ind |-> <<>>, checks |-> {},
             logs |-> <<>>, sent |-> FALSE, derived |-> {}]
AtRest == [pc |-> "idle", job |-> "-", run |-> 0, day |-> 0, todo |-> {}, fresh |-> {},
         w |-> NoWrites, result |-> "-"]

\* A database with holdings and nothing else in it, two that earlier days have
\* filled, with and without a message on record, and one without holdings.
EarlierLog == [target |-> Report("report", 0), status |-> "DRY_RUN", run |-> 0]
Database(some, logs, held) ==
  [ranked |-> some, prices |-> [s \in Members |-> IF some THEN 1 ELSE 0],
   ind |-> [s \in Members |-> IF some THEN 1 ELSE 0], checks |-> {}, logs |-> logs,
   recommended |-> some, held |-> held, sent |-> FALSE, derived |-> [j \in DerivedJobs |-> 0]]
Databases == {Database(FALSE, <<>>, Held), Database(TRUE, <<EarlierLog>>, Held),
              Database(TRUE, <<>>, Held), Database(TRUE, <<>>, {})}

JobsInit ==
  /\ today = 1 /\ slot \in DOMAIN Timetable /\ up = TRUE
  /\ jobRuns = <<>>
  /\ call = [t \in Threads |-> AtRest]
  /\ db \in Databases
  /\ telegram \in Telegrams
  /\ delivered = <<>>
  /\ crashes = 0 /\ writeErrors = 0

----
\* The insert of the RUNNING row, in a transaction of its own.
Begin(t, job) ==
  /\ call[t].pc = "idle" /\ Len(jobRuns) < MaxRuns
  /\ jobRuns' = Append(jobRuns, [job |-> job, day |-> today, status |-> "RUNNING"])
  /\ call' = [call EXCEPT ![t] = [AtRest EXCEPT !.pc = "work", !.job = job, !.day = today,
                                              !.run = Len(jobRuns) + 1]]

\* The scheduler reaches an entry.  A job whose last instance still runs is
\* skipped (max_instances), and so is every entry that passes while the
\* process is down: the job store is in memory.
Fire ==
  /\ up /\ slot <= Len(Timetable)
  /\ \E t \in Pool : Begin(t, Timetable[slot])
  /\ \A t \in Pool : call[t].pc # "idle" => call[t].job # Timetable[slot]
  /\ slot' = slot + 1
  /\ UNCHANGED <<today, up, db, telegram, delivered, crashes, writeErrors>>

Missed ==
  /\ slot <= Len(Timetable)
  /\ ~up \/ \E t \in Pool : call[t].pc # "idle" /\ call[t].job = Timetable[slot]
  /\ slot' = slot + 1
  /\ UNCHANGED <<today, up, jobRuns, call, db, telegram, delivered, crashes, writeErrors>>

NextMorning ==
  /\ slot > Len(Timetable) /\ today < LastDay
  /\ today' = today + 1 /\ slot' = 1
  /\ UNCHANGED <<up, jobRuns, call, db, telegram, delivered, crashes, writeErrors>>

RunByHand(t, job) ==
  /\ t \in Shell /\ job \in HandRun /\ Begin(t, job)
  /\ UNCHANGED <<today, slot, up, db, telegram, delivered, crashes, writeErrors>>

\* A step of the work: only the thread's record and the chat change.
Work(t, pc, job) == call[t].pc = pc /\ call[t].job = job
Unwritten == UNCHANGED <<today, slot, up, jobRuns, db, telegram, crashes, writeErrors>>
Silently == Unwritten /\ UNCHANGED delivered
Return(t, writes, result) ==
  call' = [call EXCEPT ![t].pc = "commit", ![t].w = writes, ![t].result = result]

\* FAILED if nothing succeeded, PARTIAL if something is missing.
Verdict(ok, failed, skipped) ==
  IF failed # {} /\ ok = {} THEN "FAILED"
  ELSE IF failed \cup skipped # {} THEN "PARTIAL" ELSE "SUCCESS"

\* collect_market_close_data: without a ranking it returns FAILED, which is
\* committed like any result; then each symbol succeeds or fails on its own.
Collect(t) ==
  /\ Work(t, "work", "collect")
  /\ \/ Return(t, NoWrites, "FAILED")
     \/ \E ok \in SUBSET Members :
          Return(t, [NoWrites EXCEPT !.ranked = TRUE, !.prices = ok],
                 Verdict(ok, Members \ ok, {}))
  /\ Silently

\* calculate_technical_indicators: from the committed prices.
CalculateIndicators(t) ==
  /\ Work(t, "work", "indicators")
  /\ IF ~db.ranked THEN Return(t, NoWrites, "SUCCESS")
     ELSE LET priced == {s \in Members : db.prices[s] > 0} IN
          \E ok \in SUBSET priced :
            Return(t, [NoWrites EXCEPT !.ind = [s \in ok |-> db.prices[s]]],
                   Verdict(ok, priced \ ok, Members \ priced))
  /\ Silently

\* The jobs that rebuild a table of their own: off, without data or done.
UpdateDerived(t) ==
  /\ call[t].pc = "work" /\ call[t].job \in DerivedJobs
  /\ \E done \in BOOLEAN :
       Return(t, [NoWrites EXCEPT !.derived = IF done THEN {call[t].job} ELSE {}], "SUCCESS")
  /\ Silently

----
\* TelegramNotifier.send: a timeout is FAILED whether or not the message went.
Outcomes ==
  CASE telegram = "off"     -> {[status |-> "DRY_RUN", arrives |-> FALSE]}
    [] telegram = "nocreds" -> {[status |-> "DISABLED", arrives |-> FALSE]}
    [] telegram = "on"      -> {[status |-> "SUCCESS", arrives |-> TRUE],
                                [status |-> "FAILED", arrives |-> TRUE],
                                [status |-> "FAILED", arrives |-> FALSE]}

Arrivals(tg) == IF tg \in DOMAIN delivered THEN delivered[tg] ELSE 0

\* Mutant: only a successful send is logged.
SendLoggingSuccess(t, tg, outcome, then) ==
  LET log == [target |-> tg, status |-> outcome.status, run |-> call[t].run] IN
  /\ call' = [call EXCEPT ![t] = [then EXCEPT !.w.logs = IF outcome.status = "SUCCESS" THEN Append(@, log) ELSE @]]
  /\ delivered' = IF outcome.arrives
                  THEN [x \in DOMAIN delivered \cup {tg} |->
                          Arrivals(x) + IF x = tg THEN 1 ELSE 0]
                  ELSE delivered
  /\ Unwritten

\* NotificationService.send_telegram: first the message, then its log row,
\* which belongs to the job's own transaction.
Send(t, tg, outcome, then) ==
  LET log == [target |-> tg, status |-> outcome.status, run |-> call[t].run] IN
  /\ call' = [call EXCEPT ![t] = [then EXCEPT !.w.logs = Append(@, log)]]
  /\ delivered' = IF outcome.arrives
                  THEN [x \in DOMAIN delivered \cup {tg} |->
                          Arrivals(x) + IF x = tg THEN 1 ELSE 0]
                  ELSE delivered
  /\ Unwritten

\* Mutant: a skipped holding does not count.
ReportedLoosely(outcome, skips) ==
  IF outcome.status \in {"SUCCESS", "DRY_RUN"} THEN "SUCCESS" ELSE "PARTIAL"

\* A report whose notification failed makes the run PARTIAL.
Reported(outcome, skips) ==
  IF outcome.status \in {"SUCCESS", "DRY_RUN"} /\ ~skips THEN "SUCCESS" ELSE "PARTIAL"

\* send_recommendation_report: telegram_sent is set, never consulted.
SendRecommendations(t) ==
  /\ Work(t, "work", "report")
  /\ \/ /\ ~db.recommended
        /\ Return(t, NoWrites, "SUCCESS") /\ Silently
     \/ /\ db.recommended
        /\ \E o \in Outcomes :
             Send(t, Report("report", 0), o,
                  [call[t] EXCEPT !.pc = "commit", !.result = Reported(o, FALSE),
                                  !.w.sent = (o.status = "SUCCESS")])

----
Key(c) == <<c.sym, c.day, c.type>>
ChecksOf(t) == {c \in db.checks \cup call[t].w.checks :
                  c.day = call[t].day /\ c.type = call[t].job}
Checkable == {s \in db.held : db.prices[s] > 0 /\ db.ind[s] > 0}

\* Rows of the same keys written and not yet committed by another thread.
WaitsFor(t, rows) ==
  {o \in Threads \ {t} : \E c \in call[o].w.checks :
     c.day = call[t].day /\ c.type = call[t].job /\ c.sym \in rows}

\* HoldingCheckEngine.run: a holding without price or indicator is skipped;
\* the others get the level that the risk engine finds.  The upsert looks for
\* the row first, so that two first checks of a day are both inserts.
CheckRows(t, rows, levels) ==
  [NoWrites EXCEPT !.checks = {[sym |-> s, day |-> call[t].day, type |-> call[t].job,
                                level |-> levels[s]] : s \in rows}]

RunHoldingCheck(t) ==
  /\ call[t].pc = "work" /\ call[t].job \in CheckJobs
  /\ Silently
  /\ \/ /\ db.held = {}
        /\ Return(t, NoWrites, "SUCCESS")
     \/ /\ db.held # {} /\ WaitsFor(t, Checkable) = {}
        /\ \E levels \in [Checkable -> RiskLevels] :
             call' = [call EXCEPT ![t].pc = "report", ![t].w = CheckRows(t, Checkable, levels)]
     \/ /\ WaitsFor(t, Checkable) # {}
        /\ call' = [call EXCEPT ![t].pc = "locked", ![t].todo = Checkable,
                      ![t].fresh = {s \in Checkable :
                         <<s, call[t].day, call[t].job>> \notin {Key(c) : c \in db.checks}}]

\* The lock is free: an insert meets the other's row and raises (see Raise);
\* an update goes through.
Collides(t) == \E c \in ChecksOf(t) : c.sym \in call[t].fresh
CheckUnlocked(t) ==
  /\ call[t].pc = "locked" /\ WaitsFor(t, call[t].todo) = {} /\ ~Collides(t)
  /\ \E levels \in [call[t].todo -> RiskLevels] :
       call' = [call EXCEPT ![t].pc = "report", ![t].todo = {}, ![t].fresh = {},
                            ![t].w = CheckRows(t, call[t].todo, levels)]
  /\ Silently

\* The report on all checks of the day and type.
SendHoldingReport(t) ==
  /\ call[t].pc = "report"
  /\ \E o \in Outcomes :
       Send(t, Report(call[t].job, call[t].day), o,
            [call[t] EXCEPT !.pc = "plan",
               !.result = Reported(o, {c.sym : c \in call[t].w.checks} # db.held)])

\* The row of a symbol as this transaction sees it.
Current(t) == {c \in ChecksOf(t) : c \notin call[t].w.checks =>
                 Key(c) \notin {Key(d) : d \in call[t].w.checks}}

\* Mutant: an alert that was not sent is tried again.
ListedSent(t) ==
  LET all == db.logs \o call[t].w.logs
  IN {all[i].target : i \in {n \in DOMAIN all : n <= ListLimit /\ all[n].status = "SUCCESS"}}

\* HoldingRiskAlertDispatcher.dispatch: targets among the first rows of the
\* log are not sent again, whatever their status.
Listed(t) == LET all == db.logs \o call[t].w.logs
             IN {all[i].target : i \in {n \in DOMAIN all : n <= ListLimit}}
PlanAlerts(t) ==
  /\ call[t].pc = "plan"
  /\ LET wanted == {Target(c.type, c.day, c.sym, c.level) :
                      c \in {d \in Current(t) : d.level # "NONE"}}
     IN call' = [call EXCEPT ![t].pc = "alerts", ![t].todo = wanted \ Listed(t)]
  /\ Silently

SendAlert(t) ==
  /\ call[t].pc = "alerts"
  /\ \E tg \in call[t].todo, o \in Outcomes :
       Send(t, tg, o, [call[t] EXCEPT !.todo = @ \ {tg}])

AlertsDone(t) ==
  /\ call[t].pc = "alerts" /\ call[t].todo = {}
  /\ call' = [call EXCEPT ![t].pc = "commit"]
  /\ Silently

----
\* fn raised: the work is rolled back and the run ends FAILED.
Working == {"work", "report", "plan", "alerts"}
\* Mutant: an insert that meets its row goes on waiting.
RaiseWorking(t) ==
  /\ call[t].pc \in Working
  /\ call' = [call EXCEPT ![t] = [AtRest EXCEPT !.pc = "finish", !.run = call[t].run,
                                              !.job = call[t].job, !.result = "FAILED"]]
  /\ Silently

Raise(t) ==
  /\ \/ call[t].pc \in Working
     \/ call[t].pc = "locked" /\ WaitsFor(t, call[t].todo) = {} /\ Collides(t)
  /\ call' = [call EXCEPT ![t] = [AtRest EXCEPT !.pc = "finish", !.run = call[t].run,
                                              !.job = call[t].job, !.result = "FAILED"]]
  /\ Silently

\* The rows of w replace those with the same key.  Prices and indicators have
\* a row for each date and the newest is read, so that the commit of an earlier
\* day's run does not hide a later one.
Newest(a, b) == IF a < b THEN b ELSE a
Applied(t) ==
  LET w == call[t].w IN
  [db EXCEPT
     !.ranked = @ \/ w.ranked,
     !.prices = [s \in Members |-> IF s \in w.prices THEN Newest(@[s], call[t].day) ELSE @[s]],
     !.ind = [s \in Members |-> IF s \in DOMAIN w.ind THEN Newest(@[s], w.ind[s]) ELSE @[s]],
     !.checks = {c \in @ : Key(c) \notin {Key(d) : d \in w.checks}} \cup w.checks,
     !.logs = @ \o w.logs,
     !.sent = @ \/ w.sent,
     !.derived = [j \in DerivedJobs |-> IF j \in w.derived THEN call[t].day ELSE @[j]]]

Commit(t) ==
  /\ call[t].pc = "commit"
  /\ db' = Applied(t)
  /\ call' = [call EXCEPT ![t].pc = "finish", ![t].w = NoWrites]
  /\ UNCHANGED <<today, slot, up, jobRuns, telegram, delivered, crashes, writeErrors>>

\* The commit of the work raises outside the handler: run_job is left with the
\* row still RUNNING.  So it is when the last update of the row fails.
WriteFails(t) ==
  /\ call[t].pc \in {"commit", "finish"} /\ crashes + writeErrors < MaxFaults
  /\ writeErrors' = writeErrors + 1
  /\ call' = [call EXCEPT ![t] = AtRest]
  /\ UNCHANGED <<today, slot, up, jobRuns, db, telegram, delivered, crashes>>

Finish(t) ==
  /\ call[t].pc = "finish"
  /\ jobRuns' = [jobRuns EXCEPT ![call[t].run].status = call[t].result]
  /\ call' = [call EXCEPT ![t] = AtRest]
  /\ UNCHANGED <<today, slot, up, db, telegram, delivered, crashes, writeErrors>>

\* A process dies with what its threads have in hand.
Crash(threads) ==
  /\ crashes + writeErrors < MaxFaults /\ crashes' = crashes + 1
  /\ up' = (up /\ threads # Pool)
  /\ call' = [t \in Threads |-> IF t \in threads THEN AtRest ELSE call[t]]
  /\ UNCHANGED <<today, slot, jobRuns, db, telegram, delivered, writeErrors>>

Start ==
  /\ ~up /\ up' = TRUE
  /\ UNCHANGED <<today, slot, jobRuns, call, db, telegram, delivered, crashes, writeErrors>>

Step(t) ==
  \/ Collect(t) \/ CalculateIndicators(t) \/ UpdateDerived(t) \/ SendRecommendations(t)
  \/ RunHoldingCheck(t) \/ CheckUnlocked(t) \/ SendHoldingReport(t) \/ PlanAlerts(t)
  \/ SendAlert(t) \/ AlertsDone(t) \/ Raise(t) \/ Commit(t) \/ WriteFails(t) \/ Finish(t)

JobsNext ==
  \/ Fire \/ Missed \/ NextMorning \/ Start
  \/ \E t \in Threads : Step(t) \/ \E job \in Jobs : RunByHand(t, job)
  \/ Crash(Pool) \/ Crash(Shell)

JobsSpec == JobsInit /\ [][JobsNext]_jobsVars

----
JobsTypeOK ==
  /\ today \in 1..LastDay /\ slot \in 1..(Len(Timetable) + 1) /\ up \in BOOLEAN
  /\ \A i \in DOMAIN jobRuns :
       /\ jobRuns[i].job \in Jobs
       /\ jobRuns[i].status \in {"RUNNING", "SUCCESS", "PARTIAL", "FAILED"}
  /\ \A t \in Threads : call[t].pc = "idle" \/ call[t].run \in DOMAIN jobRuns
  /\ db.prices \in [Members -> 0..LastDay] /\ db.ind \in [Members -> 0..LastDay]
  /\ \A c, d \in db.checks : Key(c) = Key(d) => c = d
  /\ \A i \in DOMAIN db.logs : db.logs[i].run \in 0..Len(jobRuns)
  \* Checks and indicators are never ahead of what they are computed from.
  /\ \A s \in Members : db.ind[s] <= db.prices[s]
  /\ \A c \in db.checks : db.ind[c.sym] > 0 /\ db.prices[c.sym] <= today

(***************************************************************************)
(* What a job wrote and what its row says agree, though they are two       *)
(* transactions: no notification of a FAILED run is on record, and a       *)
(* SUCCESS of a holding check means that every holding was checked that    *)
(* day and the report went out or was a dry run; telegram_sent is only     *)
(* true of a run whose report reached the chat and is on record.           *)
(***************************************************************************)
RunsTellWhatWasDone ==
  /\ \A i \in DOMAIN db.logs :
       db.logs[i].run # 0 => jobRuns[db.logs[i].run].status # "FAILED"
  /\ \A r \in DOMAIN jobRuns :
       jobRuns[r].status = "SUCCESS" /\ jobRuns[r].job \in CheckJobs /\ db.held # {} =>
         /\ \A s \in db.held : <<s, jobRuns[r].day, jobRuns[r].job>> \in {Key(c) : c \in db.checks}
         /\ \E i \in DOMAIN db.logs :
              /\ db.logs[i].run = r /\ ~IsAlert(db.logs[i].target)
              /\ db.logs[i].status \in {"SUCCESS", "DRY_RUN"}
  /\ db.sent => /\ Arrivals(Report("report", 0)) > 0
                /\ \E i \in DOMAIN db.logs : /\ db.logs[i].target = Report("report", 0)
                                             /\ db.logs[i].status = "SUCCESS"

(***************************************************************************)
(* An alert is on record twice only when its first row is beyond those     *)
(* that the dispatcher lists, also when the scheduler and the operator run *)
(* the same check at once.                                                 *)
(***************************************************************************)
AlertsRepeatOnlyPastTheList ==
  \A i, j \in DOMAIN db.logs :
    i < j /\ IsAlert(db.logs[i].target) /\ db.logs[i].target = db.logs[j].target
      => i > ListLimit

(***************************************************************************)
(* What a fault loses is accounted for.  The chat gets a message more often *)
(* than the log says only for runs whose work was lost: failed, cut off or *)
(* still under way.  A row stays RUNNING without anyone working on it only *)
(* after a crash or a failed write: nothing else leaves run_job early.     *)
(***************************************************************************)
LossesAreAccounted ==
  /\ \A tg \in DOMAIN delivered :
       delivered[tg] <= Cardinality({i \in DOMAIN db.logs : db.logs[i].target = tg})
                        + Cardinality({r \in DOMAIN jobRuns : jobRuns[r].status \in {"FAILED", "RUNNING"}})
  /\ Cardinality({r \in DOMAIN jobRuns : jobRuns[r].status = "RUNNING"
                                        /\ \A t \in Threads : call[t].run # r})
       <= crashes * Cardinality(Threads) + writeErrors

(***************************************************************************)
(* A job that starts ends, or its process does: nobody waits for ever for  *)
(* another thread's rows.                                                  *)
(***************************************************************************)
CallsEnd == \A t \in Threads : call[t].pc # "idle" ~> call[t].pc = "idle"
====
