---- MODULE Imports ----
(***************************************************************************)
(* An operator's CSV imports - analyst reports with their themes, mappings *)
(* and signal events; earnings; fundamentals - and the nightly consensus   *)
(* job, which reads the reports while an import may be under way.          *)
(*                                                                         *)
(* An import is one transaction, row by row, and a dry run rolls it back.  *)
(* A faulty row is counted and passed over without a savepoint: what it    *)
(* had flushed before its fault stays.  The unique constraints take NULLs  *)
(* for distinct, so rows without a symbol, a theme or a quarter are kept   *)
(* single only by the lookup that precedes an insert.                      *)
(***************************************************************************)
EXTENDS Integers, Sequences, FiniteSets, SequencesExt

CONSTANTS
  Files,        \* [kind, header, rows] an operator may import, header: it is accepted
  ConsensusWindow,   \* days a report counts for consensus (90)
  MaxImports, MaxImportDate

Absent == "-"           \* an empty column, a NULL
NoFigure == -1000000    \* the same where the column holds a number

\* A line of a report file, whose key stands for broker, day and title, and of an
\* earnings or a fundamentals file; with the column whose value is faulty.
Stages == <<"head", "report", "theme", "mapping", "signal", "none">>
ReportLines ==
  [key : STRING, day : Int, type : STRING, symbol : STRING, rating : STRING, target : Int,
   theme : STRING, related : Seq(STRING), signal : STRING, fault : ToSet(Stages) \cup {"database"}]
MetricLines ==
  [key : STRING \X Int, fault : {"none", "head", "database"},
   values : [actual : Int, consensus : Int, surprise : STRING, pct : Int]]

ASSUME ImportsAssumption ==
  /\ ConsensusWindow \in Nat /\ MaxImports \in Nat /\ MaxImportDate \in Nat \ {0}
  /\ \A f \in Files : /\ f.kind \in {"reports", "earnings", "fundamentals"}
                      /\ f.rows \in Seq(IF f.kind = "reports" THEN ReportLines ELSE MetricLines)

VARIABLES
  shelf,      \* the committed tables, each a sequence of rows
  importing,  \* the import under way: its file, its rows done, the tables it sees
  digests,    \* report_consensus_snapshots: <<symbol, date>> -> digest
  imported,   \* the files committed so far, in order (a history)
  date

importVars == <<shelf, importing, digests, imported, date>>

NoTables == [reports |-> <<>>, themes |-> <<>>, mappings |-> <<>>, signals |-> <<>>,
             earnings |-> <<>>, fundamentals |-> <<>>]
NoCounts == [inserted |-> 0, updated |-> 0, same |-> 0, errors |-> 0]
NoFile == [kind |-> Absent, header |-> FALSE, rows |-> <<>>]
NoImport == [file |-> NoFile, commit |-> FALSE, done |-> 0, tables |-> NoTables, counts |-> NoCounts]

ImportsInit ==
  /\ shelf = NoTables /\ importing = NoImport /\ digests = <<>>
  /\ imported = <<>> /\ date = 1

----
(* A row of a report file. *)

Holds(table, row) == \E i \in DOMAIN table : table[i] = row
KnownReport(table, key) == \E i \in DOMAIN table : table[i].key = key
KnownTheme(table, theme) == Holds(table, theme)
KnownMapping(table, mapping) == Holds(table, mapping)

\* Mutant: a NULL compared with "=", which finds none.
KnownSignalByEquals(table, signal) ==
  Holds(table, signal) /\ signal.symbol # Absent /\ signal.theme # Absent

\* get_by_unique compares NULLs with IS NULL.
KnownSignal(table, signal) == Holds(table, signal)

StageNumber(stage) == CHOOSE i \in DOMAIN Stages : Stages[i] = stage

\* Where a row's fault is met, if the row gets to look at the faulty column: a
\* known report's own columns are not read again, nor a theme that is not named.
StopsAt(tables, row) ==
  IF \/ row.fault = "database"
     \/ row.fault = "report" /\ KnownReport(tables.reports, row.key)
     \/ row.fault \in {"theme", "mapping"} /\ row.theme = Absent
     \/ row.fault = "mapping" /\ row.related = <<>>
     \/ row.fault = "signal" /\ row.signal = Absent
  THEN "none" ELSE row.fault

ReportOf(row) == [key |-> row.key, day |-> row.day, type |-> row.type, symbol |-> row.symbol,
                  rating |-> row.rating, target |-> row.target]
SignalOf(row) == [report |-> row.key, event |-> row.signal, symbol |-> row.symbol, theme |-> row.theme]
Added(table, row, known) == IF known THEN table ELSE Append(table, row)

\* _import_row: up to four kinds of rows of one line, as far as its fault lets it,
\* a mapping for each related symbol once (in any order).
WithReportRow(tables, row) ==
  LET stop == StopsAt(tables, row)
      Reaches(stage) == StageNumber(stage) < StageNumber(stop)
      themed == Reaches("theme") /\ row.theme # Absent
      theme == <<row.key, row.theme>>
      mapped == {<<row.key, row.theme, symbol>> : symbol \in ToSet(row.related)}
  IN  [tables EXCEPT
        !.reports = IF Reaches("report") THEN Added(@, ReportOf(row), KnownReport(@, row.key)) ELSE @,
        !.themes = IF themed THEN Added(@, theme, KnownTheme(@, theme)) ELSE @,
        !.mappings = IF themed /\ Reaches("mapping")
                     THEN @ \o SetToSeq({m \in mapped : ~KnownMapping(@, m)}) ELSE @,
        !.signals = IF Reaches("signal") /\ row.signal # Absent
                    THEN Added(@, SignalOf(row), KnownSignal(@, SignalOf(row))) ELSE @]

\* A row counts as inserted or as a duplicate once its report is there, and as an
\* error as well when a later column is faulty.
ReportCounts(counts, tables, row) ==
  LET stop == StopsAt(tables, row)
      known == KnownReport(tables.reports, row.key)
      kept == StageNumber(stop) > StageNumber("report")
  IN  [counts EXCEPT !.inserted = IF kept /\ ~known THEN @ + 1 ELSE @,
                     !.same = IF kept /\ known THEN @ + 1 ELSE @,
                     !.errors = IF stop # "none" THEN @ + 1 ELSE @]

----
(* A row of an earnings or a fundamentals file: parsed as a whole before it  *)
(* is stored, so that a fault is met at its head or by the database.         *)

\* quantize(0.0001), half to even, of n / m.
HalfEven(n, m) ==
  LET up == (2 * n + m) \div (2 * m)
  IN  IF (2 * n + m) % (2 * m) = 0 /\ up % 2 = 1 THEN up - 1 ELSE up

\* calculate_surprise: percent of the consensus, in units of 0.0001.
SurprisePct(actual, consensus) ==
  HalfEven((actual - consensus) * 1000000, IF consensus < 0 THEN -consensus ELSE consensus)
Surprise(actual, consensus) ==
  IF actual = NoFigure \/ consensus \in {NoFigure, 0} THEN <<"UNKNOWN", NoFigure>>
  ELSE LET pct == SurprisePct(actual, consensus)
       IN  <<IF pct >= 50000 THEN "BEAT" ELSE IF pct <= -50000 THEN "MISS" ELSE "MEET", pct>>

\* What _parse_row makes of the values: a surprise the file states is believed.
Parsed(kind, values) ==
  IF kind = "fundamentals" THEN values
  ELSE LET computed == Surprise(values.actual, values.consensus)
       IN  [values EXCEPT !.surprise = IF @ # Absent THEN @ ELSE computed[1],
                          !.pct = IF @ # NoFigure THEN @ ELSE computed[2]]

\* The row of a key, 0 if none; the quarter, part of the key, may be NULL.
Position(table, key) ==
  IF \E i \in DOMAIN table : table[i].key = key
  THEN CHOOSE i \in DOMAIN table : table[i].key = key ELSE 0

\* _persist_dto: insert, leave as it is, or overwrite every column.
Persisted(table, row) ==
  LET at == Position(table, row.key)
  IN  IF at = 0 THEN Append(table, row) ELSE [table EXCEPT ![at] = row]
Counted(counts, table, row) ==
  LET at == Position(table, row.key)
  IN  IF at = 0 THEN [counts EXCEPT !.inserted = @ + 1]
      ELSE IF table[at] = row THEN [counts EXCEPT !.same = @ + 1]
      ELSE [counts EXCEPT !.updated = @ + 1]

MetricRow(kind, row) == [key |-> row.key, values |-> Parsed(kind, row.values)]

----
(* A whole row, and a whole file, on the tables and the counts so far. *)

RowRead(kind, seen, row) ==
  IF kind = "reports"
  THEN [tables |-> WithReportRow(seen.tables, row), counts |-> ReportCounts(seen.counts, seen.tables, row)]
  ELSE IF row.fault = "head" THEN [seen EXCEPT !.counts.errors = @ + 1]
  ELSE [tables |-> [seen.tables EXCEPT ![kind] = Persisted(@, MetricRow(kind, row))],
        counts |-> Counted(seen.counts, seen.tables[kind], MetricRow(kind, row))]

FileRead(file, tables) ==
  LET seen[n \in 0..Len(file.rows)] ==
        IF n = 0 THEN [tables |-> tables, counts |-> NoCounts]
        ELSE RowRead(file.kind, seen[n - 1], file.rows[n])
  IN  seen[Len(file.rows)]

----
(* The import, run by hand, one at a time. *)

Busy == importing # NoImport

\* A file with a missing or a forbidden column is refused as a whole.
ImportStart(file, commit) ==
  /\ ~Busy /\ Len(imported) < MaxImports
  /\ file.header
  /\ importing' = [file |-> file, commit |-> commit, done |-> 0, tables |-> shelf, counts |-> NoCounts]
  /\ UNCHANGED <<shelf, digests, imported, date>>

CurrentRow == importing.file.rows[importing.done + 1]

\* "database": a value the column does not take, met when the row is written; a
\* known report is not written again.
Refused ==
  /\ CurrentRow.fault = "database"
  /\ importing.file.kind = "reports" => ~KnownReport(importing.tables.reports, CurrentRow.key)

ImportRow ==
  /\ Busy /\ importing.done < Len(importing.file.rows) /\ ~Refused
  /\ LET seen == RowRead(importing.file.kind,
                         [tables |-> importing.tables, counts |-> importing.counts], CurrentRow)
     IN  importing' = [importing EXCEPT !.done = @ + 1, !.tables = seen.tables, !.counts = seen.counts]
  /\ UNCHANGED <<shelf, digests, imported, date>>

\* run_import: with --commit everything the rows left is committed, errors or not;
\* a dry run is rolled back.
ImportEnd ==
  /\ Busy /\ importing.done = Len(importing.file.rows)
  /\ IF importing.commit
     THEN shelf' = importing.tables /\ imported' = Append(imported, importing.file)
     ELSE UNCHANGED <<shelf, imported>>
  /\ importing' = NoImport
  /\ UNCHANGED <<digests, date>>

\* An error of the database ends the import, as a killed script does: the session
\* is closed and nothing of it stays.
ImportAborts ==
  /\ Busy
  /\ importing' = NoImport
  /\ UNCHANGED <<shelf, digests, imported, date>>

----
(* update_report_consensus_snapshots, and the days. *)

Active(table, symbol, today) ==
  {i \in DOMAIN table : /\ table[i].type = "COMPANY" /\ table[i].symbol = symbol
                        /\ table[i].day \in (today - ConsensusWindow)..today}

SymbolsOf(table) == {table[i].symbol : i \in DOMAIN table} \ {Absent}

\* avg_target_price in units of 0.0001, as the column keeps it.
ConsensusDigest(table, active) ==
  LET priced == {i \in active : table[i].target # NoFigure}
      targets == {table[i].target : i \in priced}
      total == SumFunction([i \in priced |-> table[i].target])
      rated(r) == Cardinality({i \in active : table[i].rating = r})
  IN  [count |-> Cardinality(active),
       average |-> IF priced = {} THEN NoFigure ELSE HalfEven(total * 10000, Cardinality(priced)),
       lowest |-> IF priced = {} THEN NoFigure ELSE Min(targets),
       highest |-> IF priced = {} THEN NoFigure ELSE Max(targets),
       ratings |-> [r \in {"STRONG_BUY", "BUY", "HOLD", "SELL", "STRONG_SELL"} |-> rated(r)],
       latest |-> Max({table[i].day : i \in active})]

\* Committed reports only; the row of a symbol and a day is overwritten, and a
\* symbol without active reports gets none and keeps its earlier ones.
ConsensusJob ==
  LET fresh == {s \in SymbolsOf(shelf.reports) : Active(shelf.reports, s, date) # {}}
      rows == [k \in fresh \X {date} |-> ConsensusDigest(shelf.reports, Active(shelf.reports, k[1], date))]
  IN  /\ fresh # {}
      /\ digests' = [k \in DOMAIN rows \cup DOMAIN digests |->
                              IF k \in DOMAIN rows THEN rows[k] ELSE digests[k]]
      /\ UNCHANGED <<shelf, importing, imported, date>>

NextDate ==
  /\ date < MaxImportDate /\ date' = date + 1
  /\ UNCHANGED <<shelf, importing, digests, imported>>

ImportsNext ==
  \/ \E f \in Files, commit \in BOOLEAN : ImportStart(f, commit)
  \/ ImportRow \/ ImportEnd \/ ImportAborts
  \/ ConsensusJob \/ NextDate

ImportsSpec == ImportsInit /\ [][ImportsNext]_importVars

----
(* Properties. *)

ImportsTypeOK ==
  /\ date \in 1..MaxImportDate /\ Len(imported) <= MaxImports
  /\ importing.file \in Files \cup {NoFile}
  /\ DOMAIN shelf = DOMAIN NoTables

\* No row twice, whatever its NULLs, and no row without the one it refers to.
KeysStaySingle ==
  /\ \A t \in {"reports", "earnings", "fundamentals"} :
       \A i, j \in DOMAIN shelf[t] : shelf[t][i].key = shelf[t][j].key => i = j
  /\ \A t \in {"themes", "mappings", "signals"} : Cardinality(ToSet(shelf[t])) = Len(shelf[t])
  /\ \A th \in ToSet(shelf.themes) : KnownReport(shelf.reports, th[1])
  /\ \A m \in ToSet(shelf.mappings) : <<m[1], m[2]>> \in ToSet(shelf.themes)
  /\ \A s \in ToSet(shelf.signals) :
       /\ KnownReport(shelf.reports, s.report)
       /\ s.theme # Absent => <<s.report, s.theme>> \in ToSet(shelf.themes)

\* A report file imported before adds nothing when it is imported again, faulty
\* rows included, and the last file of any kind changes no row.  A report column is
\* only validated while the report is new, so a file with such a fault may add, the
\* second time, the themes it was refused the first.
Repeatable(file) == \A i \in DOMAIN file.rows : file.rows[i].fault # "report"
ReimportAddsNothing ==
  \A n \in {m \in DOMAIN imported : Repeatable(imported[m])} :
    imported[n].kind = "reports" \/ n = Len(imported)
      => LET again == FileRead(imported[n], shelf)
         IN  again.tables = shelf /\ again.counts.inserted = 0

\* Every consensus row is of committed reports of its own window, and its figures
\* are consistent with one another.
ConsensusIsOfReports ==
  \A k \in DOMAIN digests :
    LET row == digests[k]
        active == Active(shelf.reports, k[1], k[2])
    IN  /\ row.count \in 1..Cardinality(active)
        /\ SumFunction(row.ratings) <= row.count
        /\ row.latest \in (k[2] - ConsensusWindow)..k[2]
        /\ 10000 * row.lowest <= row.average \/ row.lowest = NoFigure
        /\ row.average <= 10000 * row.highest \/ row.highest = NoFigure

\* The files an operator has committed are in the tables once: importing one again
\* adds nothing (analyst_reports.py: "re-importing the same file produces 0 new
\* rows"), keys with NULLs stay single though no constraint guards them, every theme,
\* mapping and signal has its report, and consensus counts committed reports only.
ImportsAreWhole == KeysStaySingle /\ ReimportAddsNothing /\ ConsensusIsOfReports
====
