------------------------------- MODULE Reports -------------------------------
(***************************************************************************)
(* The daily figures of the tenants' quotes: the queue of aggregation      *)
(* jobs, its one worker, the snapshots it writes and the trend that shows  *)
(* them.  The quotes of a day go on changing while and after it is         *)
(* aggregated: they are processed late, removed, or priced again.          *)
(*                                                                         *)
(* A day's figures are how many quotes it has and how many are done.       *)
(***************************************************************************)
EXTENDS Naturals

CONSTANTS
  Companies,       \* the tenants
  LastDay,         \* bound: days that pass, from day 1
  Busy,            \* bound: tenants with the days they get quotes on
  MaxQuotes,       \* bound: quotes of a tenant and a day
  MaxReportFaults  \* bound: failed jobs, stops of the worker

ASSUME ReportsAssumption ==
  /\ LastDay \in Nat \ {0}
  /\ Busy \subseteq Companies \X (1..LastDay)
  /\ MaxQuotes \in Nat
  /\ MaxReportFaults \in Nat

Days == 1..LastDay
Places == Companies \X Days
Figures == [total : 0..MaxQuotes, done : 0..MaxQuotes]
Zero == [total |-> 0, done |-> 0]
NoSnapshot == [total |-> MaxQuotes + 1, done |-> MaxQuotes + 1]
Snapshots == Figures \cup {NoSnapshot}

VARIABLES
  today,
  quotes,     \* the figures that are true
  snapshots,  \* rows of DailyMetricsSnapshot
  jobs,       \* waiting jobs: the date of each; 0 is none, that is, yesterday
  day,        \* the day the worker is at; 0 when it is idle
  todo,       \* the tenants it has still to do
  reading,    \* those it is at: one, or none
  got,        \* what it has read of that tenant
  steady,     \* history: the day has not changed since it began to read
  exact,      \* history: nor since its snapshot was written
  reportFaults

worker == <<day, todo, reading, got, steady>>
reportVars == <<today, quotes, snapshots, jobs, worker, exact, reportFaults>>

ReportsInit ==
  /\ today = 1
  /\ quotes = [p \in Places |-> Zero]
  /\ snapshots = [p \in Places |-> NoSnapshot]
  /\ jobs = {}
  /\ day = 0 /\ todo = {} /\ reading = {} /\ got = NoSnapshot /\ steady = FALSE
  /\ exact = {}
  /\ reportFaults = 0
-----------------------------------------------------------------------------
(* What happens to quotes, as far as figures show it *)

Changes(p, figures) ==
  /\ figures \in Figures
  /\ quotes' = [quotes EXCEPT ![p] = figures]
  /\ steady' = (steady /\ ~(p[1] \in reading /\ p[2] = day))
  /\ exact' = exact \ {p}
  /\ UNCHANGED <<today, snapshots, jobs, day, todo, reading, got, reportFaults>>

QuoteIsCreated(c) ==
  LET q == quotes[<<c, today>>] IN <<c, today>> \in Busy /\ Changes(<<c, today>>, [q EXCEPT !.total = @ + 1])

QuoteConcludes(p) ==
  quotes[p].done < quotes[p].total /\ Changes(p, [quotes[p] EXCEPT !.done = @ + 1])

\* Run again after it stalled, or set back by a PATCH.
QuoteReopens(p) == quotes[p].done > 0 /\ Changes(p, [quotes[p] EXCEPT !.done = @ - 1])

QuoteIsRemoved(p) ==
  LET q == quotes[p] IN
  \/ q.done > 0 /\ Changes(p, [total |-> q.total - 1, done |-> q.done - 1])
  \/ q.done < q.total /\ Changes(p, [q EXCEPT !.total = @ - 1])
-----------------------------------------------------------------------------
\* Midnight, and an hour later the repeatable job, which carries no date.
DayPasses ==
  /\ today < LastDay
  /\ today' = today + 1
  /\ jobs' = jobs \cup {0}
  /\ UNCHANGED <<quotes, snapshots, worker, exact, reportFaults>>

\* POST /insights/aggregate, with a date or without (on day 1 that would be
\* a day before the first).
TriggerAggregation(date) ==
  /\ date = 0 => today > 1
  /\ jobs' = jobs \cup {date}
  /\ UNCHANGED <<today, quotes, snapshots, worker, exact, reportFaults>>

\* The worker resolves the date when it takes the job, not when it was due.
TargetDay(date) == IF date = 0 THEN today - 1 ELSE date

Processes(date) ==
  /\ day = 0
  /\ date \in jobs
  /\ jobs' = jobs \ {date}
  /\ day' = TargetDay(date)
  /\ todo' = Companies
  /\ UNCHANGED <<today, quotes, snapshots, reading, got, steady, exact, reportFaults>>

NextTenant(c) ==
  /\ day # 0 /\ reading = {}
  /\ c \in todo
  /\ todo' = todo \ {c}
  /\ reading' = {c}
  /\ got' = NoSnapshot
  /\ steady' = TRUE
  /\ UNCHANGED <<today, quotes, snapshots, jobs, day, exact, reportFaults>>

\* The queries run in parallel, each seeing the rows of its own moment.
ReadsFigure(field) ==
  /\ \E c \in reading :
       /\ got[field] = NoSnapshot[field]
       /\ got' = [got EXCEPT ![field] = quotes[<<c, day>>][field]]
  /\ UNCHANGED <<today, quotes, snapshots, jobs, day, todo, reading, steady, exact, reportFaults>>

\* Mutant: a snapshot that exists is kept.
UpsertsOnce ==
  /\ got \in Figures
  /\ \E c \in reading :
       IF got.total = 0 THEN UNCHANGED <<snapshots, exact>>
       ELSE /\ snapshots' = [snapshots EXCEPT ![<<c, day>>] = IF @ = NoSnapshot THEN got ELSE @]
            /\ exact' = IF steady THEN exact \cup {<<c, day>>} ELSE exact \ {<<c, day>>}
  /\ reading' = {} /\ got' = NoSnapshot /\ steady' = FALSE
  /\ UNCHANGED <<today, quotes, jobs, day, todo, reportFaults>>

\* The upsert; a day without quotes is left as it is, also with a snapshot.
Upserts ==
  /\ got \in Figures
  /\ \E c \in reading :
       IF got.total = 0 THEN UNCHANGED <<snapshots, exact>>
       ELSE /\ snapshots' = [snapshots EXCEPT ![<<c, day>>] = got]
            /\ exact' = IF steady THEN exact \cup {<<c, day>>} ELSE exact \ {<<c, day>>}
  /\ reading' = {} /\ got' = NoSnapshot /\ steady' = FALSE
  /\ UNCHANGED <<today, quotes, jobs, day, todo, reportFaults>>

IsIdle == day' = 0 /\ todo' = {} /\ reading' = {} /\ got' = NoSnapshot /\ steady' = FALSE

Completes ==
  /\ day # 0 /\ todo = {} /\ reading = {}
  /\ IsIdle
  /\ UNCHANGED <<today, quotes, snapshots, jobs, exact, reportFaults>>

\* A query fails: the job has one attempt, and the tenants left are skipped.
\* If the process stops instead, the stalled job is taken again.
JobFails ==
  /\ day # 0
  /\ reportFaults < MaxReportFaults
  /\ reportFaults' = reportFaults + 1
  /\ \/ jobs' = jobs
     \/ today > 1 /\ jobs' = jobs \cup {0}
     \/ jobs' = jobs \cup {day}
  /\ IsIdle
  /\ UNCHANGED <<today, quotes, snapshots, exact>>

ReportsNext ==
  \/ \E c \in Companies : QuoteIsCreated(c) \/ NextTenant(c)
  \/ \E p \in Places : QuoteConcludes(p) \/ QuoteReopens(p) \/ QuoteIsRemoved(p)
  \/ \E date \in 0..LastDay : TriggerAggregation(date) \/ Processes(date)
  \/ DayPasses \/ Upserts \/ Completes \/ JobFails
  \/ \E field \in {"total", "done"} : ReadsFigure(field)

ReportsSpec == ReportsInit /\ [][ReportsNext]_reportVars
-----------------------------------------------------------------------------
\* computeLiveDay, with its queries at one moment.
LiveDay(c) == quotes[<<c, today>>]

\* getTrend: today is computed, an earlier day is its snapshot or zeros.
TrendPoint(c, d) ==
  IF d = today THEN LiveDay(c)
  ELSE IF snapshots[<<c, d>>] = NoSnapshot THEN Zero
  ELSE snapshots[<<c, d>>]

ReportsTypeOK ==
  /\ today \in Days
  /\ quotes \in [Places -> Figures]
  /\ snapshots \in [Places -> Snapshots]
  /\ jobs \in SUBSET (0..LastDay)
  /\ day \in 0..LastDay
  /\ todo \in SUBSET Companies
  /\ reading \in SUBSET Companies
  /\ got \in [total : 0..MaxQuotes + 1, done : 0..MaxQuotes + 1]
  /\ steady \in BOOLEAN
  /\ exact \in SUBSET Places
  /\ reportFaults \in 0..MaxReportFaults

\* A day that did not change from the moment its aggregation began to read is
\* shown with its true figures, whatever older snapshot it had, whichever
\* tenants and days were aggregated beside it and however jobs failed: to
\* aggregate once more, after the quotes have settled, repairs any day that
\* still has quotes.
TrendIsExact ==
  \A c \in Companies, d \in Days :
    d = today \/ <<c, d>> \in exact => TrendPoint(c, d) = quotes[<<c, d>>]
=============================================================================
