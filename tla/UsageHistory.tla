---------------------------- MODULE UsageHistory ----------------------------
(***************************************************************************)
(* What the proxy remembers of /v1/usage: the samples (usage-history/      *)
(* store.ts) and one aggregate row for each UTC day (usage-history/        *)
(* daily.ts), as index.ts writes, recomputes and prunes them and the route *)
(* POST usage/downsample of viewer.ts does by hand.                        *)
(*                                                                         *)
(* Time is a count of ticks, DayLen of them a day; the clock is never set  *)
(* back. A row is reduced to the samples it was computed from: what it     *)
(* measures of them is the subject of DailyRow.                            *)
(***************************************************************************)
EXTENDS Integers, FiniteSetsExt

CONSTANTS
  DayLen,      \* ticks of a day
  MaxTicks,     \* bound on the clock
  MaxSamples,  \* bound on the samples written
  Retentions,  \* values of usage_raw_retention_days
  Ambient,     \* what a snapshot says beside the load
  MaxLoad      \* bound on the concurrent load

ASSUME HistoryAssumption ==
  /\ DayLen \in Nat \ {0} /\ MaxTicks \in Nat /\ MaxSamples \in Nat /\ MaxLoad \in Nat
  /\ Retentions \subseteq Nat \ {0}  \* validation.ts: an integer >= 1

VARIABLES
  now,
  up,        \* the process runs, with usage_history_enabled
  samples,   \* usage_samples: a set of [id, at, key]
  written,   \* the AUTOINCREMENT of usage_samples
  lastKey,   \* UsageHistoryStore.lastKey, or NoKey
  peak,      \* maxWeightedConcurrentSinceSample
  dailyRows, \* usage_daily, by day
  due,       \* when the midnight timer fires
  retention, \* usage_raw_retention_days
  recorded,  \* ghost: the ids ever written, by day
  raised     \* ghost: the retention was raised

historyVars ==
  <<now, up, samples, written, lastKey, peak, dailyRows, due, retention, recorded, raised>>
store == <<samples, written, dailyRows, recorded>>

dayUtcOf(t) == t \div DayLen
utcMidnightMs(d) == d * DayLen
Day == 0..dayUtcOf(MaxTicks)
Today == dayUtcOf(now)

NoKey == [ambient |-> "none", load |-> 0]
NoDailyRow == [kind |-> "none", counted |-> {}]

-----------------------------------------------------------------------------
\* getSampleRange(), getEarliestSampleDay(); without samples the day the job
\* starts from is a retention ago.
getSampleRange(d) == {s \in samples : dayUtcOf(s.at) = d}
EarliestDay == IF samples = {} THEN Today - retention
               ELSE Min({dayUtcOf(s.at) : s \in samples})

\* The day's row from the samples that are left of it: "missing" without any.
computeDailyRow(d) ==
  [kind    |-> IF getSampleRange(d) = {} THEN "missing" ELSE "some",
   counted |-> {s.id : s \in getSampleRange(d)}]

\* INSERT OR REPLACE, for the days of new.
upsertDailyRow(new) ==
  [d \in Day |-> IF d \in DOMAIN new THEN new[d] ELSE dailyRows[d]]

\* downsampleDay() of each day of a set.
Downsampled(days) == upsertDailyRow([d \in days \cap Day |-> computeDailyRow(d)])

RetentionCutoff == now - retention * DayLen

deleteSamplesInRange(days) == {s \in samples : dayUtcOf(s.at) \notin days}
deleteSamplesOlderThan(ss, cutoff) == {s \in ss : s.at >= cutoff}

\* downsampleRange(): recomputed days that begin before the cutoff lose their
\* samples.
KeptBy(days) == deleteSamplesInRange({d \in days : utcMidnightMs(d) < RetentionCutoff})

pruneOldSamples(ss) == deleteSamplesOlderThan(ss, RetentionCutoff)

-----------------------------------------------------------------------------
(***************************************************************************)
(* runDailyDownsample(): days before the cutoff day only if they lack a    *)
(* row, later ones always, then the prune. A statement that throws ends it *)
(* at the day "stop", with a log line.                                     *)
(***************************************************************************)
\* Mutant: the day that is being pruned is within the retention.
CutoffDayEarly == Today - retention

retentionCutoffDay == Today - (retention - 1)

JobDays(stop) ==
  {d \in Day : /\ d < stop
               /\ \/ d \in EarliestDay..(retentionCutoffDay - 1) /\ dailyRows[d] = NoDailyRow
                  \/ d \in retentionCutoffDay..Today}

JobEnds(stop) == stop > Today

runDailyDownsample(stop) ==
  LET kept == KeptBy(JobDays(stop)) IN
  /\ dailyRows' = Downsampled(JobDays(stop))
  /\ samples' = IF JobEnds(stop) THEN pruneOldSamples(kept) ELSE kept
  /\ UNCHANGED <<written, recorded>>

\* Where the job may stop: at any of its days, or not at all.
StopDay == 0..(Today + 1)

\* The midnight timer, late after a sleep of the machine; then every 24 hours.
MidnightTimer(stop) ==
  /\ up /\ now >= due
  /\ runDailyDownsample(stop)
  /\ due' = now + DayLen
  /\ UNCHANGED <<now, up, lastKey, peak, retention, raised>>

\* refreshTodayDaily(), every ten minutes.
refreshTodayDaily ==
  /\ up
  /\ dailyRows' = Downsampled({Today})
  /\ UNCHANGED <<now, up, samples, written, lastKey, peak, due, retention, recorded, raised>>

\* POST usage/downsample: every day asked for, whether it has samples or not.
Downsample(from, to) ==
  /\ up
  /\ dailyRows' = Downsampled(from..to)
  /\ samples' = KeptBy(from..to)
  /\ UNCHANGED <<now, up, written, lastKey, peak, due, retention, recorded, raised>>

-----------------------------------------------------------------------------
\* gate.onStatsChange(): the local load may exceed what a poll will see.
StatsChange(load) ==
  /\ up
  /\ peak' = Max({peak, load})
  /\ UNCHANGED <<now, up, store, lastKey, due, retention, raised>>

\* The onChange listener and UsageHistoryStore.handleSnapshot(). The key is
\* remembered before the insert, which may fail.
Snapshot(ambient, load, fails) ==
  LET key == [ambient |-> ambient, load |-> Max({load, peak})]
      id == written + 1 IN
  /\ up
  /\ peak' = 0
  /\ lastKey' = key
  /\ IF key = lastKey \/ fails THEN UNCHANGED store
     ELSE /\ samples' = samples \cup {[id |-> id, at |-> now, key |-> key]}
          /\ written' = id
          /\ recorded' = [recorded EXCEPT ![Today] = @ \cup {id}]
          /\ UNCHANGED dailyRows
  /\ UNCHANGED <<now, up, due, retention, raised>>

\* A failed poll is not recorded, but the local peak is taken.
SnapshotFailed ==
  /\ up
  /\ peak' = 0
  /\ UNCHANGED <<now, up, store, lastKey, due, retention, raised>>

-----------------------------------------------------------------------------
\* The constructor: the key of the last row, so that a restart does not write an
\* unchanged sample again.
SeededKey ==
  IF samples = {} THEN NoKey
  ELSE LET last == CHOOSE s \in samples : \A t \in samples : t.id <= s.id IN last.key

\* createProxyServer(): the job once, then today's row, then the timers.
ProcessStarts(stop) ==
  /\ ~up /\ up' = TRUE
  /\ lastKey' = SeededKey
  /\ peak' = 0
  /\ LET kept == KeptBy(JobDays(stop)) IN
       samples' = IF JobEnds(stop) THEN pruneOldSamples(kept) ELSE kept
  /\ dailyRows' = Downsampled(JobDays(stop) \cup {Today})
  /\ due' = utcMidnightMs(Today + 1)
  /\ UNCHANGED <<now, written, retention, recorded, raised>>

\* The process stops, orderly or not: everything but the tables is gone.
ProcessExits ==
  /\ up /\ up' = FALSE
  /\ lastKey' = NoKey /\ peak' = 0 /\ due' = 0
  /\ UNCHANGED <<now, store, retention, raised>>

\* The configuration is saved and reloaded, or edited while the process is down.
SetRetention(r) ==
  /\ r # retention
  /\ retention' = r
  /\ raised' = (raised \/ r > retention)
  /\ UNCHANGED <<now, up, store, lastKey, peak, due>>

HistoryTick ==
  /\ now < MaxTicks
  /\ now' = now + 1
  /\ UNCHANGED <<up, store, lastKey, peak, due, retention, raised>>

HistoryInit ==
  /\ now = 0 /\ up = FALSE
  /\ samples = {} /\ written = 0 /\ lastKey = NoKey /\ peak = 0
  /\ dailyRows = [d \in Day |-> NoDailyRow]
  /\ due = 0
  /\ retention \in Retentions
  /\ recorded = [d \in Day |-> {}]
  /\ raised = FALSE

HistoryNext ==
  \/ \E stop \in StopDay : MidnightTimer(stop) \/ ProcessStarts(stop)
  \/ refreshTodayDaily
  \/ \E from, to \in Day : from <= to /\ Downsample(from, to)
  \/ \E load \in 1..MaxLoad : StatsChange(load)
  \/ \E a \in Ambient, load \in 0..MaxLoad, fails \in BOOLEAN :
       written < MaxSamples /\ Snapshot(a, load, fails)
  \/ SnapshotFailed \/ ProcessExits \/ HistoryTick
  \/ \E r \in Retentions : SetRetention(r)

HistorySpec == HistoryInit /\ [][HistoryNext]_historyVars

-----------------------------------------------------------------------------
\* A step that loses nothing a row was computed from.
RowsKept == \A d \in Day : dailyRows[d].counted \subseteq dailyRows'[d].counted

\* The comment in runDailyDownsample(): raw samples still exist for the days it
\* forces, so recomputing is correct. As long as the retention was not raised,
\* the job, at the start or at midnight, early, late or cut short by an error,
\* takes no sample out of a row; and when it ends, the row of every day within
\* the retention has all that was ever recorded of that day, whatever was
\* pruned or recomputed by hand before.
JobHeals ==
  [][\A stop \in StopDay :
       (MidnightTimer(stop) \/ ProcessStarts(stop)) /\ ~raised =>
         /\ RowsKept
         /\ JobEnds(stop) =>
              \A d \in Day \cap (retentionCutoffDay..Today) :
                 dailyRows'[d].counted = recorded[d]]_historyVars

\* usage_daily is "retained forever" (schema.ts): no step degrades a row.
RowsRetained == [][RowsKept]_historyVars
=============================================================================
