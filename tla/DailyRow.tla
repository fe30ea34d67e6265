------------------------------ MODULE DailyRow ------------------------------
(***************************************************************************)
(* What a day's row measures, computeDailyRow() of usage-history/daily.ts: *)
(* active minutes by hour with the limit on gaps and on idle sessions, the *)
(* burden of each degradation, the gauges, and the time spent in bans.     *)
(*                                                                         *)
(* Samples are a sequence in the order of their times, events one in the   *)
(* order of their ids. One counter stands for the three token counters and *)
(* "rest" for the fields of a sample that only the ambient key looks at.   *)
(***************************************************************************)
EXTENDS Integers, Sequences, FiniteSetsExt, TLC

CONSTANTS
  HourLen,       \* the ticks of an hour
  HourCount,     \* the hours of a day
  GapThreshold,  \* gapThresholdMinutes, in ticks
  IdleTimeout    \* idleSessionTimeoutMinutes, in ticks

NoBox == -1         \* boxed_until is null
DayTicks == HourLen * HourCount

-----------------------------------------------------------------------------
Steps(ss) == 2..Len(ss)
Interval(ss, i) == ss[i].at - ss[i - 1].at
HourOf(s) == s.at \div HourLen

ambientKey(s) == <<s.sessions, s.tokens, s.low, s.boxed, s.demoted, s.mode, s.rest>>
activityKey(s) == <<s.sessions, s.tokens>>
Identical(ss, i) == ambientKey(ss[i - 1]) = ambientKey(ss[i])

Gap(ss, i) == Interval(ss, i) > GapThreshold /\ ~Identical(ss, i)
TokensAdvanced(ss, i) == ss[i].tokens # ss[i - 1].tokens
BothIdle(ss, i) == ss[i - 1].sessions = 0 /\ ss[i].sessions = 0

\* A session is open and nothing moves.
Waiting(ss, i) ==
  /\ ~Gap(ss, i) /\ ~TokensAdvanced(ss, i) /\ ~BothIdle(ss, i)
  /\ activityKey(ss[i - 1]) = activityKey(ss[i])

\* Mutant: the streak is the last interval.
StreakForgets(ss) ==
  [i \in 1..Len(ss) |-> IF i > 1 /\ Waiting(ss, i) THEN Interval(ss, i) ELSE 0]

\* idleStreakMs after the i-th sample.
IdleStreak(ss) ==
  LET streak[i \in 1..Len(ss)] ==
        IF i > 1 /\ Waiting(ss, i) THEN streak[i - 1] + Interval(ss, i) ELSE 0
  IN streak

\* The intervals that are active: not a gap, not idle, and not past the timeout
\* of a session in which nothing moves.
Active(ss) ==
  {i \in Steps(ss) : /\ ~Gap(ss, i)
                     /\ TokensAdvanced(ss, i) \/ ~BothIdle(ss, i)
                     /\ Waiting(ss, i) => IdleStreak(ss)[i] <= IdleTimeout}

accumulatedActiveMinutes(ss) == LET len(i) == Interval(ss, i) IN MapThenSumSet(len, Active(ss))

\* An interval belongs to the hour in which it begins.
hourBuckets(ss) ==
  [h \in 0..(HourCount - 1) |->
     LET len(i) == Interval(ss, i)
     IN MapThenSumSet(len, {i \in Active(ss) : HourOf(ss[i - 1]) = h})]

utcClockSpanMinutes(ss) == ss[Len(ss)].at - ss[1].at

\* Degradation burden: an interval counts when the flag was set at its beginning.
Burden(ss, flagged) ==
  LET len(i) == Interval(ss, i)
  IN MapThenSumSet(len, {i \in Steps(ss) : ~Identical(ss, i) /\ i - 1 \in flagged})
PriorityLow(ss) == {i \in DOMAIN ss : ss[i].low}
Boxed(ss) == {i \in DOMAIN ss : ss[i].boxed # NoBox /\ ss[i].boxed > ss[i].at}
UnitsDemoted(ss) == {i \in DOMAIN ss : ss[i].demoted}
NonNormal(ss) == {i \in DOMAIN ss : ss[i].mode # "normal"}

completeness(ss) ==
  LET partialStart == HourOf(ss[1]) > 0
      partialEnd == HourOf(ss[Len(ss)]) < HourCount - 1 IN
  CASE partialStart /\ partialEnd -> "partial_both"
    [] partialStart /\ ~partialEnd -> "partial_start"
    [] ~partialStart /\ partialEnd -> "partial_end"
    [] OTHER -> IF \E i \in Steps(ss) : Gap(ss, i) THEN "incomplete_window" ELSE "full"

-----------------------------------------------------------------------------
OfKind(es, k) == {i \in DOMAIN es : es[i].kind = k}

\* An onset lasts to the row that closes it, or to the end of its box, or to the
\* end of the day.
BanEnd(es, i) ==
  LET closers == {j \in OfKind(es, es[i].kind) : es[j].prev = i} IN
  CASE closers # {} -> es[Min(closers)].at
    [] closers = {} /\ es[i].boxed # NoBox /\ es[i].boxed < DayTicks -> es[i].boxed
    [] OTHER -> DayTicks

banTotalDuration(es, k) ==
  LET dur(i) == Max({0, BanEnd(es, i) - es[i].at})
  IN MapThenSumSet(dur, {i \in OfKind(es, k) : es[i].transition = "onset"})

\* triggerMomentFromEvent() of the first event of a kind, or NULL_TRIGGER.
Trigger(es, k) == IF OfKind(es, k) = {} THEN {} ELSE {es[Min(OfKind(es, k))].at}

\* The gauges: the peak, and the average as a sum and a count.
Gauge(ss) ==
  LET sessions(i) == ss[i].sessions IN
  [peak |-> Max({sessions(i) : i \in DOMAIN ss}),
   avg  |-> <<MapThenSumSet(sessions, DOMAIN ss), Len(ss)>>]

EventCounts(es) == [k \in {"priority", "service_mode"} |-> Cardinality(OfKind(es, k))]

\* A day without samples keeps the number of its events and nothing else.
MissingRow(es) ==
  [completeness |-> "missing", events |-> EventCounts(es),
   low |-> 0, boxed |-> 0, demoted |-> 0, nonNormal |-> 0]

computeDailyRow(ss, es) ==
  IF ss = <<>> THEN MissingRow(es)
  ELSE [completeness |-> completeness(ss),
        first        |-> ss[1].at,
        last         |-> ss[Len(ss)].at,
        active       |-> accumulatedActiveMinutes(ss),
        byHour       |-> hourBuckets(ss),
        span         |-> utcClockSpanMinutes(ss),
        tokens       |-> ss[Len(ss)].tokens,
        gauge        |-> Gauge(ss),
        trigger      |-> [k \in {"priority", "service_mode"} |-> Trigger(es, k)],
        low          |-> Burden(ss, PriorityLow(ss)),
        boxed        |-> Burden(ss, Boxed(ss)),
        demoted      |-> Burden(ss, UnitsDemoted(ss)),
        nonNormal    |-> Burden(ss, NonNormal(ss)),
        events       |-> EventCounts(es),
        ban          |-> [k \in {"priority", "service_mode"} |-> banTotalDuration(es, k)]]

-----------------------------------------------------------------------------
\* A stretch of samples over which a session is open and nothing moves.
Stretch(ss, i, j) == \A n \in i..j : Waiting(ss, n)

\* The measures of a day agree with each other and with its clock: the hours add
\* up to the active minutes, which fit into the span between the first and the
\* last sample, as does each burden; a stretch without movement counts for at
\* most the idle timeout, however it is cut into samples; and as long as one ban
\* is over before the next begins, bans fit into the day.
MeasuresAgree(ss, es) ==
  LET row == computeDailyRow(ss, es) IN
  /\ ss # <<>> =>
       /\ LET minutes(h) == row.byHour[h] IN row.active = MapThenSumSet(minutes, DOMAIN row.byHour)
       /\ {row.active, row.low, row.boxed, row.demoted, row.nonNormal} \subseteq 0..row.span
       /\ \A i, j \in Steps(ss) :
            i <= j /\ Stretch(ss, i, j) =>
              LET len(n) == Interval(ss, n)
              IN MapThenSumSet(len, Active(ss) \cap (i..j)) <= IdleTimeout
       /\ (\A i, j \in DOMAIN es : i < j /\ es[i].kind = es[j].kind /\ es[i].transition = "onset"
                                  => \E n \in (i + 1)..j : es[n].prev = i)
            => \A k \in DOMAIN row.ban : row.ban[k] \in 0..DayTicks
=============================================================================
