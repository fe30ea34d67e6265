---------------------------- MODULE UsageEvents -----------------------------
(***************************************************************************)
(* Detection of degradations, usage-history/events.ts, and the usage_events *)
(* table of usage-history/store.ts: each change of the priority tuple or of *)
(* the service mode tuple becomes a row that names the row it closes. A    *)
(* write may fail, which index.ts logs, and the process may be restarted.  *)
(***************************************************************************)
EXTENDS Integers, Sequences, FiniteSetsExt

CONSTANTS
  Degraded,      \* Degraded[k]: the values of tuple k that are not its default
  MaxEventRows   \* bound on the table

TupleKind == {"priority", "service_mode"}
Default == 0      \* isDefaultPriority(), isDefaultServiceMode()
Unseen == -1      \* null: no snapshot since the start
Tuple(k) == {Default} \cup Degraded[k]

ASSUME EventsAssumption ==
  /\ DOMAIN Degraded = TupleKind
  /\ \A k \in TupleKind : Degraded[k] \subseteq Nat \ {Default}

VARIABLES
  events,  \* usage_events: [kind, transition, prev, tuple]; the id is the index
  last,    \* lastPriority, lastServiceMode
  born     \* ghost: the rows that were there when the process started

eventVars == <<events, last, born>>

-----------------------------------------------------------------------------
\* getOpenEventForTuple(): the latest row of the kind that no row points at, or
\* 0. It does not ask whether that row is itself a "resolved".
\* Mutant: the kind of the row is not looked at.
OpenOfAnyKind(es, k) ==
  Max({0} \cup {i \in DOMAIN es : \A j \in DOMAIN es : es[j].prev # i})

getOpenEventForTuple(es, k) ==
  Max({0} \cup {i \in DOMAIN es : es[i].kind = k /\ \A j \in DOMAIN es : es[j].prev # i})

Transition(prev, current) ==
  IF prev = Default THEN "onset" ELSE IF current = Default THEN "resolved" ELSE "morph"

\* The row that is inserted; its tuple is what the snapshot says of the kind.
recordEvent(es, k, transition, current, previous) ==
  Append(es, [kind |-> k, transition |-> transition, tuple |-> current, prev |-> previous])

\* emitPriorityEvent(), emitServiceModeEvent().
Emitted(es, k, prev, current) ==
  LET transition == Transition(prev, current) IN
  recordEvent(es, k, transition, current,
              IF transition = "onset" THEN 0 ELSE getOpenEventForTuple(es, k))

\* handleSnapshot(): the first snapshot is taken silently. Then each kind that
\* changed, priority first; when its write fails ("fails" is the kind, or
\* "none") the rest of the handler is skipped and the tuple stays as it was, so
\* that the next snapshot tries again.
EventSnapshot(t, fails) ==
  LET Writes(k) == last[k] # t[k] /\ ~(fails = k)
      first == Writes("priority")
      second == Writes("service_mode") /\ ~(fails = "priority" /\ last["priority"] # t["priority"])
      after1 == IF first THEN Emitted(events, "priority", last["priority"], t["priority"]) ELSE events
  IN
  /\ UNCHANGED born
  /\ IF Unseen \in {last[k] : k \in TupleKind} THEN last' = t /\ UNCHANGED events
     ELSE /\ events' = IF second
                       THEN Emitted(after1, "service_mode", last["service_mode"], t["service_mode"])
                       ELSE after1
          /\ last' = [k \in TupleKind |->
                        IF (k = "priority" /\ first) \/ (k = "service_mode" /\ second)
                        THEN t[k] ELSE last[k]]

\* A restart: the tuples are forgotten, the table is not.
EventRestart ==
  /\ last' = [k \in TupleKind |-> Unseen]
  /\ born' = Len(events)
  /\ UNCHANGED events

EventsInit ==
  /\ events = <<>>
  /\ last = [k \in TupleKind |-> Unseen]
  /\ born = 0

EventsNext ==
  \/ \E t \in {f \in [TupleKind -> UNION {Tuple(k) : k \in TupleKind}] :
                 \A k \in TupleKind : f[k] \in Tuple(k)},
        fails \in TupleKind \cup {"none"} :
       Len(events) < MaxEventRows /\ EventSnapshot(t, fails)
  \/ EventRestart

-----------------------------------------------------------------------------
Own(k) == {i \in DOMAIN events : i > born /\ events[i].kind = k}
Before(k, i) == Max({0} \cup {j \in DOMAIN events : j < i /\ events[j].kind = k})

\* The table tells the history of the tuples without a hole, although writes
\* fail and two kinds share it. Of the rows this process wrote: the last one of
\* a kind has the tuple last seen; one that is not an onset closes the row of
\* its kind just before it; and an onset comes exactly where nothing was
\* degraded, after a "resolved" of this process or first of all. No row is
\* ever closed twice.
EventsChain ==
  /\ \A k \in TupleKind : Own(k) # {} => events[Max(Own(k))].tuple = last[k]
  /\ \A k \in TupleKind : \A i \in Own(k) :
       LET e == events[i]
           b == Before(k, i) IN
       /\ e.transition # "onset" => e.prev = b
       /\ b > born => (e.transition = "onset" <=> events[b].tuple = Default)
  /\ \A i, j \in DOMAIN events :
       i # j /\ events[i].prev # 0 => events[i].prev # events[j].prev
=============================================================================
