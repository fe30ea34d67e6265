------------------------------ MODULE Captures ------------------------------
(***************************************************************************)
(* The captures table of src/src/db.ts: the ring buffer kept by            *)
(* startCapture(), the lifecycle of a row, the rows of vision calls, and   *)
(* the usage accounting that every final update carries in its transaction *)
(* (accountCapturesUsage in src/src/economics.ts).                         *)
(*                                                                         *)
(* A row is reduced to its id, its state, whether it is a vision row, and  *)
(* its usage_accounted flag.  "billed" counts how often the usage of an id *)
(* was added to daily_usage; Economics.tla has the sums themselves.        *)
(***************************************************************************)
EXTENDS Integers, FiniteSets

CONSTANTS
  MaxId,        \* bound: ids are 1 .. MaxId
  MaxCaptures,  \* config.maxCaptures, the size of the ring buffer
  MaxDrift,     \* bound on how far failed inserts push rowCount up
  Billable,     \* ids whose final update carries a model and its usage
  DbFails       \* TRUE in DbFails: a transaction may be rolled back

ASSUME CapturesAssumption ==
  /\ MaxId \in Nat /\ MaxCaptures \in Nat \ {0} /\ MaxDrift \in Nat
  /\ DbFails \in {{FALSE}, BOOLEAN}

Ids == 1 .. MaxId
RowStates == {"none", "enqueued", "streaming", "done", "failed"}
InFlightStates == {"enqueued", "streaming"}

VARIABLES
  lastId,     \* sqlite_sequence: AUTOINCREMENT never reuses an id
  rows,       \* ids present in the table
  visionIds,  \* ids inserted with is_vision = 1
  state,      \* the state column of each id, "none" before its insert
  accounted,  \* ids whose usage_accounted flag was set
  billed,     \* times the usage of an id entered daily_usage
  rowCount    \* CaptureDB.rowCount, the cached number of main rows

idVars == <<lastId, visionIds>>
usageVars == <<accounted, billed>>
captureVars == <<idVars, rows, state, usageVars, rowCount>>

MainRows == rows \ visionIds

NextId == lastId + 1

Newer(S, i) == Cardinality({j \in S : j > i})

\* Mutant: the offset is off by one.
PrunedOneShort(S, excess) ==
  {i \in S : Newer(S, i) > MaxCaptures /\ Newer(S, i) <= MaxCaptures + excess}

\* Mutant: ORDER BY id ASC.
PrunedAscending(S, excess) ==
  {i \in S : LET older == Cardinality({j \in S : j < i})
             IN older >= MaxCaptures /\ older < MaxCaptures + excess}

\* SELECT ... ORDER BY id DESC LIMIT excess OFFSET maxCaptures: the ids behind
\* the newest MaxCaptures, at most "excess" of them.
Pruned(S, excess) ==
  {i \in S : Newer(S, i) >= MaxCaptures /\ Newer(S, i) < MaxCaptures + excess}

Excess(count) == IF count > MaxCaptures THEN count - MaxCaptures ELSE 0

\* rowCount is a field, not part of the transaction: it keeps what it was
\* given before the throw.  insert throws, delete throws, commit throws.
CountAfterRollback(c) ==
  c \in {rowCount, rowCount + 1,
         IF Excess(rowCount + 1) > 0 THEN MaxCaptures ELSE rowCount + 1}

\* db.startCapture(), committed.
StartCapture ==
  LET id == NextId
      all == MainRows \cup {id}
      gone == Pruned(all, Excess(rowCount + 1))
  IN /\ id \in Ids
     /\ lastId' = id
     /\ rows' = (rows \cup {id}) \ gone
     /\ state' = [state EXCEPT ![id] = "enqueued"]
     /\ rowCount' = IF Excess(rowCount + 1) > 0 THEN MaxCaptures ELSE rowCount + 1
     /\ UNCHANGED <<visionIds, usageVars>>

\* db.startCapture(), rolled back.
StartCaptureFails ==
  /\ TRUE \in DbFails
  /\ NextId \in Ids
  /\ CountAfterRollback(rowCount')
  /\ rowCount' <= Cardinality(MainRows) + MaxDrift
  /\ UNCHANGED <<idVars, rows, state, usageVars>>

\* UPDATE captures SET state: no row, no effect.
StateSet(i, s) == [state EXCEPT ![i] = IF i \in rows THEN s ELSE @]

SetState(i, s) ==
  /\ state' = StateSet(i, s)
  /\ UNCHANGED <<idVars, rows, usageVars, rowCount>>

\* Mutant: the flag is not looked at.
ToAccountAlways(S) == S \cap rows

\* SELECT ... WHERE id IN S AND usage_accounted = 0.
ToAccount(S) == (S \cap rows) \ accounted

\* The final UPDATE of every row in S (state = 'done') and
\* accountCapturesUsage, in one transaction.  A row without a model or with
\* usage_missing is marked but adds nothing to daily_usage.
UpdateAndAccount(S) ==
  /\ state' = [i \in Ids |-> IF i \in S \cap rows THEN "done" ELSE state[i]]
  /\ accounted' = accounted \cup ToAccount(S)
  /\ billed' = [i \in Ids |-> IF i \in ToAccount(S) \cap Billable
                              THEN billed[i] + 1 ELSE billed[i]]
  /\ UNCHANGED <<idVars, rows, rowCount>>

\* sweepVisionCaptures(): the vision rows whose started_at is behind the TTL.
Expired == SUBSET (visionIds \cap rows)

\* insertVisionCapture() with the sweep it starts once per interval: a call in
\* flight ("streaming"; image-processor.ts sets it right after the insert) or,
\* from DbVisionSink.record, a finished record without usage.
InsertVision ==
  \E s \in {"streaming", "done"}, old \in Expired :
    /\ NextId \in Ids
    /\ lastId' = NextId
    /\ rows' = (rows \cup {NextId}) \ old
    /\ visionIds' = visionIds \cup {NextId}
    /\ state' = [state EXCEPT ![NextId] = s]
    /\ UNCHANGED <<usageVars, rowCount>>

\* The end of a vision call: updateVisionCapture(), or setState("failed") when
\* the call or the update throws.
FinishVision(i) ==
  /\ i \in visionIds
  /\ state[i] = "streaming"
  /\ \/ UpdateAndAccount({i})
     \/ SetState(i, "failed")

ClearVision ==
  /\ rows' = rows \ visionIds
  /\ UNCHANGED <<idVars, state, usageVars, rowCount>>

\* clear(): every row, vision rows too.
Clear ==
  /\ rows' = {}
  /\ rowCount' = 0
  /\ UNCHANGED <<idVars, state, usageVars>>

\* sweepStaleCaptures(): the states it rewrites to "done".
StaleStates == {"enqueued", "streaming"}

\* new CaptureDB(): the count is taken again, rows a previous run left in
\* flight are marked done, old vision rows are swept.  backfillFromCaptures
\* finds nothing: an update and its accounting share a transaction, and rows
\* that were never updated have no model or no usage.
Reopen ==
  \E old \in Expired :
    /\ rows' = rows \ old
    /\ state' = [i \in Ids |-> IF i \in rows /\ state[i] \in StaleStates
                               THEN "done" ELSE state[i]]
    /\ rowCount' = Cardinality(MainRows)
    /\ UNCHANGED <<idVars, usageVars>>

CapturesInit ==
  /\ lastId = 0 /\ rows = {} /\ visionIds = {} /\ rowCount = 0
  /\ state = [i \in Ids |-> "none"]
  /\ accounted = {} /\ billed = [i \in Ids |-> 0]

CapturesNext ==
  \/ StartCapture
  \/ StartCaptureFails
  \/ \E i \in (1 .. lastId) \ visionIds, s \in {"streaming", "failed"} : SetState(i, s)
  \/ \E i \in (1 .. lastId) \ visionIds : UpdateAndAccount({i})
  \/ InsertVision
  \/ \E i \in Ids : FinishVision(i)
  \/ ClearVision
  \/ Clear
  \/ Reopen

(***************************************************************************)
(* Properties.                                                             *)
(***************************************************************************)
\* Every column keeps its type and no row has an id that was never given out.
CapturesTypeOK ==
  /\ lastId \in 0 .. MaxId
  /\ rows \subseteq 1 .. lastId
  /\ visionIds \subseteq 1 .. lastId
  /\ state \in [Ids -> RowStates]
  /\ accounted \subseteq 1 .. lastId
  /\ billed \in [Ids -> Nat]
  /\ rowCount \in Nat

\* The table never holds more main rows than maxCaptures, and the cached
\* count never runs below the real one (below it, pruning would stop), even
\* after inserts that were rolled back, clears and restarts.
RingBounded ==
  /\ Cardinality(MainRows) <= MaxCaptures
  /\ Cardinality(MainRows) <= rowCount

\* The usage of a capture enters daily_usage at most once, however often its
\* final update is applied, and only if the update carried usage.
BilledOnce ==
  \A i \in Ids : billed[i] <= IF i \in accounted \cap Billable THEN 1 ELSE 0

\* A new row stays, and a main row leaves the table only by a clear or because
\* MaxCaptures newer main rows exist; vision rows never make a main row leave.
PruneOnlyOldest ==
  [][/\ lastId' # lastId => lastId' \in rows'
     /\ \A i \in rows \ rows' :
          \/ rows' \cap MainRows = {} /\ rowCount' = 0
          \/ i \in visionIds
          \/ Cardinality({j \in rows' \ visionIds' : j > i}) >= MaxCaptures]_captureVars

\* The ring buffer keeps its types, its bound and the newest rows.
RingKeepsNewest == [](CapturesTypeOK /\ RingBounded) /\ PruneOnlyOldest
=============================================================================
