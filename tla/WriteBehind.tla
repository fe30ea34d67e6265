---------------------------- MODULE WriteBehind ----------------------------
(***************************************************************************)
(* The write-behind queue between the request handlers and the captures    *)
(* table: WriteQueue (src/src/queue.ts) over one of its two stores, the    *)
(* database itself or the worker of src/src/workers/, with the shutdown    *)
(* sequence of src/src/index.ts, crashes and restarts.                     *)
(*                                                                         *)
(* An update is the id of its capture.  A flush in flight is a promise:    *)
(* "wait" until the store answers, then "ok" or "fail" until the code      *)
(* after the await runs.  That code runs as a microtask, so no timer,      *)
(* message or new request comes between (Quiet); a handler that is itself  *)
(* a microtask may.                                                        *)
(***************************************************************************)
EXTENDS Captures, Sequences, Functions

CONSTANTS
  FlushBatch,    \* config.flushBatch
  MaxDepth,      \* config.queueMaxDepth
  MaxRetries,    \* WriteQueue.MAX_FLUSH_RETRIES
  UseWorker,     \* config.useWriteWorker
  OnFlushThrows, \* TRUE in it: the code behind onFlush may throw
  OnDropThrows,  \* TRUE in it: the setState of onDrop may throw
  ConnectFails,  \* what a failed ensureConnection() may leave: "none", "broken"
  MaxBatches     \* bound on batches known to the worker at one time

ASSUME WriteBehindAssumption ==
  /\ FlushBatch \in Nat \ {0} /\ MaxDepth \in Nat \ {0}
  /\ MaxRetries \in Nat \ {0} /\ MaxBatches \in Nat
  /\ UseWorker \in BOOLEAN /\ ConnectFails \subseteq {"none", "broken"}
  /\ OnFlushThrows \in {{FALSE}, BOOLEAN} /\ OnDropThrows \in {{FALSE}, BOOLEAN}

Flushes == {"guarded", "shutdown"}
Idle == [batch |-> <<>>, st |-> "idle", bid |-> 0]
Phases == {"running", "draining", "flushing", "leftover", "closing", "closed"}
Fates == {"none", "open", "queued", "stored", "dropped", "exhausted", "lost"}

VARIABLES
  queue,       \* WriteQueue.queue
  flushTimer,  \* the handle in WriteQueue.flushTimer is set
  armed,       \* flush timeouts that will fire, the forgotten ones included
  retryTimer,  \* WriteQueue.retryTimer is set
  retryCount,  \* WriteQueue.flushRetryCount
  flight,      \* the flushNow() under way: one guarded, one of shutdown()
  chained,     \* a guardedFlush() waits on this.flushing
  phase,       \* how far shutdown() has come
  tries,       \* the attempts of its flush loop
  worker,      \* the write worker: its mailboxes and its connection
  fate         \* what became of the update of each capture

timerVars == <<flushTimer, armed, retryTimer, retryCount>>
flushVars == <<flight, chained, worker>>
shutdownVars == <<phase, tries>>
vars == <<captureVars, queue, timerVars, flushVars, shutdownVars, fate>>

Quiet ==
  /\ \A k \in Flushes : flight[k].st \in {"idle", "wait"}
  /\ phase \notin {"leftover", "closed"}

Busy == flight["guarded"].st # "idle"

Fated(S, f) == [i \in Ids |-> IF i \in S THEN f ELSE fate[i]]

(***************************************************************************)
(* Flushing.                                                               *)
(***************************************************************************)
InUse(b) ==
  \/ \E k \in Flushes : flight[k].bid = b
  \/ \E m \in Range(worker.inbox) \cup Range(worker.outbox) : m.bid = b

InFlight(k, batch, st, b) ==
  flight' = [flight EXCEPT ![k] = [batch |-> batch, st |-> st, bid |-> b]]

\* WorkerCaptureStore.batchUpdate(): a batch id nobody knows, a pending entry,
\* a message.  A worker that is gone never reads it.
Post(k, batch) ==
  \E b \in 1 .. MaxBatches :
    /\ ~InUse(b) /\ \A c \in 1 .. b - 1 : InUse(c)
    /\ InFlight(k, batch, "wait", b)
    /\ worker' = IF worker.alive
                 THEN [worker EXCEPT !.inbox =
                         Append(@, [type |-> "batch", bid |-> b, ids |-> Range(batch)])]
                 ELSE worker
    /\ UNCHANGED captureVars

\* Mutant: the error of a rolled back transaction is swallowed.
WriteSwallows(k, batch) ==
  /\ \/ UpdateAndAccount(Range(batch))
     \/ TRUE \in DbFails /\ UNCHANGED captureVars
  /\ InFlight(k, batch, "ok", 0)
  /\ UNCHANGED worker

\* CaptureDB.batchUpdate(): one transaction.
Write(k, batch) ==
  /\ \/ /\ UpdateAndAccount(Range(batch))
        /\ InFlight(k, batch, "ok", 0)
     \/ /\ TRUE \in DbFails
        /\ InFlight(k, batch, "fail", 0)
        /\ UNCHANGED captureVars
  /\ UNCHANGED worker

\* flushNow() up to its await, when the queue is q.
FlushNow(k, q) ==
  /\ flushTimer' = FALSE
  /\ queue' = <<>>
  /\ IF q = <<>> THEN UNCHANGED <<captureVars, flight, worker>>
     ELSE IF UseWorker THEN Post(k, q) ELSE Write(k, q)

\* guardedFlush() from a timer.
GuardedFlush ==
  \/ /\ Busy
     /\ chained' = TRUE
     /\ flushTimer' = FALSE
     /\ UNCHANGED <<captureVars, queue, flight, worker>>
  \/ /\ ~Busy
     /\ FlushNow("guarded", queue)
     /\ UNCHANGED chained

\* The handle is cleared with its timeout.
ClearFlushTimer == armed' = IF flushTimer THEN armed - 1 ELSE armed

(***************************************************************************)
(* queueUpdate(), called once by the handler of each capture.              *)
(***************************************************************************)
ShouldFlush(q) == Len(q) >= FlushBatch \/ Len(q) >= MaxDepth

\* Below the caps and no timer set: set one.
QueueAndArm(i) ==
  /\ fate[i] = "open"
  /\ ~ShouldFlush(Append(queue, i)) /\ ~flushTimer
  /\ queue' = Append(queue, i)
  /\ flushTimer' = TRUE
  /\ armed' = armed + 1
  /\ fate' = Fated({i}, "queued")
  /\ UNCHANGED <<captureVars, retryTimer, retryCount, flushVars, shutdownVars>>

\* At a cap, or a timer set: flush, when no flush is under way.
QueueAndFlush(i) ==
  /\ fate[i] = "open"
  /\ ShouldFlush(Append(queue, i)) \/ flushTimer
  /\ ~Busy
  /\ ClearFlushTimer
  /\ FlushNow("guarded", Append(queue, i))
  /\ fate' = Fated({i}, "queued")
  /\ UNCHANGED <<retryTimer, retryCount, chained, shutdownVars>>

\* onDrop: db.setState(id, "failed"), which may throw.
OnDrop(S) ==
  state' = [j \in Ids |-> IF j \in S \cap rows THEN "failed" ELSE state[j]]

\* The same while a flush is under way: chain to it, then drop the oldest
\* entry at the depth cap.
QueueAndChain(i) ==
  LET q == Append(queue, i)
      kept == IF Len(q) >= MaxDepth THEN Tail(q) ELSE q
      gone == Range(q) \ Range(kept)
  IN /\ fate[i] = "open"
     /\ ShouldFlush(q) \/ flushTimer
     /\ Busy
     /\ ClearFlushTimer
     /\ flushTimer' = FALSE
     /\ chained' = TRUE
     /\ queue' = kept
     /\ fate' = [j \in Ids |-> IF j \in gone THEN "dropped"
                               ELSE IF j = i THEN "queued" ELSE fate[j]]
     /\ \/ OnDrop(gone)
        \/ TRUE \in OnDropThrows /\ UNCHANGED state
     /\ UNCHANGED <<idVars, rows, usageVars, rowCount,
                    retryTimer, retryCount, flight, worker, shutdownVars>>

(***************************************************************************)
(* Timers.                                                                 *)
(***************************************************************************)
FlushTimerFires ==
  /\ Quiet
  /\ armed > 0
  /\ armed' = armed - 1
  /\ GuardedFlush
  /\ UNCHANGED <<retryTimer, retryCount, shutdownVars, fate>>

\* flushNow() forgets a flush timeout that is still to come.
RetryTimerFires ==
  /\ Quiet
  /\ retryTimer
  /\ retryTimer' = FALSE
  /\ \/ /\ Busy
        /\ chained' = TRUE
        /\ UNCHANGED <<captureVars, queue, flushTimer, flight, worker>>
     \/ /\ ~Busy
        /\ FlushNow("guarded", queue)
        /\ UNCHANGED chained
  /\ UNCHANGED <<armed, retryCount, shutdownVars, fate>>

(***************************************************************************)
(* flushNow() after its await, and who waited for it: the chained          *)
(* guardedFlush(), or shutdown().  q is the queue then.                    *)
(***************************************************************************)
\* Mutant: the chained flush is forgotten.
GoesOnNever(k, q, throws) == FALSE

\* this.flushing.then(...) runs unless flushNow() threw.
GoesOn(k, q, throws) == k = "guarded" /\ chained /\ ~throws /\ q # <<>>

\* for (let i = 0; i < 3; i++) with a break after success.
Loops == tries < 3

Continue(k, q, throws) ==
  /\ IF GoesOn(k, q, throws)
     THEN FlushNow(k, q)
     ELSE /\ queue' = q
          /\ flight' = [flight EXCEPT ![k] = Idle]
          /\ UNCHANGED <<captureVars, flushTimer, worker>>
  /\ chained' = IF k = "guarded" THEN FALSE ELSE chained
  /\ phase' = IF k = "guarded" THEN phase
              ELSE IF throws /\ Loops THEN "draining" ELSE "leftover"
  /\ UNCHANGED <<armed, tries>>

\* The batch is stored; onFlush broadcasts it.
SettleOk(k) ==
  /\ phase # "closed"
  /\ flight[k].st = "ok"
  /\ fate' = Fated(Range(flight[k].batch), "stored")
  /\ retryTimer' = FALSE
  /\ retryCount' = 0
  /\ \E throws \in OnFlushThrows : Continue(k, queue, throws)

\* Mutant: the batch is not put back.
RequeuedNot(batch) == queue

\* this.queue.unshift(...batch)
Requeued(batch) == batch \o queue

\* Mutant: failures are not counted.
FailuresUncounted == retryCount

\* this.flushRetryCount++
Failures == retryCount + 1

\* The batch goes back to the front and a retry is set.
SettleFail(k) ==
  /\ phase # "closed"
  /\ flight[k].st = "fail"
  /\ Failures < MaxRetries
  /\ retryCount' = Failures
  /\ retryTimer' = TRUE
  /\ UNCHANGED fate
  /\ Continue(k, Requeued(flight[k].batch), FALSE)

\* The retries are exhausted: the whole queue is dropped, without onDrop.
SettleExhausted(k) ==
  LET q == Requeued(flight[k].batch)
  IN /\ phase # "closed"
     /\ flight[k].st = "fail"
     /\ Failures >= MaxRetries
     /\ retryCount' = 0
     /\ retryTimer' = FALSE
     /\ fate' = Fated(Range(q), "exhausted")
     /\ Continue(k, <<>>, FALSE)

(***************************************************************************)
(* The write worker (config.useWriteWorker).                               *)
(***************************************************************************)
\* unwritten is a ghost: what was acknowledged without having been written.
FreshWorker == [inbox |-> <<>>, outbox |-> <<>>, conn |-> "none", alive |-> TRUE,
                unwritten |-> {}]

Answer(type, bid, conn, alive) ==
  worker' = [worker EXCEPT !.inbox = Tail(@), !.conn = conn, !.alive = alive,
                           !.outbox = Append(@, [type |-> type, bid |-> bid])]

\* ensureConnection() throws outside the try: before or after it assigned db.
\* The error reaches onerror; whether the worker survives is up to the runtime.
WorkerConnectFails ==
  /\ worker.conn = "none"
  /\ \E conn \in ConnectFails, alive \in BOOLEAN : Answer("crash", 0, conn, alive)
  /\ UNCHANGED captureVars

\* executeBatch(): one transaction, or an error message; with a connection
\* that has no statement it returns at once and the batch is acknowledged.
WorkerExecutes(m) ==
  \/ /\ worker.conn \in {"none", "open"}
     /\ UpdateAndAccount(m.ids)
     /\ Answer("ack", m.bid, "open", TRUE)
  \/ /\ worker.conn \in {"none", "open"} /\ TRUE \in DbFails
     /\ Answer("error", m.bid, "open", TRUE)
     /\ UNCHANGED captureVars
  \/ /\ worker.conn = "broken"
     /\ worker' = [worker EXCEPT !.inbox = Tail(@),
                                 !.outbox = Append(@, [type |-> "ack", bid |-> m.bid]),
                                 !.unwritten = @ \cup m.ids]
     /\ UNCHANGED captureVars

WorkerCloses ==
  /\ worker' = [worker EXCEPT !.inbox = Tail(@), !.conn = "none"]
  /\ UNCHANGED captureVars

WorkerStep ==
  /\ worker.alive /\ worker.inbox # <<>> /\ phase # "closed"
  /\ LET m == Head(worker.inbox)
     IN \/ m.type = "close" /\ WorkerCloses
        \/ m.type = "batch" /\ WorkerConnectFails
        \/ m.type = "batch" /\ WorkerExecutes(m)
  /\ UNCHANGED <<queue, timerVars, flight, chained, shutdownVars, fate>>

\* Mutant: an answer settles whatever batch is pending.
SettlesAny(m, f) == f.st = "wait"

\* pending.get(batchId); onerror takes all of them.
Settles(m, f) == f.st = "wait" /\ (m.type = "crash" \/ m.bid = f.bid)

\* onmessage and onerror of WorkerCaptureStore.
Deliver ==
  /\ Quiet /\ worker.outbox # <<>>
  /\ LET m == Head(worker.outbox)
     IN flight' = [k \in Flushes |->
          IF Settles(m, flight[k])
          THEN [flight[k] EXCEPT !.st = IF m.type = "ack" THEN "ok" ELSE "fail"]
          ELSE flight[k]]
  /\ worker' = [worker EXCEPT !.outbox = Tail(@)]
  /\ UNCHANGED <<captureVars, queue, timerVars, chained, shutdownVars, fate>>

\* ACK_TIMEOUT_MS without an answer; the batch may still be applied later.
AckTimeout(k) ==
  /\ Quiet
  /\ flight[k].st = "wait"
  /\ flight' = [flight EXCEPT ![k].st = "fail"]
  /\ UNCHANGED <<captureVars, queue, timerVars, chained, worker, shutdownVars, fate>>

(***************************************************************************)
(* shutdown(): stop the server, wait for the requests (at most 5 s, so the *)
(* handlers may still be open), flush, drain what is left, close.          *)
(***************************************************************************)
ShutdownBegin ==
  /\ Quiet /\ phase = "running"
  /\ phase' = "draining"
  /\ UNCHANGED <<captureVars, queue, timerVars, flushVars, tries, fate>>

\* Mutant: shutdown() waits for the handlers without a deadline.
ShutdownFlushWaits ==
  /\ Quiet /\ phase = "draining"
  /\ \A i \in Ids : fate[i] # "open"
  /\ tries' = tries + 1
  /\ phase' = IF queue = <<>> THEN "leftover" ELSE "flushing"
  /\ FlushNow("shutdown", queue)
  /\ UNCHANGED <<armed, retryTimer, retryCount, chained, fate>>

ShutdownFlush ==
  /\ Quiet /\ phase = "draining"
  /\ tries' = tries + 1
  /\ phase' = IF queue = <<>> THEN "leftover" ELSE "flushing"
  /\ FlushNow("shutdown", queue)
  /\ UNCHANGED <<armed, retryTimer, retryCount, chained, fate>>

Close ==
  IF UseWorker
  THEN /\ phase' = "closing"
       /\ worker' = IF worker.alive
                    THEN [worker EXCEPT !.inbox =
                            Append(@, [type |-> "close", bid |-> 0, ids |-> {}])]
                    ELSE worker
  ELSE phase' = "closed" /\ UNCHANGED worker

\* Mutant: what is left is cut off without marking the rows.
DrainMarksNone(n) == {}

\* The entries whose rows drainForShutdown() marks before onDrop throws.
DrainMarks(n) == Range(SubSeq(queue, 1, n))

ShutdownDrain ==
  /\ phase = "leftover" /\ flight["shutdown"].st = "idle"
  /\ IF queue = <<>>
     THEN Close /\ UNCHANGED <<captureVars, queue, timerVars, fate>>
     ELSE /\ ClearFlushTimer
          /\ flushTimer' = FALSE
          /\ retryTimer' = FALSE
          /\ \E n \in 0 .. Len(queue) :
               /\ OnDrop(DrainMarks(n))
               /\ \/ /\ n = Len(queue)
                     /\ queue' = <<>>
                     /\ fate' = Fated(Range(queue), "dropped")
                     /\ Close
                  \/ /\ n < Len(queue) /\ TRUE \in OnDropThrows
                     /\ queue' = SubSeq(queue, n + 2, Len(queue))
                     /\ fate' = Fated(Range(SubSeq(queue, 1, n + 1)), "dropped")
                     /\ phase' = "closed" /\ UNCHANGED worker
          /\ UNCHANGED <<idVars, rows, usageVars, rowCount, retryCount>>
  /\ UNCHANGED <<flight, chained, tries>>

\* WorkerCaptureStore.close(): nothing pending any more, or its deadline.
WorkerClosed ==
  /\ Quiet /\ phase = "closing"
  /\ phase' = "closed"
  /\ worker' = [worker EXCEPT !.alive = FALSE]
  /\ UNCHANGED <<captureVars, queue, timerVars, flight, chained, tries, fate>>

(***************************************************************************)
(* Requests, the dashboard's clear, and the process itself.                *)
(***************************************************************************)
\* insertEarlyCapture() of a new request.
RequestStarts ==
  /\ Quiet /\ phase = "running"
  /\ StartCapture
  /\ fate' = [fate EXCEPT ![NextId] = "open"]
  /\ UNCHANGED <<queue, timerVars, flushVars, shutdownVars>>

\* onAcquire: db.setState(id, "streaming").
RequestStreams(i) ==
  /\ Quiet
  /\ fate[i] = "open" /\ state[i] = "enqueued" /\ i \in rows
  /\ SetState(i, "streaming")
  /\ UNCHANGED <<queue, timerVars, flushVars, shutdownVars, fate>>

ClearCaptures ==
  /\ Quiet
  /\ Clear
  /\ UNCHANGED <<queue, timerVars, flushVars, shutdownVars, fate>>

NoMemory ==
  /\ queue' = <<>>
  /\ flushTimer' = FALSE /\ armed' = 0 /\ retryTimer' = FALSE /\ retryCount' = 0
  /\ flight' = [k \in Flushes |-> Idle] /\ chained' = FALSE
  /\ phase' = "running" /\ tries' = 0
  /\ worker' = [FreshWorker EXCEPT !.unwritten = worker.unwritten]

\* The process exits or crashes, and starts again: all but the database is
\* gone.
Restart ==
  /\ Reopen
  /\ NoMemory
  /\ fate' = Fated({i \in Ids : fate[i] \in {"open", "queued"}}, "lost")

Init ==
  /\ CapturesInit
  /\ queue = <<>>
  /\ flushTimer = FALSE /\ armed = 0 /\ retryTimer = FALSE /\ retryCount = 0
  /\ flight = [k \in Flushes |-> Idle] /\ chained = FALSE
  /\ phase = "running" /\ tries = 0
  /\ worker = FreshWorker
  /\ fate = [i \in Ids |-> "none"]

QueueUpdate(i) ==
  /\ phase # "closed"
  /\ QueueAndArm(i) \/ QueueAndFlush(i) \/ QueueAndChain(i)

Settle(k) == SettleOk(k) \/ SettleFail(k) \/ SettleExhausted(k)

Next ==
  \/ RequestStarts
  \/ \E i \in Ids : RequestStreams(i) \/ QueueUpdate(i)
  \/ FlushTimerFires \/ RetryTimerFires
  \/ \E k \in Flushes : Settle(k) \/ AckTimeout(k)
  \/ WorkerStep \/ Deliver
  \/ ShutdownBegin \/ ShutdownFlush \/ ShutdownDrain \/ WorkerClosed
  \/ ClearCaptures
  \/ Restart

\* The event loop runs continuations and timers; shutdown() goes on.
Fairness ==
  /\ WF_vars(FlushTimerFires) /\ WF_vars(RetryTimerFires)
  /\ \A k \in Flushes : WF_vars(Settle(k))
  /\ WF_vars(ShutdownFlush) /\ WF_vars(ShutdownDrain)

Spec == Init /\ [][Next]_vars
LiveSpec == Spec /\ Fairness

(***************************************************************************)
(* Properties.                                                             *)
(***************************************************************************)
\* Queue, timers, flights and phases keep their types; in particular the
\* number of pending flush timeouts never runs below the handle that is set,
\* so clearTimeout always finds the timeout it means.
QueueTypeOK ==
  /\ queue \in Seq(Ids)
  /\ flushTimer \in BOOLEAN /\ retryTimer \in BOOLEAN /\ chained \in BOOLEAN
  /\ armed \in Nat /\ (flushTimer => armed > 0)
  /\ retryCount \in 0 .. MaxRetries - 1
  /\ \A k \in Flushes :
       /\ flight[k].batch \in Seq(Ids)
       /\ flight[k].st \in {"idle", "wait", "ok", "fail"}
       /\ flight[k].bid \in 0 .. MaxBatches
  /\ phase \in Phases /\ tries \in 0 .. 3
  /\ worker.conn \in {"none", "open", "broken"} /\ worker.alive \in BOOLEAN
  /\ fate \in [Ids -> Fates]

Pending == queue \o flight["guarded"].batch \o flight["shutdown"].batch

\* No update disappears and none is there twice: whatever is neither stored,
\* dropped with its row marked, given up after the retries nor lost with the
\* process is exactly once in the queue or in a flush under way.
Conserved ==
  /\ {i \in Ids : fate[i] = "queued"} = Range(Pending)
  /\ IsInjective(Pending)

\* Someone will flush what is in the queue: while the server runs, a non-empty
\* queue has a flush timeout, a retry timer, or a flush under way with a
\* guardedFlush() chained to it.
NoStranded ==
  phase = "running" /\ queue # <<>> =>
    armed > 0 \/ retryTimer \/ (Busy /\ chained)

\* What the queue reports as stored (and broadcasts) is in the table and
\* accounted, unless its row left the ring buffer before.  The exception is a
\* batch that a worker without a statement acknowledged (write-worker.ts).
StoredApplied ==
  \A i \in rows : fate[i] = "stored" /\ i \notin worker.unwritten =>
                    state[i] = "done" /\ i \in accounted

\* A row is left in flight only while its update can still come or was given
\* up after the retries: overflow and shutdown mark what they drop, and a
\* restart leaves none.
NoPhantomRows ==
  \A i \in rows :
    state[i] \in InFlightStates => fate[i] \in {"open", "queued", "exhausted"}

\* The table tells the truth about finished requests, both ways (with the types
\* of the queue).
TableAgrees == QueueTypeOK /\ StoredApplied /\ NoPhantomRows

\* Whatever happens to batches and acknowledgements between the two threads, an
\* update that is reported as stored took effect, unless a connection without a
\* statement acknowledged it unwritten, and none is billed twice.
AppliedOnce == StoredApplied /\ BilledOnce

\* An update that arrives is settled (stored, dropped, given up or lost)
\* unless the process ends first.
UpdateSettles ==
  \A i \in Ids : fate[i] = "queued" ~> fate[i] # "queued" \/ phase = "closed"

\* A shutdown that began comes to its end, whatever the handlers do.
ShutdownEnds == phase = "draining" ~> phase \in {"closed", "running"}
=============================================================================
