# TLA+ verification of umans-gate

umans-gate is a local proxy between coding agents and an LLM service. It limits
how many requests are in flight at once (by weighted permits), retries what is
slow, describes images for models that cannot see, and records every request in
SQLite together with what it cost. This directory holds TLA+ models of it, the
TLC configurations that check them, and proofs checked by TLAPS. File names below
are relative to `src/` of the repository unless they begin with `dashboard/`; so
`limiter/gate.ts` here is `src/src/limiter/gate.ts` in `PROJECT.json`.

    tlc -config gate_safety.cfg MCGate       # any run of PROJECT.json
    tlapm GateProofs.tla                     # the proofs of a module, see section 4

## 1. The system

Everything runs in one JavaScript process on one event loop, except the optional
write worker, which is a thread that talks to the process by messages. Hence
code between two `await`s is atomic. What makes the program hard is what may
happen at an `await`: another handler, a timer, an abort signal, an
answer that was no longer expected.

| Component | Code | State | Operations | Hard because |
|---|---|---|---|---|
| Concurrency gate | `limiter/gate.ts`, `limiter/types.ts` | limit, hard cap, soft limit, charged units by intention, waiter queue, batched releases | acquire, release, timeout, abort, drain, resize, setHardCap, setSoftLimit, reconfigure, shutdown | counters kept in four places; reservations lend idle slots; callbacks run inside the drain loop |
| Circuit breaker | `limiter/circuit-breaker.ts` | state, opening time, probe flag, recent 429s | maybeHalfOpen, record429, recordSuccess, resetHalfOpenProbe | late answers of old requests; a probe may end in many ways |
| Request proxy | `proxy.ts`, `in-flight-cooldowns.ts`, `incidents.ts` | one context per request | parse, vision handoff, rate check, acquire, forward, retry, stream, flush | five independent sources of "it is over": client, TTFT timer, deadline, permit watchdog, upstream |
| Captures table | `db.ts` | ring buffer of rows, cached row count | startCapture, setState, batchUpdate, vision rows, clear, restart | the cached count and the table can part; rows vanish under requests in flight |
| Write-behind queue | `queue.ts` | queue, two timers, retry count, flush under way | queueUpdate, guardedFlush, flushNow, drainForShutdown | updates arrive during a flush; failures put batches back; shutdown flushes a second time |
| Write worker | `workers/*.ts` | mailboxes, pending acknowledgements, connection | batchUpdate, acknowledge, crash, close | lost and late acknowledgements; the same batch applied twice |
| Economics | `economics.ts` | price table, daily usage | account, syncPricing, backfill | two transactions with a possible stop between them |
| Rate limiting | `rate.ts`, `request-gate.ts`, `auth.ts` | sliding windows of requests and of failed logins | check, peek, prune | edges of the window; the limiter is replaced by polls, refreshes and reloads |
| Usage client | `usage.ts`, `usage/*` | last snapshot | poll, refresh, reconcile; parse response streams | answers out of order feed limits to the gate; streams are cut anywhere |
| Usage history | `usage-history/*` | samples, events, one row a day | record, coalesce, detect, recompute, prune | samples are pruned while rows are recomputed; failing writes, restarts, boundaries of days |
| Vision handoff | `vision/*` | in-flight map, memory and persistent caches, vision rows | find, describe, share, replace, flush | concurrent requests share one call; five awaits a call, each of which may fail |
| Models, status, warmer | `models.ts`, `status-client.ts`, `warmer.ts` | last answers | poll with backoff | cold start |
| Configuration | `config/*`, the form in `dashboard/src` | file, values in memory, draft in the tab | edit, save, reload, refresh, reset | the same rule is written four times; read-modify-write cycles on one file |
| Stamping | `stamp*.ts`, `restamp-breakpoints.ts`, `model-info-parser.ts` | none | ten pure functions on a request body, in order | steps that contradict each other; limits on breakpoints |
| Id rewriting | `experiments/rewrite-ids.ts` | session rows, id mappings | rewrite, expire, clear | shared by concurrent requests of a session |
| Dashboard API, websocket, live list | `viewer.ts`, `ws.ts`, `dashboard/src/hooks/*` | connected clients, the list on the screen | broadcast, fetch, clear, reconnect | messages, lists and reconnections race |
| Service, updater, CLI | `service/*`, `updater.ts`, `cli.ts` | operating system | install, update | outside the program |

How they interact: `handleProxy()` inserts a row (captures table), asks the rate
limiter, asks the gate for a permit (whose `onAcquire` callback writes the row's
state), forwards the request, tells the breaker what came back, queues one final
update (write-behind queue) and releases the permit. The queue writes batches
into the table, directly or through the worker, and in the same transaction
adds the usage of each capture to the daily totals (economics). Snapshots of
the usage client resize the gate and replace the rate limiter. `shutdown()` in
`index.ts` closes the gate, flushes the queue, marks what is left and closes
the database; the next start marks rows left in flight as done.

`PROJECT.json` lists the hazards of this code line by line; the properties below
are aimed at them.

## 2. The modules

| Module | Models | Uses |
|---|---|---|
| `PermitPool` | what the gate promises: a pool of weighted permits | |
| `Gate` | gate and circuit breaker | instantiates `PermitPool` |
| `Captures` | captures table and the billing of its rows | |
| `WriteBehind` | queue, write worker, shutdown, restart, composed with the table | `Captures` |
| `Economics` | prices, daily costs, correction | |
| `ProxyRequest` | one request from body to end of stream | |
| `ControlPlane` | usage client, configuration file, running configuration, gate limits, request limiter and configuration tab together | |
| `DescriptionStore` | caches of image descriptions, written behind | |
| `VisionBody` | image blocks in a body: found, triaged, replaced | |
| `Vision` | concurrent requests through the vision handoff | `DescriptionStore`, `VisionBody` |
| `Config` | the configuration as data: rules, defaults, loader, reload, form | |
| `Stamping` | the stamp pipeline | |
| `UsageExtract` | token counts out of a streamed response | |
| `RewriteIds` | the id rewriting experiment for one session | |
| `RateWindow` | the sliding windows of requests and of failed logins | |
| `UsageHistory` | samples and daily rows: recording, recomputing, pruning | |
| `UsageEvents` | detection of degradations and the table of events | |
| `DailyRow` | what a day's row measures | |
| `Feed` | websocket and the dashboard's live list | |
| `MCParts` | one run for the parts that are small: each is a state machine or a set of cases of its own | ten of the above |
| other `MC*` | finite values for the constants | the module of that name |
| `GateProofs`, `ProxyRequestProofs`, `WriteBehindProofs`, `ControlPlaneProofs`, `VisionProofs` | theorems about the module of that name and the modules it uses (`Captures` for `WriteBehindProofs`, `DescriptionStore` and `VisionBody` for `VisionProofs`) | those modules, TLAPS |
| `PartsProofs` | theorems about `Economics`, `RewriteIds`, `UsageEvents`, `UsageHistory`, `Stamping` and `Feed` | those six, TLAPS |
| `MeasureProofs` | theorems about `RateWindow` and `DailyRow` | those two, TLAPS |
| `SequenceLemmas` | facts about sequences, positions and counting that several proofs need | TLAPS |

`PROJECT.json` maps every definition to its lines. Operators whose comment begins
with "Mutant" are not part of the models: each is a plausible bug in the
definition that follows it, and putting it in that definition's place makes
some property fail, which shows that the property constrains the code.

### Gate

One action per public method. A method runs to completion in the code, and does
in the model, with one exception: `drainWaiters()` is a loop over the whole
queue and is unrolled into `DrainStep`s. While its `todo` list is not empty no
other action is enabled (`Idle`), so the loop remains atomic towards the rest;
unrolling it lets properties speak of single grants and the proofs do without
recursion.

* `Acquire` is `acquire()`: the weight check, the breaker's answer and what it
  leaves behind, then grant, enqueue or queue full.
* `QueueTimeout`, `Abort`: `removeWaiter()` and the reset of the breaker's probe.
* `Release`, `ReleaseTimer`: releases are collected and returned together
  `releaseCooldownMs` after the first of them.
* `Resize`, `SetHardCap`, `SetSoftLimit`, `Reconfigure`, `Shutdown`: as the
  reconciliation, the reload and the shutdown of `index.ts` call them.
* `Record429`, `RecordSuccess`: the breaker told by the proxy, possibly late, for
  any request that was ever granted. `CooldownElapses`, `Expire429`: time.

Amounts are the scaled integers of the code (`Scale` units are one permit). The
clock is reduced to the three questions the code asks of it. The proportional
split of oversubscribed reservations is an integer division, the code's
`Math.floor` of a product of floating point numbers; the two agree for amounts
of this size but for rounding of the quotient, and no checked property depends
on the last unit. `onAcquire` may throw (`StoreFails`): it writes to the
database; the units then charged to nobody are the ghost variable `leaked`.

### Captures

The table as `startCapture`, `setState`, `batchUpdate`, the vision inserts,
`clear` and the constructor change it. `rowCount` is the cached count that
decides about pruning: a rolled back insert leaves it too high (the counter is
not part of the transaction), bounded here by `MaxDrift`. A row is an id, a
state, the vision mark and the `usage_accounted` flag. `billed` counts how often
its usage was added to the totals.

### WriteBehind

`QueueUpdate` has the three cases of `queueUpdate()`: arm the timer, flush, or
chain a flush to the one under way, dropping the oldest entry above the depth
cap. A flush is a promise in `flight`; it resolves (`Write`, `WorkerStep` +
`Deliver`, `AckTimeout`) and later the code after the `await` runs (`SettleOk`,
`SettleFail`, `SettleExhausted`). That code is a microtask: timers, messages and
new requests wait for it (`Quiet`), other microtasks do not. The worker has two
mailboxes, may die, and may be left with a connection whose statement was never
prepared, in which case it acknowledges what it has not written (ghost
`unwritten`). `shutdown()` is cut at its awaits; handlers still finish requests
meanwhile. `Restart` covers both the end of a shutdown and a crash at any time.
`fate` records what became of each update, for the properties.

Left out of the composition: vision rows and rolled back inserts, which
`Captures` has by itself. A batch id nobody knows any more may be used again,
which bounds `MaxBatches`. `MAX_FLUSH_RETRIES`, 10 in the code, is `MaxRetries`
= 2: the counter only matters as zero, below the limit, and at it.

### Economics

`Account` is the upsert of one capture with the price of that moment;
`SyncPrices` and `Backfill` are the two transactions of `syncPricing()`, with
`Stop` and `Open` between them or at any time. Prices are whole milli-dollars,
so that sums are exact, and `EstimatedCacheRead` keeps the one rounding the code
does. Output and cache creation tokens are priced by the same rule as input
tokens and are counted with them.

### ProxyRequest

`handleProxy()` and `forwardUpstream()` cut at their awaits: reading the body,
the vision handoff, the gate, the fetch, the body of a 502, the fetch with
rewritten ids, the first chunk, the cooldown between attempts, and the stream.
`upstreamSignal` combines the client's signal, the TTFT controller of the
attempt and the deadline; `cause` is the one that fired first. Client, TTFT
timer, deadline and watchdog are actions of their own that may come at any of
these points, subject only to the order their durations force (the watchdog is
set 5 s longer than the deadline of the first fetch). The configuration may be
reloaded at any moment (`Reload`): the number of attempts and the id rewriting
are read where they are used, the TTFT watchdog once, when forwarding begins.
The gate, the limiter and
the queue appear only as answers: the first and the last are `Gate` and
`WriteBehind`. Bodies, headers and stamping are left out, and so is the failure
of `startCapture` (the request then has no row, and nothing to finish).

### ControlPlane

Who sets the limits. `up` is what the upstream reports; a poll or one of the two
fetches of `refreshLimits()` is answered with it at one moment (`PollAnswered`,
`RefreshAnswered`) and applied at a later one (`PollApplies`, `RefreshCaps`,
`RefreshRequests`), so answers overtake each other. Applying a snapshot is the
code of `onChange`: caps first, effective limit next, limiter last. `file`,
`lastRaw` and `live` are the three copies of the configuration the code keeps;
`ReloadConfig` compares the first two as `reload.ts` does and replaces the limiter
when a field of it is among the changes. The tab holds a draft and posts what
differs from what it loaded. A locked save and what follows it are one step: they
are microtasks of one turn. Failing polls, fetches and saves, and restarts, are
bounded by `MaxFaults`.

### DescriptionStore and Vision

A store is a value (memory LRU, pending writes, table rows, timer, retries) and an
operation on it a set of successors, because evictions and failures are choices.
`Vision` takes a request through `processBody()`: the images one after the other,
each looked up in both tiers, joined to a call in flight, or described by this
request through transcoder, craft gate, craft call, gate and fetch. Each of these
awaits is a `pc`; at each the client may leave or the call fail. `inflight` is the
in-flight map with the request that will resolve the entry. An insert or a state write
that throws after the entry was made leaves it for good; such entries are the ghost
`orphaned`. `row` is the row of the image at hand, from "enqueued" to "done" or "failed";
the ghost `unmarked` says of which image the last state write threw.
Questions are reduced to what triage tells apart. `fallen` and `latest` in the
store are ghosts for `ReadsLatest`.

### Pure parts: VisionBody, Config, Stamping, UsageExtract, DailyRow

These are operators without state, checked case by case by `MCParts` against a
reference written independently of the code's algorithm: the walk that finds
image blocks against the walk that replaces them; the value a form accepts against
the value the configuration holds after save and reload (or at the next start); the fields of a stamped body
against each other and against the policy of its model; the counts of a stream
that is cut anywhere against those of the events it holds; the measures of a day
against bounds that hold for any samples. `Config` has all fields of
`validation.ts` with their rules, defaults, environment variables, reload class
and form rule, as tables in the source's order. It ends at the configuration in memory:
the gate and the vision handoff hold copies of their own (section 5). Texts are reduced: a
value has its JSON type and a number, with the text that has ".." in it as a type of its own, a model name is a sequence of parts, an event of a stream
is two halves and a blank line.

### RewriteIds, RateWindow, UsageHistory, UsageEvents

`RewriteIds`: requests of a session retry concurrently; a retry does its table
work in one step before its fetch, then succeeds or fails, while the session row
expires and is pruned. A hash is the pair of what was hashed. `RateWindow`: the
limiter with its running sum and binary search, next to the plain history of what
was let through; the login limiter likewise. `UsageHistory`: samples written or
coalesced, the job at the start and at midnight (early, late, or cut short on any
day), the refresh of today's row, the manual route, pruning, exits, and a
retention that may be changed. A row is the samples it was computed from.
`UsageEvents`: the detector with its two tuples, writes that fail, restarts.

### Feed

One dashboard. The wire is in order; lists come over another connection and may
arrive before or after messages sent earlier. The broadcaster drops a message and
closes the socket when it does not fit (`MaxMail`), the hook reconnects and loads
the list. Two ghosts mark the orders in which the list may be wrong until the next
load: `overtaken` (a list that replaced newer messages) and `revived` (an update
put back a row the list should not have: it is gone, or no longer among the newest);
section 5 has both. A new row that fills the ring first sends the prune, then the row.

## 3. The runs

`pass` runs are exhaustive over their instances. Distinct states are in brackets.

| Run | Instance | What it shows |
|---|---|---|
| `gate_safety` | 4 callers of one and half a permit, two of each intention; caps of 1 and 2 permits; two sets of reservations; queue depth 2 [818k] | `Accounting`: charged, cooling and pending units agree with the callers at every moment; `QueueInv`: queue, timeouts, counters and pending promises agree; `GrantWithinLimit`: no grant exceeds the limit of that moment, however the limit moved; `DrainExhaustive`: a finished drain leaves nobody who could be granted |
| `gate_faults` | 3 callers, thresholds 1 and 2, callbacks that throw [361k] | `BreakerInv`, `SingleFlight`: at most one admission past the breaker per opening, which a late 429 may repeat while the first probe is out; `ImplementsPool`: the gate implements `PermitPool`, with failing callbacks too |
| `gate_patient` | 6 callers, reservations that fill the limit, fairness [12k] | `FIFO` within an intention and `ReservedNotStarved`, when nobody leaves the queue and nothing is reconfigured |
| `wb_direct` | 3 captures, batches and depth of 2, failing transactions, fairness [104k] | `Conserved`: no update lost or doubled; `NoStranded`: a non-empty queue has somebody to flush it; `TableAgrees`: what was reported as stored is in the table and a row in flight has a request or an update that is still to come, or one that was given up after the retries; `UpdateSettles`, `ShutdownEnds` |
| `wb_worker` | 2 captures, worker with 2 batches, lost and late acknowledgements, crashes, throwing callbacks [1.2M] | `AppliedOnce`: an update reported as stored took effect, unless a connection without a statement acknowledged it, and none is billed twice |
| `proxy_request` | all 24 configurations, reloaded at any time, fairness [33k] | `PermitDiscipline`: a permit is released once and upstream is asked only with one; `UpdatedOnce`, `Attributed`: incidents explain the outcome; `BreakerToldOnce`, `PermitReturns`, `CaptureSettles` |
| `vision_handoff` | 2 requests, 2 images, bodies of one and two images, all strategies, all faults, those of the writes of a row and of its state among them [536k] | `DescribesItsImage`: nobody is given, and no cache holds, another image's description or a failure; `InflightOwned`: an entry in flight has an owner who will resolve it, unless an insert or a state write threw before the call; `NothingLeftOpen`: no permit is held on, and no row left open but where its state could not be written; `ReadsLatest`: the store never answers with an older description |
| `control` | 2 upstream plans, one tab, one edit, one refresh besides that of the start, one fault, fairness [339k] | `LimitsAgree`: gate and limiter run with what the running configuration says; `NoClobber`: a save leaves fields alone that the user left alone; `CapsConverge`: the gate ends up with the upstream's limit |
| `parts` | see Bounds [998k] | `FormEdits`, `StampedBodies`, `StreamCounts`, `ImageRewrites`, `DayMeasures` (the pure parts); `RingKeepsNewest`: the ring stays within its bound and loses only what is older than it; `KnownIsPriced`: a row marked as priced has nothing in it at $0, wherever the process stops; `JobHeals`: the daily job degrades no row and completes all within the retention; `EventsChain`: events tell the history without a hole; `MappingsFresh`: a retry renames all its ids with one salt; `WindowRespected`: no window admits more than its limit; `FeedAgrees`: a dashboard that says it is live shows the newest rows as they are |

Three runs are expected to fail; each states what the repository says of itself.

| Run | Property | What TLC finds |
|---|---|---|
| `gate_probe` | `ProbeInFlight` | a probe that ends without a verdict (a 5xx, a network error, a TTFT abort, queue full) leaves the breaker half-open with no probe in flight: everything is rejected until a restart or a late answer of an older request |
| `control_limiter` | `LimiterInSync` | a reload forgets the effective limit it built the limiter from; when the upstream then lifts the limit, nothing differs from "none" and the old limiter stays for good |
| `history_retained` | `RowsRetained` | the manual route forces days whose samples are pruned, by default one such day each time it is called, and replaces their rows by ones without them |

### Bounds

* Gate: two callers per intention are the least that show overtaking, lending
  and skipping within one pass; two weights make a light waiter pass a heavy
  one. `status` slots are reused, so histories are unbounded. `MaxRecent`
  saturates above both thresholds.
* WriteBehind: three captures against a batch size and a depth of two reach the
  overflow, a chained flush and a batch put back in front of newer entries; two
  retries separate "failed" from "exhausted". Two batch ids let one answer be late
  while another batch waits.
* ProxyRequest: nothing is bounded but the number of attempts, at the code's own 3.
* Vision: two requests for one image are a leader and one that joins; requests come
  again, so histories are unbounded. A table of one row and batches of three reach
  eviction, a batch that is full and one that the timer flushes.
* ControlPlane: of the two plans one gives all limits and the other none, and demotes
  the account, so that a late answer of either differs from a new one in every
  field; lowered priority is the snapshot of the start. One edit and one fault
  reach each route.
* parts: captures, two ids more than the ring holds, so that pruning, a count that
  has drifted and the pruning that corrects it occur; costs, two captures of a model
  separate "before" from "after" a price; history, three days of two ticks and
  retentions of one and two; events, four rows, so that two kinds interleave over a
  restart; ids, two requests, a clock past the lifetime of a row; windows, a clock
  past two windows and more attempts than the limit; feed, one row more than ring
  and list hold, a wire of two messages and one break. Cases: every field with values
  on both sides of every bound in `validation.ts`, every policy and rule with
  every shape of body, every cut of a stream at up to two places, bodies of two
  messages, days of up to five samples.

Deadlock is checked in all runs but `parts`, where ids, clocks and cases run out, and
`proxy_request`, where a request ends.

### Fairness

* `PatientSpec`: a started drain ends (the code's loop is synchronous), the release
  timer fires, every holder releases (each exit of the handler does, and the
  watchdog releases after `upstreamTimeoutMs` + 5 s; `PermitReturns` shows this).
  Fairness of the last two is strong, because the unrolled loop disables them for
  its duration where the event loop only delays them.
* `WriteBehind.LiveSpec`: timers fire, resolved promises are continued, and
  `shutdown()` goes on to its next step. Nothing is assumed of the database.
* `ProxyRequest.LiveSpec`: timers fire, a fetch whose signal fired rejects, a body
  in memory can be read, the gate answers (by its queue timeout at the latest).
  Neither upstream nor client ever has to do anything: a fetch may hang for good.
* `ControlPlane.Spec`: a poll is answered and applied again and again: the timer of
  the usage client is never stopped and every fetch has a timeout. Polls may fail
  `MaxFaults` times, and upstream, user and refreshes owe nothing.

## 4. The proofs

A run checks one instance; a theorem holds for all values of the constants that
satisfy the assumptions named in the module. These say that sets the code draws
from are of the right type, sizes are natural numbers, and configurations
have the types validation gives them; the set of requests of the gate is finite.
No proof uses fairness, also where the specification states some.

| Module | Theorem | Statement |
|---|---|---|
| `GateProofs` | `TypeCorrect`, `LimitCorrect` | `Spec => []TypeOK`, `Spec => []LimitInv` |
| | `AccountingCorrect` | `Spec => []Accounting` |
| | `BreakerCorrect`, `BreakerSingleFlight` | `Spec => []BreakerInv`, `Spec => SingleFlight` |
| | `GrantsWithinLimit` | `Spec => GrantWithinLimit` |
| | `GateImplementsPool` | `Spec => ImplementsPool` |
| | `QueueCorrect` (1) | `Spec => []QueueInv` |
| | `DrainIsExhaustive` (1) | `Spec => DrainExhaustive` |
| | `GrantedInOrder` (1) | `PatientSpec => FIFO` |
| `ProxyRequestProofs` | `PermitDisciplined`, `UpdatesOnce`, `AlwaysAttributed` | `Spec => []PermitDiscipline`, `[]UpdatedOnce`, `[]Attributed` |
| | `BreakerHearsOnce` | `Spec => BreakerToldOnce` |
| `WriteBehindProofs` | `RingCorrect` | every behaviour of the table satisfies `RingKeepsNewest` |
| | `UpdatesConserved`, `StoredOnce` | `Spec => []Conserved`, `[]AppliedOnce` |
| | `NothingStranded` (2) | `Spec => []NoStranded` |
| | `TableTruthful` (3) | `Spec => []TableAgrees` |
| `ControlPlaneProofs` | `LimitsCorrect`, `SavesClobberNothing` | `Spec => []LimitsAgree`, `Spec => NoClobber` |
| `VisionProofs` | `DescriptionsMatch`, `OneLeader`, `AllSettled`, `LatestRead` | `Spec => []DescribesItsImage`, `[]InflightOwned`, `[]NothingLeftOpen`, `[]ReadsLatest` |
| `PartsProofs` | `PricedRows`, `FreshMappings`, `EventsAreChained` | `[]KnownIsPriced`, `[]MappingsFresh`, `[]EventsChain` of their machines |
| | `JobsHeal` | `HistorySpec => JobHeals` |
| | `BodiesConsistent` | a stamped body is consistent, for every policy, body and model (`StampedBodies`) |
| | `ListAgrees` | every behaviour of the feed satisfies `[]FeedAgrees` |
| `MeasureProofs` | `WindowsHold` | every behaviour of the two limiters satisfies `[]WindowRespected` |
| | `DaysAgree` | a day's row lies within its bounds, for every sequence of samples (`DayMeasures`) |
| `VisionProofs` | `ImagesAligned`, `QuestionsAgree` | what was found in a body is what is replaced, for every body; the two strategies ask the same question (`ImageRewrites`) |

Four theorems depend on what callbacks do, as the properties do:
(1) `TRUE \notin StoreFails`: the gate's `onAcquire` does not throw; when it does,
`drainWaiters()` stops in the middle of the queue and the code itself breaks these
three properties. (2) `TRUE \notin OnFlushThrows`: `onFlush` runs outside the `try` of
`flushNow()`, and when it throws the chained flush is skipped. (3) `MarksDrops`:
`onDrop` does not throw, and a worker in use has its statements prepared; otherwise a
row may stay in flight or be reported as stored unwritten. The runs that check these
properties set the constants accordingly, and `gate_faults` and `wb_worker` are about
the other values.

### Gate

*Inductive invariants.* `TypeOK`, `LimitInv` and `BreakerInv` are inductive with
`TypeOK` as a hypothesis. (The first two are not part of a run: the theorems say more.) `Accounting` is inductive together with `TypeOK`: its
two halves need each other, as the subtraction in `ReleaseTimer` is exact only
because what is pending is what the cooling callers were charged, and the timer
is known to run only because somebody is cooling. Without `leaked` the ledger
would be false: a callback that throws leaves units nobody holds.

*Counting without recursion.* A sum of weights is the cardinality of a set of
units, `Units(S)`: a caller of weight w owns the pairs (caller, 1..w). That units
of disjoint sets add up, and that moving one caller moves its weight, are
`UnitsUnion` and `UnitsAdd`, proved from the library's theorems on finite sets; the
ledger lemmas (`LedgerGrant`, `LedgerLeak`, `LedgerRelease`, `LedgerTimer`) follow, one
per kind of step.

*Refinement.* `Holders` maps the gate's callers to the pool's holders. A grant is a
`Give` because the charged units include the holders' (`HoldersCharged`, from
`Accounting`) and `CanGrant` bounds the charged units; the timer is a `TakeBack`,
resizing a `SetLimit`, shutdown a `Close`, everything else stutters.

*The queue.* `QueueInv` speaks of states between two passes. `WaitInv` says what holds
during one too: the waiters kept so far and those still to visit are disjoint, have no
repetition, and together are the queued callers; what is still to visit is the end of
the queue the pass started with; timeouts are armed for exactly the queued callers, and
`queuedByIntention` counts them.

*The drain.* One pass is enough because what it grants never makes room for what it
has skipped. That is not obvious with reservations that lend their idle slots: a grant
moves `active` of one intention and `queuedBy` of the same, and both count in the capacity
of the others. `StaysRefused` is the fact: lending shrinks by no less than the charge.
`PassInv` (nobody kept so far fits) is inductive by it, hence `DrainExhaustive`;
`RestInv` (nobody waiting fits, between passes) is inductive for the patient
callers of `PatientSpec`, hence `FIFO`: a caller of the same intention and no greater
weight that waits was itself refused, so the new one is too (`LighterFits`).

### ProxyRequest

`RequestInv` says for each place of the handler what the request owns there: nothing but
its row until the gate grants (`EarlyInv`); in the retry loop a permit, which only the
watchdog may have taken (`LoopInv`); in the stream a permit that went with the flush or the
watchdog (`StreamInv`); nothing at the end (`OverInv`). Two parts are not about the
property but needed for it: `RewriteInv`, that a failed id rewriting is followed by a
timeout or is itself the answer, without which `Attributed` is not inductive; and
`PendingInv`, that an error body that may be passed on has no verdict left to tell.

### Captures and WriteBehind

`RingInv` bounds the rows by the cached count, which may be too high and is never too
low. The lemmas on the statements (`UpdateEffect`, `StartEffect`, ...) serve both the
table by itself and the queue.

`WBInv` has the parts: `PartsInv`, queue and both flights hold each queued id once;
`ShutdownInv`, which flush belongs to which phase; `BoxInv`, that a batch in a mailbox is
the one its flight waits for and that whatever is acknowledged took effect, or is among
what a broken worker left unwritten. `BoxInv` is what `AppliedOnce` needs: without it a
late acknowledgement of an id used before could report another batch as stored.
`StrandInv` strengthens `NoStranded` by the flush under way: chained, or with a timeout of its
own. `PhantomInv` is `NoPhantomRows` under `MarksDrops`.

### ControlPlane

`ControlInv` is `LimitsAgree` itself with `ConfigsOK` and `TabInv`: `LimitsAgree` is
inductive because each route ends in `applyEffectiveLimit()` with the configuration and
the snapshot then in memory (`AppliedLimit`, `CapsAppliedAgree`). `TabInv`, that a field whose
draft differs from what was loaded has been touched, gives `NoClobber`.

### Vision

`VisionInv`: a request has answers for a prefix of its images, each about that image
(`Progress`); an entry in flight belongs to the request at work on it, and orphaned entries
stay (`FlightInv`); a row is open only at work or where a state write threw (`NothingLeftOpen`),
which is inductive with these. Below it, `StoreOK`
describes the store: whatever stands under a key, in memory, pending or as a row, fits the
key, and for a key that lost no write the newest pending write, or else the row, is the last
one written (`LatestKept`). Each operation of the store is shown to keep `StoreOK` for every
successor it allows; `Vision` uses only that.

### The small machines

`PricedInv`: once the process is up, no model with a price has an unpriced capture in a row;
`PricedRows` follows because the backfill precedes the first of them. `RewriteInv`: all
mappings of a version have the salt of that version, and only one for an id. `EventsInv`:
a row that is not an onset points at the row of its kind just before it. Since the last
row of a kind is therefore never pointed at, it is what `getOpenEventForTuple()` finds
(`OpenIsLast`), which closes the circle. `HistoryInv`: of a day within the retention
everything recorded is still there, unless the retention was raised; that
neither deletion reaches into such a day is `RecentKept`, for every length of a day.

### Windows, days, stamping and images

These are about walks, folds and sums over data of any length. No induction theorem of
the library can be used for them, so they are proved without one: a sum or a walk is a
recursive function; such a function is shown to exist by exhibiting a table that satisfies
its equations; and an induction over positions is the argument that a set of
counterexamples in `Nat`, were it not empty, would have a least member (`LeastNumber`).

*Windows.* `WindowInv`: the sum the limiter keeps is the sum over its entries, which are
in the order of their times; they are the tail of the history of what was let through,
and whatever is not in that tail is out of the window. The binary search finds how many
entries are out of the window (`SearchCounts`), and dropping them subtracts what they weigh.
The failed logins are the tail of the attempts compared in the same way.

*Days.* Intervals between samples are sums of the clock, so that any choice of
them fits into the span of the day (`PartFits`) and the hours, which split the choice,
add up to it (`SumByKey`). The intervals of a stretch without movement that count are
its first ones, up to the idle timeout. Bans that are over before the next begins are
disjoint pieces of the day (`BansFit`).

*Stamping.* A lemma per step of the pipeline says which fields the step may touch and
what it leaves behind; `BodiesConsistent` chains them. Breakpoints need the most: content
after a step is the old content with blocks removed or marked, so that blocks that
are marked stay in the order they had. The last family of the table matches every
model, hence every model has a policy.

*Images.* The places of the images in a body are a finite set with an order, and each
of the walks visits such a set along that order (`Ranks`), so that the k-th image found is
the k-th one replaced. The message with the note is the first after which as many images have
passed as there are descriptions, so none of those images comes after it. The theorem assumes what the finder can see: blocks with an inline
image or with a URL (`ShownBody`); the others are the disagreement in section 5.

### Feed

A list that has just arrived may be newer than messages still on the wire, which are then
applied to it all the same: rows are patched back to older states, and put back in front
though newer ones are shown. `FeedInv` says why this heals. What the wire holds is a
*trace*: a sequence of tables, from the one the dashboard has been told of to the one there
is, each message telling of the step to the next (`Tells`, `Traces`). With respect to it a
list has one of three shapes:
`AsOf`, the newest rows of the table told of; `Ahead`, the rows of a later table in states of
either; `Mixed`, rows told of again in front of the first rows of a later table. Each message
keeps a list in one of them (`AsOfStep`, `AheadStep`, `MixedStep`), and at the end of the
trace all three are the newest rows (`CaughtUp`). Two facts make `Mixed` harmless.
The list is never longer than the ring (`MaxList` is at most `Ring`: the dashboard keeps
200 rows, and `validation.ts` wants at least 200 captures), and without a clear a row leaves
the table only when the ring is full after it (`Ringed`), so as many new rows are
told of after it as the list is long, and what is out of order is pushed out. A clear
under way makes any list right (`ClearedFrom`).

`SocketInv`: a dashboard that is live has heard of the opening of the socket it has, or the
closing is still on its way; so whoever is live with an empty wire is a client. `ListInv` adds
the requests: while one is out that will leave the list right (`Sound`), or late and so
`overtaken`, the list may be anything.

### Only model-checked

* Liveness is outside the prover: `ReservedNotStarved`, `UpdateSettles`, `ShutdownEnds`,
  `PermitReturns`, `CaptureSettles`, `CapsConverge`.
* `FormEdits` is about the finitely many fields of `validation.ts`, each with values on both
  sides of its bounds; TLC evaluates them all, and a proof would be as many cases.
* `StreamCounts` composes a buffer that is refilled and drained, blocks that are parsed and
  a loop over events: three recursions inside each other, whose tables would have to be
  exhibited for every way of cutting a stream.

## 5. Disagreements seen without a run of their own

* `gate.ts:8` promises FIFO order; `removeWaiter()` and `reconfigure()` do not drain
  (`gate.ts:236`), so a waiter that has become grantable can be overtaken by the
  next `acquire()`. `gate_patient` excludes both.
* `circuit-breaker.ts:32` calls the probe single-flight; a late 429 opens the breaker again
  while the probe is out, and a second one starts after the cooldown.
* README.md:332-335 says an open breaker blocks traffic; requests already queued
  are still granted while it is open.
* CONTEXT.md:161-162 says a permit is released exactly once; one charged by a grant
  whose `onAcquire` throws is never released (`gate.ts:213`, `leaked`).
* `queue-cap.test.ts:114` says the depth never exceeds its cap; a failed batch is put
  back without looking at it (`queue.ts:165`).
* `queue.ts:154-156` says the batch is dropped when its retries are used up; the
  whole queue is (`queue.ts:178`).
* `shutdown-data-loss.test.ts:12-13` says the flush of a shutdown is retried three
  times; `flushNow()` does not throw when the store fails, so it is tried once.
* `economics.ts:10-11` says historical rows are never recomputed; rows at seed
  prices are (`economics.ts:505`).
* `onFlush` and `getUpstreamP50` run outside the `try` of `flushNow()`: when they
  throw, the chained flush is skipped and updates wait for the next request.
* ADR-0021 asks for one incident per failure; an answer 500 of the proxy itself has
  none, and a failed rewrite has two (`id_rewrite` and `upstream_error`).
* The final update of a row that was pruned while in flight changes nothing, so its usage
  is never billed (`db.ts:656`).
* A client that has left before the stream is set up gets no `client_aborted`
  incident (ADR-0023).
* The comment on `decideRetry()` says that a client that left gives 499; the
  terminal answer of that path is 504.
* `shutdown-data-loss.test.ts:281` expects rows to be marked by a shutdown; when the
  flush of `shutdown()` is the one that exhausts the retries (`queue.ts:178`), its
  entries vanish before they can be marked, and the rows stay in flight until the
  next start. `TableAgrees` excepts "exhausted" for it.
* `economics.ts:12-13` says unpriced rows are corrected; a correction that fails after
  the prices were written (`economics.ts:478`), followed by one capture (`:319`), leaves
  a row marked as priced that was never corrected. `KnownIsPriced` assumes a correction
  that does not fail on the same connection.
* `proxy-error-mitigation.test.ts:399` expects an abort to finish the capture; after the
  watchdog fired during a TTFT retry, `onAbort()` (`proxy.ts:1528`) returns early and no
  update is written. `CaptureSettles` excepts it.

Limits and configuration:

* `limiter/types.ts:6` lists camelCase names and `index.ts:744` compares them with the
  snake_case keys that were applied: a reload never reconfigures the gate.
* `index.ts:381-382` says an unchanged limit keeps its window; after a reload the next
  snapshot replaces the limiter although nothing changed. A changed window with an
  unchanged limit, in turn, keeps the old window.
* `refreshLimits()` writes caps and rate to the file without updating `lastRawConfig`;
  saving 0 afterwards applies nothing, while the tab says "Saved and applied live."
* Where caps are omitted, a poll keeps the last ones and a refresh takes 1; the gate
  starts with the soft limit even when `use_hard_cap` is set; `setSoftLimit()` does not
  clamp.
* `validation.ts:49-53` says numbers sent as text are coerced; `performance_sample_count`
  and `experiment_rewrite_ttl_ms` are not, and fall back to their defaults. Two edits pass
  the form and are refused by the server: an optional number left empty, and a `db_path`
  with ".." in it (`validation.ts:167`, no pattern at `config-sections.ts:172`).
* Vision fields that a reload reports as applied were copied at construction and stay
  as they were. The file is written in place, not renamed into place.
* A draft in the tab is overwritten when a fresh configuration arrives.
* `rate.ts:78`: a clock that is set back breaks the binary search; `retryAfter` is one
  tick short at the inclusive edge of the window.

Bodies:

* `stamp-pipeline.ts:223-225` gives thinking its tokens, which a request whose thinking
  is forced back on (`stamp-thinking.ts:97`) does not get. The pipeline is not
  idempotent for effort "none". Stripping a reminder may remove the block that holds
  the last breakpoint, or leave a message without content.
* `wrapper.ts:71-74` says each image above the maximum is replaced by a placeholder. All
  of them stay in the body, and one note says that they were omitted; a body served from
  the cache is cut at the maximum too and gets no note at all (`handoff.ts:488`, `:536`).
  `ImageRewrites` states what the code does with either. The finder skips image parts without a URL that the replacer counts, which
  shifts the descriptions after them; questions for single images go by the position
  of their message.
* `config-sections.ts:275` says id mappings expire after the last error; the time counts
  from the first. `db.ts:1103-1106` says ON CONFLICT of a plain INSERT.

Vision (lines of `image-processor.ts`):

* An insert or a `setState()` that throws after the in-flight entry was made (`:386`, `:409`)
  leaves it unresolved, and every later request for the image waits. `InflightOwned`
  excepts the entry (`orphaned`); after the state write the row also stays "enqueued".
* `setState()` stands unguarded in the handlers of a call that threw (`:436`) and of a failed
  update (`:482`). When it throws as well, the row stays "streaming" until the next start and
  the image gets the placeholder of a failure, at `:482` although its description was
  stored and given to the waiters. `NothingLeftOpen` excepts exactly this (`unmarked`).
* Requests that joined a call which was then aborted get the placeholder of its failure,
  though they did not leave themselves. When the transcoder or the store throws under them
  they get an empty description.
* `flushNow()` that failed puts its batch back without arming the timer, so that it waits
  for the next write.

Usage history:

* Raising `usage_raw_retention_days` makes the job force days whose samples were
  pruned, against `index.ts:528-534`. With a retention of one day the last minutes of
  yesterday are never counted.
* `getOpenEventForTuple()` may return a row that says "resolved". An onset whose
  resolution fell into a time when the proxy was down counts to the end of the day,
  and a ban ends where it changes its kind.
* A sample whose insert failed is not written again until something changes, and the
  local peak it carried is lost (`index.ts:466`). An idle stretch that was coalesced
  counts as a gap. The manual route with an end in the future writes "missing" rows.

Dashboard: a list that arrives late replaces newer messages (`use-capture-list.ts:52`); an
update for a row that was pruned or cleared puts it back (`use-captures.ts:133`), and may
push a valid one out; so does an update sent before a list was asked for and delivered after
it, when its row is no longer among the newest; a late detail answer replaces the one selected since
(`use-capture-detail.ts:54`); closing the tab's socket reports "down" after
"unavailable". The sweep at the start makes
interrupted requests look finished.

## 6. Not modelled, and the plan

Not modelled: service management, the updater and the CLI (calls to the operating
system); text helpers, logging and compression (no state); charts, tables and
layout of the dashboard, the routes that only read, and the reports of the
economics (presentation); the pollers of models, status and the warmer, which keep
one last answer each; the list of recent vision calls; migrations of the schema;
a write of the configuration file that is cut short.

What is left for the proofs: the queue of the gate when `onAcquire` throws, with what
`leaked` leaves true of it; that the persistent store of descriptions implements a plain map
that may forget; `StreamCounts`, for the reason given in section 4.
