-------------------------------- MODULE Gate --------------------------------
(***************************************************************************)
(* The concurrency gate of umans-gate: src/src/limiter/gate.ts (Semaphore  *)
(* and ConcurrencyGate) and src/src/limiter/circuit-breaker.ts.            *)
(*                                                                         *)
(* The code is JavaScript on one event loop: a method runs to completion   *)
(* before anything else does.  Every public method is one action.  The one *)
(* loop that touches an unbounded amount of state, drainWaiters(), is      *)
(* unrolled: a method that calls it copies the queue to "todo", and while  *)
(* todo is not empty only DrainStep can happen (Idle guards every other    *)
(* action), one step per iteration of the loop.                            *)
(*                                                                         *)
(* Amounts (weights, limit, active) are the scaled integers of the code.   *)
(* Clock readings are abstracted to what the code asks of them: how many   *)
(* concurrency 429s are inside the window, whether the breaker's cooldown  *)
(* has elapsed, whether a timer is armed.                                  *)
(***************************************************************************)
EXTENDS Integers, Sequences, FiniteSets

CONSTANTS
  Requests,     \* callers of acquire(); a slot is reused by the next caller
  Weight,       \* Weight[r]: the rounded, scaled weight r asks for
  Intention,    \* Intention[r]: "main" (proxied request) or "vision"
  Scale,        \* SCALE, the scaled value of one permit
  HardCaps,     \* arguments of setHardCap (0: NaN, infinite or below 1)
  SoftLimits,   \* arguments of setSoftLimit, likewise
  Limits,       \* arguments of resize
  GateConfigs,  \* arguments of reconfigure
  MaxRecent,    \* bound on the counted 429s; the count saturates there
  StoreFails    \* TRUE in StoreFails: db.setState may throw in onAcquire

Intentions == {"main", "vision"}
Other(i) == IF i = "main" THEN "vision" ELSE "main"

GateConfig == [reservations: [Intentions -> Nat], maxQueueDepth: Nat,
               threshold: Nat \ {0}]

ASSUME GateAssumption ==
  /\ IsFiniteSet(Requests)
  /\ Weight \in [Requests -> Nat]
  /\ Intention \in [Requests -> Intentions]
  /\ Scale \in Nat \ {0}
  /\ HardCaps \subseteq Nat /\ SoftLimits \subseteq Nat
  /\ Limits \subseteq Nat
  /\ GateConfigs \subseteq GateConfig
  /\ MaxRecent \in Nat
  /\ StoreFails \in {{FALSE}, BOOLEAN}

VARIABLES
  limit, hardCap, softLimit,      \* scaled
  active, activeBy, queuedBy,     \* charged units, in total and by intention
  pending,                        \* units released, waiting for the timer
  timer,                          \* releaseTimer is armed
  waiters,                        \* the queue, oldest first
  timers,                         \* waiters whose queue timeout is pending
  todo, kept,                     \* drainWaiters(): to visit, kept so far
  cfg,                            \* reservations, maxQueueDepth, threshold
  breaker, probeStarted,          \* CircuitBreaker.state and its probe flag
  recent429, cooled,              \* 429s in the window, cooldown elapsed
  shutdownRequested,
  status,                         \* where each caller is
  probes,                         \* callers admitted as the half-open probe
  leaked                          \* ghost: units no permit will ever return

semVars == <<limit, hardCap, softLimit, cfg>>
countVars == <<active, activeBy>>
releaseVars == <<pending, timer>>
queueVars == <<queuedBy, waiters, timers>>
drainVars == <<todo, kept>>
breakerVars == <<breaker, probeStarted, recent429, cooled>>
callerVars == <<status, probes>>
vars == <<semVars, countVars, releaseVars, queueVars, drainVars, breakerVars,
          callerVars, shutdownRequested, leaked>>

Rejections == {"circuit_open", "queue_full", "timeout", "aborted", "shutdown",
               "invalid_weight", "store_error"}
Settled == Rejections \cup {"done"}
Statuses == {"idle", "queued", "held", "cooling"} \cup Settled

Max(a, b) == IF a > b THEN a ELSE b
Min(a, b) == IF a < b THEN a ELSE b

\* No synchronous drain is under way: the event loop may run another callback.
Idle == todo = <<>>

(***************************************************************************)
(* Admission.                                                              *)
(***************************************************************************)
Reserved == cfg.reservations

\* The configured reservations when they fit in the limit, else their
\* proportional split, main first (the order of the record's keys).
EffectiveReservations ==
  LET sum == Reserved["main"] + Reserved["vision"]
      split(i) == (Reserved[i] * limit) \div sum
      main == Min(split("main"), limit)
  IN IF sum <= limit
     THEN Reserved
     ELSE [i \in Intentions |-> IF i = "main" THEN main
                                ELSE Min(split("vision"), limit - main)]

OverSubscribed == \E i \in Intentions : Reserved[i] > EffectiveReservations[i]

\* Mutants: demand is the queue alone; reservations are ignored.
CapacityQueuedOnly(i) ==
  IF queuedBy[Other(i)] = 0 THEN limit
  ELSE limit - Max(0, EffectiveReservations[Other(i)] - activeBy[Other(i)])
CapacityUnreserved(i) == limit

\* What intention i may fill: the limit less the part of the other
\* intention's reservation that is unfilled, counted only if it has demand.
Capacity(i) ==
  LET k == Other(i)
  IN IF activeBy[k] + queuedBy[k] = 0
     THEN limit
     ELSE limit - Max(0, EffectiveReservations[k] - activeBy[k])

\* Mutant: only the reservations are looked at.
CanGrantOverLimit(i, w) ==
  activeBy[i] + w <= EffectiveReservations[i] \/ OverSubscribed
    \/ active + w <= Capacity(i)

\* Mutant: there is room as long as the limit is not reached.
CanGrantUnweighted(i, w) == active < limit

CanGrant(i, w) ==
  /\ active + w <= limit
  /\ \/ activeBy[i] + w <= EffectiveReservations[i]
     \/ OverSubscribed
     \/ active + w <= Capacity(i)

\* Mutant: the weight is forgotten.
ChargeUnweighted(r) ==
  /\ active' = active + Weight[r]
  /\ activeBy' = [activeBy EXCEPT ![Intention[r]] = @ + Scale]

Charge(r) ==
  /\ active' = active + Weight[r]
  /\ activeBy' = [activeBy EXCEPT ![Intention[r]] = @ + Weight[r]]

\* grant() has charged r when onAcquire runs; only the proxy's main requests
\* pass an onAcquire, which writes the capture's state to the database.
StoreThrows(r, fails) == fails /\ Intention[r] = "main"

\* Mutant: the intention's count is not taken down.
DequeuedNot(i) == queuedBy

Dequeued(i) == [queuedBy EXCEPT ![i] = Max(0, @ - 1)]

\* Mutant: newest first.
StartDrainReversed ==
  /\ todo' = [k \in DOMAIN waiters |-> waiters[Len(waiters) + 1 - k]]
  /\ kept' = <<>>

\* drainWaiters() is entered: the loop visits the queue as it is now.
StartDrain == todo' = waiters /\ kept' = <<>>

-----------------------------------------------------------------------------
(***************************************************************************)
(* The circuit breaker.                                                    *)
(***************************************************************************)
\* Mutant: a half-open breaker lets everyone probe.
BreakerAnswerAll ==
  IF breaker = "closed" THEN "closed"
  ELSE IF breaker = "half_open" \/ cooled THEN "half_open" ELSE "open"

\* maybeHalfOpen(): what a caller of acquire sees.
BreakerAnswer ==
  CASE breaker = "closed" -> "closed"
    [] breaker = "open" /\ ~probeStarted /\ cooled -> "half_open"
    [] breaker = "half_open" /\ ~probeStarted -> "half_open"
    [] OTHER -> "open"

\* ... and what it leaves behind.
MaybeHalfOpen ==
  IF breaker = "open" /\ BreakerAnswer = "half_open"
  THEN /\ breaker' = "half_open"
       /\ probeStarted' = TRUE
       /\ UNCHANGED <<recent429, cooled>>
  ELSE UNCHANGED breakerVars

\* Mutant: the flag stays set.
ResetHalfOpenProbeKeepsFlag ==
  IF breaker = "half_open" /\ probeStarted
  THEN breaker' = "open" /\ cooled' = FALSE /\ UNCHANGED <<probeStarted, recent429>>
  ELSE UNCHANGED breakerVars

\* resetHalfOpenProbe(), called for a probe that left the queue ungranted.
ResetHalfOpenProbe ==
  IF breaker = "half_open" /\ probeStarted
  THEN /\ breaker' = "open"
       /\ probeStarted' = FALSE
       /\ cooled' = FALSE
       /\ UNCHANGED recent429
  ELSE UNCHANGED breakerVars

\* A response can arrive only for a caller that was granted a permit; the
\* permit's watchdog may have released it by then.
ResponsePossible == \E r \in Requests : status[r] \in {"held", "cooling", "done"}

Record429 ==
  /\ Idle /\ ResponsePossible
  /\ recent429' = Min(recent429 + 1, MaxRecent)
  /\ IF recent429 + 1 >= cfg.threshold /\ breaker # "open"
     THEN breaker' = "open" /\ cooled' = FALSE /\ probeStarted' = FALSE
     ELSE UNCHANGED <<breaker, cooled, probeStarted>>
  /\ UNCHANGED <<semVars, countVars, releaseVars, queueVars, drainVars,
                 callerVars, shutdownRequested, leaked>>

RecordSuccess ==
  /\ Idle /\ ResponsePossible
  /\ breaker = "half_open"
  /\ breaker' = "closed"
  /\ probeStarted' = FALSE
  /\ recent429' = 0
  /\ UNCHANGED <<semVars, countVars, releaseVars, queueVars, drainVars, cooled,
                 callerVars, shutdownRequested, leaked>>

\* Time passes: breakerCooldownMs after openedAt, or a 429 leaves the window.
CooldownElapses ==
  /\ Idle /\ breaker = "open" /\ ~cooled
  /\ cooled' = TRUE
  /\ UNCHANGED <<semVars, countVars, releaseVars, queueVars, drainVars, breaker,
                 probeStarted, recent429, callerVars, shutdownRequested, leaked>>

Expire429 ==
  /\ Idle /\ recent429 > 0
  /\ recent429' = recent429 - 1
  /\ UNCHANGED <<semVars, countVars, releaseVars, queueVars, drainVars, breaker,
                 probeStarted, cooled, callerVars, shutdownRequested, leaked>>
-----------------------------------------------------------------------------
(***************************************************************************)
(* Callers: acquire, leave the queue, release.                             *)
(***************************************************************************)
\* The outcomes of acquire() that never reach the semaphore.
Refuse(r) ==
  /\ \/ Weight[r] = 0 /\ status' = [status EXCEPT ![r] = "invalid_weight"]
     \/ /\ Weight[r] > 0 /\ BreakerAnswer = "open"
        /\ status' = [status EXCEPT ![r] = "circuit_open"]
  /\ UNCHANGED <<countVars, queueVars, breakerVars, probes, leaked>>

\* canGrant() holds: grant().  If onAcquire throws, the promise is rejected
\* with the database's error after r has been charged.
GrantNow(r, fails) ==
  /\ CanGrant(Intention[r], Weight[r])
  /\ Charge(r)
  /\ IF StoreThrows(r, fails)
     THEN /\ status' = [status EXCEPT ![r] = "store_error"]
          /\ leaked' = [leaked EXCEPT ![Intention[r]] = @ + Weight[r]]
     ELSE /\ status' = [status EXCEPT ![r] = "held"]
          /\ UNCHANGED leaked
  /\ UNCHANGED queueVars

Enqueue(r) ==
  /\ ~CanGrant(Intention[r], Weight[r])
  /\ Len(waiters) < cfg.maxQueueDepth
  /\ waiters' = Append(waiters, r)
  /\ queuedBy' = [queuedBy EXCEPT ![Intention[r]] = @ + 1]
  /\ timers' = timers \cup {r}
  /\ status' = [status EXCEPT ![r] = "queued"]
  /\ UNCHANGED <<countVars, leaked>>

QueueFull(r) ==
  /\ ~CanGrant(Intention[r], Weight[r])
  /\ Len(waiters) >= cfg.maxQueueDepth
  /\ status' = [status EXCEPT ![r] = "queue_full"]
  /\ UNCHANGED <<countVars, queueVars, leaked>>

\* acquire() past the breaker: wasProbe is what maybeHalfOpen answered.
Admit(r, fails) ==
  /\ Weight[r] > 0 /\ BreakerAnswer # "open"
  /\ MaybeHalfOpen
  /\ probes' = IF BreakerAnswer = "half_open" THEN probes \cup {r}
               ELSE probes \ {r}
  /\ GrantNow(r, fails) \/ Enqueue(r) \/ QueueFull(r)

Acquire(r, fails) ==
  /\ Idle /\ status[r] = "idle"
  /\ Refuse(r) \/ Admit(r, fails)
  /\ UNCHANGED <<semVars, releaseVars, drainVars, shutdownRequested>>

\* removeWaiter() and the reset of the breaker that follows it, then reject.
\* The queue is not drained.
LeaveQueue(r, code) ==
  /\ Idle
  /\ \E k \in 1..Len(waiters) :
       /\ waiters[k] = r
       /\ waiters' = SubSeq(waiters, 1, k - 1)
                       \o SubSeq(waiters, k + 1, Len(waiters))
  /\ queuedBy' = Dequeued(Intention[r])
  /\ timers' = timers \ {r}
  /\ status' = IF status[r] = "queued" THEN [status EXCEPT ![r] = code]
               ELSE status
  /\ IF r \in probes THEN ResetHalfOpenProbe ELSE UNCHANGED breakerVars
  /\ UNCHANGED <<semVars, countVars, releaseVars, drainVars, probes,
                 shutdownRequested, leaked>>

QueueTimeout(r) == r \in timers /\ LeaveQueue(r, "timeout")

\* The caller's AbortSignal fires while it is queued.
Abort(r) == LeaveQueue(r, "aborted")

\* permit.release(): effective once, batched behind one timer.
Release(r) ==
  /\ Idle /\ status[r] = "held"
  /\ IF shutdownRequested
     THEN status' = [status EXCEPT ![r] = "done"] /\ UNCHANGED releaseVars
     ELSE /\ status' = [status EXCEPT ![r] = "cooling"]
          /\ pending' = [pending EXCEPT ![Intention[r]] = @ + Weight[r]]
          /\ timer' = TRUE
  /\ UNCHANGED <<semVars, countVars, queueVars, drainVars, breakerVars, probes,
                 shutdownRequested, leaked>>

\* releaseCooldownMs later the whole batch is returned and the queue drained.
ReleaseTimer ==
  /\ Idle /\ timer
  /\ timer' = FALSE
  /\ pending' = [i \in Intentions |-> 0]
  /\ active' = Max(0, active - (pending["main"] + pending["vision"]))
  /\ activeBy' = [i \in Intentions |-> Max(0, activeBy[i] - pending[i])]
  /\ status' = [r \in Requests |->
                  IF status[r] = "cooling" THEN "done" ELSE status[r]]
  /\ StartDrain
  /\ UNCHANGED <<semVars, queueVars, breakerVars, probes, shutdownRequested,
                 leaked>>

\* The loop of drainWaiters() goes on with "left" kept so far; the queue becomes
\* the kept waiters when the loop ends.
ContinueDrain(left) ==
  /\ todo' = Tail(todo)
  /\ IF Tail(todo) = <<>> THEN waiters' = left /\ kept' = <<>>
     ELSE kept' = left /\ UNCHANGED waiters

\* A waiter that does not fit is kept and skipped.
SkipWaiter(r) ==
  /\ ~CanGrant(Intention[r], Weight[r])
  /\ ContinueDrain(Append(kept, r))
  /\ UNCHANGED <<countVars, queuedBy, timers, status, leaked>>

\* One that fits is granted.  If onAcquire throws, the loop is abandoned and the
\* queue stays as it was, the waiters already granted included; a waiter met
\* again after that has settled its promise, so its new charge is lost.
GrantWaiter(r, fails) ==
  /\ CanGrant(Intention[r], Weight[r])
  /\ Charge(r)
  /\ queuedBy' = Dequeued(Intention[r])
  /\ timers' = timers \ {r}
  /\ IF StoreThrows(r, fails) THEN todo' = <<>> /\ kept' = <<>> /\ UNCHANGED waiters
     ELSE ContinueDrain(kept)
  /\ IF StoreThrows(r, fails) \/ status[r] # "queued"
     THEN /\ leaked' = [leaked EXCEPT ![Intention[r]] = @ + Weight[r]]
          /\ UNCHANGED status
     ELSE /\ status' = [status EXCEPT ![r] = "held"]
          /\ UNCHANGED leaked

\* One iteration of drainWaiters().
DrainStep(fails) ==
  /\ todo # <<>>
  /\ SkipWaiter(Head(todo)) \/ GrantWaiter(Head(todo), fails)
  /\ UNCHANGED <<semVars, releaseVars, breakerVars, probes, shutdownRequested>>

\* The caller's slot is used by the next request.
Reuse(r) ==
  /\ Idle /\ status[r] \in Settled
  /\ \A k \in 1..Len(waiters) : waiters[k] # r
  /\ status' = [status EXCEPT ![r] = "idle"]
  /\ probes' = probes \ {r}
  /\ UNCHANGED <<semVars, countVars, releaseVars, queueVars, drainVars,
                 breakerVars, shutdownRequested, leaked>>
-----------------------------------------------------------------------------
(***************************************************************************)
(* Reconciliation with /v1/usage, configuration reload, shutdown.          *)
(***************************************************************************)
Clamped(n) == Max(Scale, Min(n * Scale, hardCap))

Resize(n) ==
  /\ Idle /\ Clamped(n) # limit
  /\ limit' = Clamped(n)
  /\ StartDrain
  /\ UNCHANGED <<hardCap, softLimit, cfg, countVars, releaseVars, queueVars,
                 breakerVars, callerVars, shutdownRequested, leaked>>

SetHardCap(n) ==
  LET cap == Max(1, n) * Scale
  IN /\ Idle /\ cap # hardCap
     /\ hardCap' = cap
     /\ softLimit' = Min(softLimit, cap)
     /\ IF limit > cap THEN limit' = cap /\ StartDrain
        ELSE UNCHANGED <<limit, drainVars>>
     /\ UNCHANGED <<cfg, countVars, releaseVars, queueVars, breakerVars,
                    callerVars, shutdownRequested, leaked>>

SetSoftLimit(n) ==
  /\ Idle /\ Max(1, n) * Scale # softLimit
  /\ softLimit' = Max(1, n) * Scale
  /\ UNCHANGED <<limit, hardCap, cfg, countVars, releaseVars, queueVars,
                 drainVars, breakerVars, callerVars, shutdownRequested, leaked>>

\* The new window and cooldown may re-date what the breaker remembers.
Reconfigure(c) ==
  /\ Idle /\ c # cfg
  /\ cfg' = c
  /\ recent429' \in 0..recent429
  /\ cooled' \in (IF breaker = "open" THEN BOOLEAN ELSE {cooled})
  /\ UNCHANGED <<limit, hardCap, softLimit, countVars, releaseVars, queueVars,
                 drainVars, breaker, probeStarted, callerVars,
                 shutdownRequested, leaked>>

WaitersOf(i) == {k \in DOMAIN waiters : Intention[waiters[k]] = i}

QueuedAfterShutdown(i) == Max(0, queuedBy[i] - Cardinality(WaitersOf(i)))

\* Rejects every waiter, forgets pending releases, zeroes the counters.
Shutdown ==
  /\ Idle /\ ~shutdownRequested
  /\ shutdownRequested' = TRUE
  /\ active' = 0 /\ activeBy' = [i \in Intentions |-> 0]
  /\ pending' = [i \in Intentions |-> 0] /\ timer' = FALSE
  /\ waiters' = <<>> /\ timers' = {}
  /\ queuedBy' = [i \in Intentions |-> QueuedAfterShutdown(i)]
  /\ status' = [r \in Requests |-> CASE status[r] = "queued" -> "shutdown"
                                     [] status[r] = "cooling" -> "done"
                                     [] OTHER -> status[r]]
  /\ leaked' = [i \in Intentions |-> 0]
  /\ UNCHANGED <<semVars, drainVars, breakerVars, probes>>

Init ==
  /\ \E h \in HardCaps, s \in SoftLimits :
       /\ hardCap = Max(1, h) * Scale
       /\ softLimit = Max(1, s) * Scale
       /\ limit = Max(Scale, Min(Max(1, s) * Scale, Max(1, h) * Scale))
  /\ cfg \in GateConfigs
  /\ active = 0 /\ activeBy = [i \in Intentions |-> 0]
  /\ queuedBy = [i \in Intentions |-> 0]
  /\ pending = [i \in Intentions |-> 0] /\ timer = FALSE
  /\ waiters = <<>> /\ timers = {} /\ todo = <<>> /\ kept = <<>>
  /\ breaker = "closed" /\ probeStarted = FALSE
  /\ recent429 = 0 /\ cooled = FALSE
  /\ shutdownRequested = FALSE
  /\ status = [r \in Requests |-> "idle"] /\ probes = {}
  /\ leaked = [i \in Intentions |-> 0]

Caller(r) ==
  \/ \E fails \in StoreFails : Acquire(r, fails)
  \/ QueueTimeout(r) \/ Abort(r) \/ Release(r) \/ Reuse(r)

Drain == \E fails \in StoreFails : DrainStep(fails)

Control ==
  \/ \E n \in Limits : Resize(n)
  \/ \E n \in HardCaps : SetHardCap(n)
  \/ \E n \in SoftLimits : SetSoftLimit(n)
  \/ \E c \in GateConfigs : Reconfigure(c)
  \/ Shutdown

Breaker == Record429 \/ RecordSuccess \/ CooldownElapses \/ Expire429

Next ==
  \/ \E r \in Requests : Caller(r)
  \/ Drain \/ ReleaseTimer \/ Control \/ Breaker

Spec == Init /\ [][Next]_vars

\* The steady state of patient callers: nobody leaves the queue, the
\* configuration stays, and new callers keep arriving.  The timer fires, a
\* started loop finishes, a permit is released: every exit of the proxy's
\* handler releases it, and a watchdog does so after upstreamTimeoutMs + 5s.
\* Fairness is strong because the unrolled loop disables, for its duration,
\* what the code's event loop only delays.
PatientNext ==
  \/ \E r \in Requests : \/ \E fails \in StoreFails : Acquire(r, fails)
                         \/ Release(r) \/ Reuse(r)
  \/ Drain \/ ReleaseTimer
  \/ \E n \in Limits : Resize(n)

PatientSpec ==
  /\ Init /\ [][PatientNext]_vars
  /\ WF_vars(Drain) /\ SF_vars(ReleaseTimer)
  /\ \A r \in Requests : SF_vars(Release(r))
-----------------------------------------------------------------------------
(***************************************************************************)
(* Properties.                                                             *)
(***************************************************************************)
\* The gate is a permit pool: until shutdown its holders are the callers that
\* hold a permit or whose permit is cooling down.
Holders == IF shutdownRequested THEN {}
           ELSE {r \in Requests : status[r] \in {"held", "cooling"}}

Pool == INSTANCE PermitPool WITH holders <- Holders, closed <- shutdownRequested

\* The units that the callers in S are charged for, as a set to count.
Units(S) == Pool!Units(S)

Callers(states, i) == {r \in Requests : status[r] \in states /\ Intention[r] = i}

\* The shape of the gate's state (the fields of Semaphore, CircuitBreaker and
\* Waiter): no counter is ever negative.
TypeOK ==
  /\ limit \in Nat /\ hardCap \in Nat /\ softLimit \in Nat
  /\ active \in Nat
  /\ activeBy \in [Intentions -> Nat]
  /\ queuedBy \in [Intentions -> Nat]
  /\ pending \in [Intentions -> Nat]
  /\ leaked \in [Intentions -> Nat]
  /\ timer \in BOOLEAN /\ shutdownRequested \in BOOLEAN
  /\ waiters \in Seq(Requests) /\ todo \in Seq(Requests)
  /\ kept \in Seq(Requests)
  /\ timers \subseteq Requests /\ probes \subseteq Requests
  /\ cfg \in GateConfig
  /\ breaker \in {"closed", "open", "half_open"}
  /\ probeStarted \in BOOLEAN /\ cooled \in BOOLEAN
  /\ recent429 \in Nat
  /\ status \in [Requests -> Statuses]

Charged(i) == Cardinality(Units(Callers({"held", "cooling"}, i)))
CoolingDown(i) == Cardinality(Units(Callers({"cooling"}, i)))

Ledger ==
  /\ active = activeBy["main"] + activeBy["vision"]
  /\ \A i \in Intentions : activeBy[i] = Charged(i) + leaked[i]
  /\ \A i \in Intentions : pending[i] = CoolingDown(i)

TimerArmed == timer <=> \E r \in Requests : status[r] = "cooling"

\* The ledger of the semaphore (active, activeByIntention, pendingReleases and
\* releaseTimer).  Until shutdown the units charged to an intention are those
\* of the callers that hold a permit or released one that is still cooling
\* down (plus those of failed grants); what the timer will return
\* is what the cooling callers hold, and the timer runs while there are any.
Accounting == ~shutdownRequested => Ledger /\ TimerArmed

\* assertInvariants(): the effective limit is at least one permit and at most
\* the hard cap, whatever order usage updates and reloads come in.
LimitInv == Scale <= limit /\ limit <= hardCap

\* The waiter queue and what is derived from it.  A waiter is in the queue
\* (or in the part of it that drainWaiters is looking at) exactly while its
\* promise is pending, once, with its timeout armed, and queuedByIntention
\* counts it: the count decides what the other intention may borrow.
QueueInv ==
  LET q == IF Idle THEN waiters ELSE kept \o todo
      queued == {r \in Requests : status[r] = "queued"}
  IN /\ {q[k] : k \in DOMAIN q} = queued
     /\ Len(q) = Cardinality(queued)
     /\ timers = queued
     /\ \A i \in Intentions : queuedBy[i] = Cardinality(Callers({"queued"}, i))

\* The comment on setHardCap: the cap is "a hard grant boundary, NOT a hard
\* real-time ceiling".  Whatever was granted before the limit fell, no grant,
\* immediate or from the queue, leaves more charged than the current limit.
GrantWithinLimit == [][active' > active => active' <= limit']_vars

Grantable == {k \in DOMAIN waiters :
                CanGrant(Intention[waiters[k]], Weight[waiters[k]])}

\* One pass of drainWaiters() is enough: granting a later waiter never makes
\* room for one the pass has skipped.
DrainExhaustive == [][~Idle /\ Idle' => Grantable' = {}]_vars

\* Granted(r): this step gives r its permit.
Granted(r) == status[r] # "held" /\ status'[r] = "held"

\* "waiter queue, FIFO ordering" (gate.ts): a permit never goes to a request
\* while an earlier one of the same intention, no heavier, is still queued.
FIFO ==
  [][\A r, q \in Requests :
       /\ Granted(r) /\ q # r
       /\ status[q] = "queued" /\ status'[q] = "queued"
       /\ Intention[q] = Intention[r] /\ Weight[q] <= Weight[r]
       => /\ status[r] = "queued"
          /\ \E j, k \in DOMAIN waiters :
               j < k /\ waiters[j] = r /\ waiters[k] = q]_vars

\* The gate implements the pool: whatever reservations, queueing, batching of
\* releases and resizing do, callers see permits given only within the limit,
\* once each, and kept until they are returned.
ImplementsPool == Pool!PoolSpec

\* halfOpenProbeStarted is set exactly while the breaker is half open, so that
\* "at most once per opening" (maybeHalfOpen) needs no other state; an open
\* breaker is therefore always one cooldown away from admitting a probe.
BreakerInv == probeStarted <=> breaker = "half_open"

\* One admission per opening (comment on maybeHalfOpen): unless the breaker is
\* closed, the only caller acquire() lets past it is the first one after the
\* cooldown, and that caller leaves it half open. It may open again while that
\* probe is out, by a late 429, and let a second one past after the cooldown.
SingleFlight ==
  [][\A r \in Requests :
       /\ status[r] = "idle" /\ breaker # "closed"
       /\ status'[r] \in {"held", "queued", "queue_full"}
       => breaker = "open" /\ cooled /\ breaker' = "half_open"]_vars

\* "later callers see open (probe already in flight) until recordSuccess closes
\* the breaker or record429 re-opens it": a half-open breaker always has its
\* probe queued or holding a permit, hence still able to settle it.
ProbeInFlight ==
  breaker = "half_open" => \E r \in probes : status[r] \in {"queued", "held"}

\* A reservation keeps its intention from starving: a waiter no heavier than
\* its intention's reservation is granted in the end without any timeout,
\* although the other intention borrows idle slots and keeps arriving.
ReservedNotStarved ==
  \A r \in Requests :
    (status[r] = "queued" /\ Weight[r] <= EffectiveReservations[Intention[r]])
      ~> status[r] = "held"
=============================================================================
