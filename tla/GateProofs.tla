----------------------------- MODULE GateProofs -----------------------------
(***************************************************************************)
(* Proofs about Gate for every set of requests, weights and configurations. *)
(***************************************************************************)
EXTENDS Gate, SequenceLemmas, TLAPS

(***************************************************************************)
(* Arithmetic of Math.max and Math.min.                                    *)
(***************************************************************************)
\* The maximum and the minimum of two naturals are naturals.
LEMMA MaxMinNat == \A a, b \in Nat : Max(a, b) \in Nat /\ Min(a, b) \in Nat
  BY DEF Max, Min

\* Math.max(0, x) clips an integer to a natural.
LEMMA ClipNat == \A a \in Int : Max(0, a) \in Nat
  BY DEF Max

\* Scaling a permit count, clamped to at least one, gives a positive natural.
LEMMA ScaledNat == \A n \in Nat : Max(1, n) * Scale \in Nat /\ Scale \in Nat
<1> TAKE n \in Nat
<1>1. Max(1, n) \in Nat /\ Scale \in Nat
  BY GateAssumption DEF Max
<1>2. \A a, b \in Nat : a * b \in Nat
  OBVIOUS
<1> QED
  BY <1>1, <1>2

\* ... and at least one permit.
LEMMA ScaledFloor == \A n \in Nat : Scale <= Max(1, n) * Scale
<1> TAKE n \in Nat
<1>1. Max(1, n) \in Nat /\ Max(1, n) >= 1 /\ Scale \in Nat
  BY GateAssumption DEF Max
<1>2. \A a, b \in Nat : a >= 1 => b <= a * b
  OBVIOUS
<1> QED
  BY <1>1, <1>2

\* The types of a request's weight and intention, from GateAssumption.
LEMMA RequestType ==
  \A r \in Requests : Weight[r] \in Nat /\ Intention[r] \in Intentions
  BY GateAssumption

\* Adding a request's weight to its intention's counter keeps the counters
\* natural.
LEMMA BumpType ==
  \A f \in [Intentions -> Nat], r \in Requests :
    [f EXCEPT ![Intention[r]] = @ + Weight[r]] \in [Intentions -> Nat]
  BY RequestType

\* The same when the counter may also stay as it is.
LEMMA MaybeBumpType ==
  ASSUME NEW f \in [Intentions -> Nat], NEW r \in Requests, NEW g,
         g = f \/ g = [f EXCEPT ![Intention[r]] = @ + Weight[r]]
  PROVE  g \in [Intentions -> Nat]
<1>1. CASE g = f
  BY <1>1
<1>2. CASE g = [f EXCEPT ![Intention[r]] = @ + Weight[r]]
  BY <1>2, BumpType
<1> QED
  BY <1>1, <1>2

\* So do counting one request up, and down but not below zero.
LEMMA CountType ==
  \A f \in [Intentions -> Nat], i \in Intentions :
    /\ [f EXCEPT ![i] = @ + 1] \in [Intentions -> Nat]
    /\ [f EXCEPT ![i] = Max(0, @ - 1)] \in [Intentions -> Nat]
<1> TAKE f \in [Intentions -> Nat], i \in Intentions
<1>1. f[i] + 1 \in Nat /\ Max(0, f[i] - 1) \in Nat
  BY DEF Max
<1> QED
  BY <1>1

(***************************************************************************)
(* Type correctness, one lemma per group of actions.                       *)
(***************************************************************************)
\* The initial state is well typed.
LEMMA InitTypeOK == Init => TypeOK
<1> SUFFICES ASSUME Init PROVE TypeOK
  OBVIOUS
<1>1. PICK h \in HardCaps, s \in SoftLimits :
        /\ hardCap = Max(1, h) * Scale
        /\ softLimit = Max(1, s) * Scale
        /\ limit = Max(Scale, Min(Max(1, s) * Scale, Max(1, h) * Scale))
  BY DEF Init
<1>2. h \in Nat /\ s \in Nat /\ Scale \in Nat
  BY GateAssumption
<1>3. limit \in Nat /\ hardCap \in Nat /\ softLimit \in Nat
  <2>1. hardCap \in Nat /\ softLimit \in Nat
    BY <1>1, <1>2, ScaledNat
  <2>2. limit = Max(Scale, Min(softLimit, hardCap))
    BY <1>1
  <2> QED
    BY <1>2, <2>1, <2>2, MaxMinNat
<1>4. cfg \in GateConfig
  BY GateAssumption DEF Init
<1>5. timer \in BOOLEAN /\ shutdownRequested \in BOOLEAN
      /\ probeStarted \in BOOLEAN /\ cooled \in BOOLEAN
  BY Zenon DEF Init
<1>6. /\ active \in Nat /\ recent429 \in Nat
      /\ activeBy \in [Intentions -> Nat] /\ queuedBy \in [Intentions -> Nat]
      /\ pending \in [Intentions -> Nat] /\ leaked \in [Intentions -> Nat]
      /\ status \in [Requests -> Statuses]
  BY DEF Init, Statuses
<1>7. /\ waiters \in Seq(Requests) /\ todo \in Seq(Requests)
      /\ kept \in Seq(Requests)
      /\ timers \subseteq Requests /\ probes \subseteq Requests
      /\ breaker \in {"closed", "open", "half_open"}
  BY DEF Init
<1> QED
  BY <1>3, <1>4, <1>5, <1>6, <1>7 DEF TypeOK

\* What the breaker's own steps leave well typed.
LEMMA BreakerTypeOK ==
  ASSUME TypeOK, MaybeHalfOpen \/ ResetHalfOpenProbe \/ UNCHANGED breakerVars
  PROVE  /\ breaker' \in {"closed", "open", "half_open"}
         /\ probeStarted' \in BOOLEAN /\ cooled' \in BOOLEAN
         /\ recent429' \in Nat
  BY DEF TypeOK, MaybeHalfOpen, ResetHalfOpenProbe, breakerVars

\* Charging a request keeps the counters natural.
LEMMA ChargeTypeOK ==
  ASSUME TypeOK, NEW r \in Requests, Charge(r)
  PROVE  active' \in Nat /\ activeBy' \in [Intentions -> Nat]
<1>1. active' \in Nat
  BY RequestType DEF TypeOK, Charge
<1>2. activeBy' \in [Intentions -> Nat]
  BY BumpType, Zenon DEF TypeOK, Charge
<1> QED
  BY <1>1, <1>2

\* acquire() preserves the type invariant.
LEMMA AcquireTypeOK ==
  ASSUME TypeOK, NEW r \in Requests, NEW fails \in StoreFails, Acquire(r, fails)
  PROVE  TypeOK'
<1>1. UNCHANGED <<semVars, releaseVars, drainVars, shutdownRequested>>
  BY DEF Acquire
<1>2. CASE Refuse(r)
  BY <1>1, <1>2 DEF Refuse, TypeOK, semVars, releaseVars, drainVars, countVars,
     queueVars, breakerVars, Statuses, Settled, Rejections
<1>3. CASE Admit(r, fails)
  <2>1. /\ breaker' \in {"closed", "open", "half_open"}
        /\ probeStarted' \in BOOLEAN /\ cooled' \in BOOLEAN
        /\ recent429' \in Nat
    BY <1>3, BreakerTypeOK DEF Admit
  <2>2. probes' \subseteq Requests
    BY <1>3 DEF Admit, TypeOK
  <2>3. CASE GrantNow(r, fails)
    <3>1. leaked' \in [Intentions -> Nat]
      <4>1. \/ leaked' = leaked
            \/ leaked' = [leaked EXCEPT ![Intention[r]] = @ + Weight[r]]
        BY <2>3 DEF GrantNow
      <4> QED
        BY <4>1, MaybeBumpType DEF TypeOK
    <3>2. status' \in [Requests -> Statuses]
      BY <2>3 DEF GrantNow, TypeOK, Statuses, Settled, Rejections
    <3>3. Charge(r) /\ UNCHANGED queueVars
      BY <2>3 DEF GrantNow
    <3> QED
      BY <1>1, <2>1, <2>2, <3>1, <3>2, <3>3, ChargeTypeOK
      DEF TypeOK, semVars, releaseVars, drainVars, queueVars
  <2>4. CASE Enqueue(r)
    <3>1. waiters' \in Seq(Requests) /\ timers' \subseteq Requests
      BY <2>4 DEF Enqueue, TypeOK
    <3>2. queuedBy' \in [Intentions -> Nat]
      BY <2>4, RequestType, CountType, Zenon DEF Enqueue, TypeOK
    <3>3. status' \in [Requests -> Statuses]
      BY <2>4 DEF Enqueue, TypeOK, Statuses
    <3> QED
      BY <1>1, <2>1, <2>2, <2>4, <3>1, <3>2, <3>3
      DEF Enqueue, TypeOK, semVars, releaseVars, drainVars, countVars
  <2>5. CASE QueueFull(r)
    BY <1>1, <2>1, <2>2, <2>5 DEF QueueFull, TypeOK, semVars, releaseVars,
       drainVars, countVars, queueVars, Statuses, Settled, Rejections
  <2> QED
    BY <1>3, <2>3, <2>4, <2>5 DEF Admit
<1> QED
  BY <1>2, <1>3 DEF Acquire

\* Leaving the queue by timeout or abort preserves the type invariant.
LEMMA LeaveQueueTypeOK ==
  ASSUME TypeOK, NEW r \in Requests, NEW code \in Statuses, LeaveQueue(r, code)
  PROVE  TypeOK'
<1>1. waiters' \in Seq(Requests)
  <2>1. PICK k \in 1..Len(waiters) :
          waiters' = SubSeq(waiters, 1, k - 1)
                       \o SubSeq(waiters, k + 1, Len(waiters))
    BY DEF LeaveQueue
  <2>2. waiters \in Seq(Requests)
    BY DEF TypeOK
  <2>3. /\ SubSeq(waiters, 1, k - 1) \in Seq(Requests)
        /\ SubSeq(waiters, k + 1, Len(waiters)) \in Seq(Requests)
    BY <2>2
  <2> QED
    BY <2>1, <2>3
<1>2. queuedBy' \in [Intentions -> Nat]
  BY CountType, RequestType, Zenon DEF LeaveQueue, Dequeued, TypeOK
<1>3. status' \in [Requests -> Statuses]
  BY DEF LeaveQueue, TypeOK
<1>4. /\ breaker' \in {"closed", "open", "half_open"}
      /\ probeStarted' \in BOOLEAN /\ cooled' \in BOOLEAN
      /\ recent429' \in Nat
  BY BreakerTypeOK DEF LeaveQueue
<1> QED
  BY <1>1, <1>2, <1>3, <1>4
  DEF LeaveQueue, TypeOK, semVars, countVars, releaseVars, drainVars

\* permit.release() preserves the type invariant.
LEMMA ReleaseTypeOK ==
  ASSUME TypeOK, NEW r \in Requests, Release(r)
  PROVE  TypeOK'
<1>1. pending' \in [Intentions -> Nat]
  <2>1. \/ pending' = pending
        \/ pending' = [pending EXCEPT ![Intention[r]] = @ + Weight[r]]
    BY DEF Release, releaseVars
  <2> QED
    BY <2>1, MaybeBumpType DEF TypeOK
<1>2. status' \in [Requests -> Statuses]
  BY DEF Release, TypeOK, Statuses, Settled
<1>3. timer' \in BOOLEAN
  BY Zenon DEF Release, TypeOK, releaseVars
<1> QED
  BY <1>1, <1>2, <1>3
  DEF Release, TypeOK, semVars, countVars, queueVars, drainVars, breakerVars

\* The release timer preserves the type invariant.
LEMMA ReleaseTimerTypeOK ==
  ASSUME TypeOK, ReleaseTimer
  PROVE  TypeOK'
<1>1. active' \in Nat /\ activeBy' \in [Intentions -> Nat]
      /\ pending' \in [Intentions -> Nat]
  <2>1. /\ active - (pending["main"] + pending["vision"]) \in Int
        /\ \A i \in Intentions : activeBy[i] - pending[i] \in Int
    BY DEF TypeOK, Intentions
  <2>2. \A i \in Intentions : Max(0, activeBy[i] - pending[i]) \in Nat
    BY <2>1, ClipNat
  <2> QED
    BY <2>1, <2>2, ClipNat DEF ReleaseTimer
<1>2. status' \in [Requests -> Statuses]
  BY DEF ReleaseTimer, TypeOK, Statuses, Settled
<1>3. timer' \in BOOLEAN
  BY Zenon DEF ReleaseTimer
<1>4. todo' \in Seq(Requests) /\ kept' \in Seq(Requests)
  BY DEF ReleaseTimer, StartDrain, TypeOK
<1> QED
  BY <1>1, <1>2, <1>3, <1>4
  DEF ReleaseTimer, TypeOK, semVars, queueVars, breakerVars

\* One iteration of the drain loop preserves the type invariant.
LEMMA DrainStepTypeOK ==
  ASSUME TypeOK, NEW fails \in StoreFails, DrainStep(fails)
  PROVE  TypeOK'
<1> DEFINE r == Head(todo)
<1>1. /\ todo \in Seq(Requests) /\ todo # <<>> /\ kept \in Seq(Requests)
      /\ waiters \in Seq(Requests)
  BY DEF DrainStep, TypeOK
<1>2. r \in Requests /\ Tail(todo) \in Seq(Requests)
      /\ Append(kept, r) \in Seq(Requests) /\ <<>> \in Seq(Requests)
  BY <1>1
<1> HIDE DEF r
<1>3. CASE SkipWaiter(r)
  <2>1. todo' \in Seq(Requests) /\ kept' \in Seq(Requests)
        /\ waiters' \in Seq(Requests)
    BY <1>1, <1>2, <1>3 DEF SkipWaiter, ContinueDrain
  <2> QED
    BY <1>3, <2>1 DEF SkipWaiter, DrainStep, TypeOK, semVars, releaseVars,
       breakerVars, countVars
<1>4. CASE GrantWaiter(r, fails)
  <2>1. todo' \in Seq(Requests) /\ kept' \in Seq(Requests)
        /\ waiters' \in Seq(Requests)
    BY <1>1, <1>2, <1>4 DEF GrantWaiter, ContinueDrain
  <2>2. leaked' \in [Intentions -> Nat]
    <3>1. \/ leaked' = leaked
          \/ leaked' = [leaked EXCEPT ![Intention[r]] = @ + Weight[r]]
      BY <1>4 DEF GrantWaiter
    <3> QED
      BY <1>2, <3>1, MaybeBumpType DEF TypeOK
  <2>3. status' \in [Requests -> Statuses]
    BY <1>4 DEF GrantWaiter, TypeOK, Statuses
  <2>4. active' \in Nat /\ activeBy' \in [Intentions -> Nat]
    BY <1>2, <1>4, ChargeTypeOK DEF GrantWaiter
  <2>5. queuedBy' \in [Intentions -> Nat] /\ timers' \subseteq Requests
    BY <1>2, <1>4, RequestType, CountType, Zenon DEF GrantWaiter, Dequeued, TypeOK
  <2> QED
    BY <2>1, <2>2, <2>3, <2>4, <2>5 DEF DrainStep, TypeOK, semVars, releaseVars,
       breakerVars
<1> QED
  BY <1>3, <1>4 DEF DrainStep, r

\* Reusing a slot, resizing, reconfiguring and shutting down preserve the type
\* invariant.
LEMMA ReuseTypeOK ==
  ASSUME TypeOK, NEW r \in Requests, Reuse(r)
  PROVE  TypeOK'
  BY DEF Reuse, TypeOK, semVars, countVars, releaseVars, queueVars, drainVars,
     breakerVars, Statuses

\* See ReuseTypeOK.
LEMMA ResizeTypeOK ==
  ASSUME TypeOK, NEW n \in Limits, Resize(n)
  PROVE  TypeOK'
<1>1. limit' \in Nat
  <2>1. n * Scale \in Nat /\ Scale \in Nat /\ hardCap \in Nat
    BY GateAssumption DEF TypeOK
  <2> QED
    BY <2>1, MaxMinNat DEF Resize, Clamped
<1>2. todo' \in Seq(Requests) /\ kept' \in Seq(Requests)
  BY DEF Resize, StartDrain, TypeOK
<1> QED
  BY <1>1, <1>2 DEF Resize, TypeOK, countVars, releaseVars, queueVars,
     breakerVars, callerVars

\* See ReuseTypeOK.
LEMMA SetHardCapTypeOK ==
  ASSUME TypeOK, NEW n \in HardCaps, SetHardCap(n)
  PROVE  TypeOK'
<1>1. Max(1, n) * Scale \in Nat
  BY GateAssumption, ScaledNat
<1>2. hardCap' \in Nat /\ limit' \in Nat /\ softLimit' \in Nat
  <2>1. hardCap' = Max(1, n) * Scale /\ softLimit' = Min(softLimit, hardCap')
        /\ limit' \in {limit, hardCap'}
    BY DEF SetHardCap
  <2> QED
    BY <1>1, <2>1, MaxMinNat DEF TypeOK
<1>3. todo' \in Seq(Requests) /\ kept' \in Seq(Requests)
  <2>1. \/ todo' = waiters /\ kept' = <<>>
        \/ todo' = todo /\ kept' = kept
    BY Zenon DEF SetHardCap, StartDrain, drainVars
  <2>2. <<>> \in Seq(Requests)
    OBVIOUS
  <2> QED
    BY <2>1, <2>2 DEF TypeOK
<1> QED
  BY <1>2, <1>3 DEF SetHardCap, TypeOK, countVars, releaseVars, queueVars,
     breakerVars, callerVars

\* See ReuseTypeOK.
LEMMA SetSoftLimitTypeOK ==
  ASSUME TypeOK, NEW n \in SoftLimits, SetSoftLimit(n)
  PROVE  TypeOK'
<1>1. softLimit' \in Nat
  BY GateAssumption, ScaledNat DEF SetSoftLimit
<1> QED
  BY <1>1 DEF SetSoftLimit, TypeOK, countVars, releaseVars, queueVars,
     drainVars, breakerVars, callerVars

\* See ReuseTypeOK.
LEMMA ReconfigureTypeOK ==
  ASSUME TypeOK, NEW c \in GateConfigs, Reconfigure(c)
  PROVE  TypeOK'
<1>1. cfg' \in GateConfig
  BY GateAssumption DEF Reconfigure
<1>2. recent429' \in Nat
  BY DEF Reconfigure, TypeOK
<1>3. cooled' \in BOOLEAN
  BY Zenon DEF Reconfigure, TypeOK
<1> QED
  BY <1>1, <1>2, <1>3 DEF Reconfigure, TypeOK, countVars, releaseVars,
     queueVars, drainVars, callerVars

\* See ReuseTypeOK.
LEMMA ShutdownTypeOK ==
  ASSUME TypeOK, Shutdown
  PROVE  TypeOK'
<1>1. queuedBy' \in [Intentions -> Nat]
  <2>1. ASSUME NEW i \in Intentions PROVE QueuedAfterShutdown(i) \in Nat
    <3>1. IsFiniteSet(DOMAIN waiters)
      BY FS_Interval DEF TypeOK
    <3>2. Cardinality(WaitersOf(i)) \in Nat
      <4>1. WaitersOf(i) \in SUBSET (DOMAIN waiters)
        BY DEF WaitersOf
      <4> QED
        BY <3>1, <4>1, FS_Subset, FS_CardinalityType
    <3> QED
      <4>1. queuedBy[i] - Cardinality(WaitersOf(i)) \in Int
        BY <3>2 DEF TypeOK
      <4> QED
        BY <4>1, ClipNat DEF QueuedAfterShutdown
  <2> QED
    BY <2>1 DEF Shutdown
<1>2. status' \in [Requests -> Statuses]
  BY DEF Shutdown, TypeOK, Statuses, Settled, Rejections
<1>3. timer' \in BOOLEAN /\ shutdownRequested' \in BOOLEAN
  BY Zenon DEF Shutdown
<1>4. /\ active' \in Nat /\ activeBy' \in [Intentions -> Nat]
      /\ pending' \in [Intentions -> Nat] /\ leaked' \in [Intentions -> Nat]
      /\ waiters' \in Seq(Requests) /\ timers' \subseteq Requests
  BY DEF Shutdown
<1> QED
  BY <1>1, <1>2, <1>3, <1>4 DEF Shutdown, TypeOK, semVars, drainVars, breakerVars

\* The breaker's steps preserve the type invariant.
LEMMA BreakerStepTypeOK ==
  ASSUME TypeOK, Breaker
  PROVE  TypeOK'
<1>1. recent429' \in Nat
  <2>1. recent429 \in Nat /\ MaxRecent \in Nat
    BY GateAssumption DEF TypeOK
  <2>2. Min(recent429 + 1, MaxRecent) \in Nat
    BY <2>1 DEF Min
  <2>3. recent429 > 0 => recent429 - 1 \in Nat
    BY <2>1
  <2> QED
    BY <2>1, <2>2, <2>3
    DEF Breaker, Record429, RecordSuccess, CooldownElapses, Expire429
<1>2. /\ breaker' \in {"closed", "open", "half_open"}
      /\ probeStarted' \in BOOLEAN /\ cooled' \in BOOLEAN
  BY DEF Breaker, Record429, RecordSuccess, CooldownElapses, Expire429, TypeOK
<1>3. UNCHANGED <<semVars, countVars, releaseVars, queueVars, drainVars,
                  callerVars, shutdownRequested, leaked>>
  BY DEF Breaker, Record429, RecordSuccess, CooldownElapses, Expire429
<1> QED
  BY <1>1, <1>2, <1>3 DEF TypeOK, semVars, countVars, releaseVars, queueVars,
     drainVars, callerVars

\* Every step of the gate preserves the type invariant.
LEMMA NextTypeOK == TypeOK /\ [Next]_vars => TypeOK'
<1> SUFFICES ASSUME TypeOK, [Next]_vars PROVE TypeOK'
  OBVIOUS
<1>1. ASSUME NEW r \in Requests, Caller(r) PROVE TypeOK'
  BY <1>1, AcquireTypeOK, LeaveQueueTypeOK, ReleaseTypeOK, ReuseTypeOK
  DEF Caller, QueueTimeout, Abort, Statuses, Settled, Rejections
<1>2. CASE Drain
  BY <1>2, DrainStepTypeOK DEF Drain
<1>3. CASE ReleaseTimer
  BY <1>3, ReleaseTimerTypeOK
<1>4. CASE Control
  BY <1>4, ResizeTypeOK, SetHardCapTypeOK, SetSoftLimitTypeOK,
     ReconfigureTypeOK, ShutdownTypeOK DEF Control
<1>5. CASE Breaker
  BY <1>5, BreakerStepTypeOK
<1>6. CASE UNCHANGED vars
  BY <1>6 DEF TypeOK, vars, semVars, countVars, releaseVars, queueVars,
     drainVars, breakerVars, callerVars
<1> QED
  BY <1>1, <1>2, <1>3, <1>4, <1>5, <1>6 DEF Next

\* Whatever callers, timers, responses and reloads do, every field of the
\* semaphore and of the breaker keeps its type; no counter goes below zero.
THEOREM TypeCorrect == Spec => []TypeOK
  BY InitTypeOK, NextTypeOK, PTL DEF Spec

(***************************************************************************)
(* Counting units.                                                         *)
(***************************************************************************)
\* One request has as many units as its weight.
LEMMA UnitsOne ==
  ASSUME NEW r \in Requests
  PROVE  /\ IsFiniteSet({r} \X (1..Weight[r]))
         /\ Cardinality({r} \X (1..Weight[r])) = Weight[r]
<1>1. IsFiniteSet({r}) /\ Cardinality({r}) = 1
  BY FS_Singleton
<1>2. IsFiniteSet(1..Weight[r]) /\ Cardinality(1..Weight[r]) = Weight[r]
  <2>1. Weight[r] \in Nat
    BY RequestType
  <2>2. /\ IsFiniteSet(1..Weight[r])
        /\ Cardinality(1..Weight[r]) =
             IF 1 > Weight[r] THEN 0 ELSE Weight[r] - 1 + 1
    BY <2>1, FS_Interval
  <2> QED
    BY <2>1, <2>2
<1>3. /\ IsFiniteSet({r} \X (1..Weight[r]))
      /\ Cardinality({r} \X (1..Weight[r])) =
           Cardinality({r}) * Cardinality(1..Weight[r])
  BY <1>1, <1>2, FS_Product, Zenon
<1>4. Cardinality({r}) * Cardinality(1..Weight[r]) = Weight[r]
  BY <1>1, <1>2, RequestType
<1> QED
  BY <1>3, <1>4

\* The units of a set of requests can be counted.
LEMMA UnitsFinite ==
  ASSUME NEW S \in SUBSET Requests
  PROVE  IsFiniteSet(Units(S)) /\ Cardinality(Units(S)) \in Nat
<1> DEFINE B == {{r} \X (1..Weight[r]) : r \in S}
           f == [r \in S |-> {r} \X (1..Weight[r])]
<1>1. IsFiniteSet(S)
  BY GateAssumption, FS_Subset
<1>2. f \in Surjection(S, B)
  BY DEF Surjection
<1>3. IsFiniteSet(B)
  BY <1>1, <1>2, FS_Surjection
<1>4. \A T \in B : IsFiniteSet(T)
  BY UnitsOne
<1>5. IsFiniteSet(UNION B)
  BY <1>3, <1>4, FS_UNION
<1> QED
  BY <1>5, FS_CardinalityType DEF Units, Pool!Units

\* Units of disjoint sets of requests add up.
LEMMA UnitsUnion ==
  ASSUME NEW S \in SUBSET Requests, NEW T \in SUBSET Requests, S \cap T = {}
  PROVE  Cardinality(Units(S \cup T)) = Cardinality(Units(S)) + Cardinality(Units(T))
<1>1. Units(S \cup T) = Units(S) \cup Units(T)
  BY DEF Units, Pool!Units
<1>2. Units(S) \cap Units(T) = {}
  BY DEF Units, Pool!Units
<1>3. Cardinality(Units(S) \cap Units(T)) = 0
  BY <1>2, FS_EmptySet
<1>4. /\ IsFiniteSet(Units(S)) /\ Cardinality(Units(S)) \in Nat
      /\ IsFiniteSet(Units(T)) /\ Cardinality(Units(T)) \in Nat
  BY UnitsFinite
<1>5. Cardinality(Units(S) \cup Units(T)) =
        Cardinality(Units(S)) + Cardinality(Units(T))
          - Cardinality(Units(S) \cap Units(T))
  BY <1>4, FS_Union
<1>6. \A a, b \in Nat : a + b - 0 = a + b
  OBVIOUS
<1>7. Cardinality(Units(S) \cup Units(T)) =
        Cardinality(Units(S)) + Cardinality(Units(T))
  BY <1>3, <1>4, <1>5, <1>6, Zenon
<1> QED
  BY <1>1, <1>7, Zenon

\* A new request adds its weight.
LEMMA UnitsAdd ==
  ASSUME NEW S \in SUBSET Requests, NEW r \in Requests, r \notin S
  PROVE  Cardinality(Units(S \cup {r})) = Cardinality(Units(S)) + Weight[r]
<1>1. Units({r}) = {r} \X (1..Weight[r])
  <2>1. {{q} \X (1..Weight[q]) : q \in {r}} = {{r} \X (1..Weight[r])}
    OBVIOUS
  <2>2. \A A : UNION {A} = A
    OBVIOUS
  <2> QED
    BY <2>1, <2>2, Zenon DEF Units, Pool!Units
<1>2. Cardinality(Units({r})) = Weight[r]
  BY <1>1, UnitsOne
<1> QED
  BY <1>2, UnitsUnion

(***************************************************************************)
(* The ledger, one lemma per way a step changes who is charged.            *)
(***************************************************************************)
\* The sets whose units the ledger counts are finite sets of requests, and the
\* cooling callers are among the charged ones.
LEMMA ChargedType ==
  ASSUME NEW i
  PROVE  Charged(i) \in Nat /\ CoolingDown(i) \in Nat
<1>1. /\ Callers({"held", "cooling"}, i) \in SUBSET Requests
      /\ Callers({"cooling"}, i) \in SUBSET Requests
  BY DEF Callers
<1> QED
  BY <1>1, UnitsFinite DEF Charged, CoolingDown

\* A step that moves nobody into or out of "held" and "cooling" leaves what is
\* charged and what cools down as they were.
LEMMA LedgerFrame ==
  ASSUME Ledger, UNCHANGED <<active, activeBy, pending, leaked>>,
         \A r \in Requests :
           /\ status'[r] = "held" <=> status[r] = "held"
           /\ status'[r] = "cooling" <=> status[r] = "cooling"
  PROVE  Ledger'
<1>1. \A i : /\ Callers({"held", "cooling"}, i)' = Callers({"held", "cooling"}, i)
              /\ Callers({"cooling"}, i)' = Callers({"cooling"}, i)
  BY DEF Callers
<1>2. \A i : Charged(i)' = Charged(i) /\ CoolingDown(i)' = CoolingDown(i)
  BY <1>1, Zenon DEF Charged, CoolingDown
<1> QED
  BY <1>2, Zenon DEF Ledger

\* Charging keeps the total equal to the sum over the two intentions.
LEMMA ChargeSum ==
  ASSUME TypeOK, NEW r \in Requests, Charge(r),
         active = activeBy["main"] + activeBy["vision"]
  PROVE  active' = activeBy'["main"] + activeBy'["vision"]
<1>1. Weight[r] \in Nat /\ Intention[r] \in {"main", "vision"}
      /\ activeBy \in [{"main", "vision"} -> Nat] /\ active \in Nat
  BY RequestType DEF TypeOK, Intentions
<1>2. /\ active' = active + Weight[r]
      /\ activeBy' = [activeBy EXCEPT ![Intention[r]] = @ + Weight[r]]
  BY DEF Charge
<1>3. CASE Intention[r] = "main"
  BY <1>1, <1>2, <1>3
<1>4. CASE Intention[r] = "vision"
  BY <1>1, <1>2, <1>4
<1> QED
  BY <1>1, <1>3, <1>4

\* A grant: r is charged and now holds a permit.
LEMMA LedgerGrant ==
  ASSUME TypeOK, Ledger, NEW r \in Requests,
         status[r] \notin {"held", "cooling"},
         Charge(r), status' = [status EXCEPT ![r] = "held"],
         UNCHANGED <<pending, leaked>>
  PROVE  Ledger'
<1> DEFINE H(i) == Callers({"held", "cooling"}, i)
<1>1. /\ \A i : Callers({"cooling"}, i)' = Callers({"cooling"}, i)
      /\ H(Intention[r])' = H(Intention[r]) \cup {r}
      /\ \A i : i # Intention[r] => H(i)' = H(i)
      /\ r \notin H(Intention[r])
      /\ \A i : H(i) \in SUBSET Requests
  BY DEF TypeOK, Callers
<1>2. \A i : CoolingDown(i)' = CoolingDown(i)
  BY <1>1, Zenon DEF CoolingDown
<1>3. \A i : i # Intention[r] => Charged(i)' = Charged(i)
  BY <1>1, Zenon DEF Charged
<1>4. Charged(Intention[r])' = Charged(Intention[r]) + Weight[r]
  BY <1>1, UnitsAdd DEF Charged
<1> HIDE DEF H
<1>5. \A i \in Intentions : activeBy'[i] = Charged(i)' + leaked'[i]
  <2> TAKE i \in Intentions
  <2>1. activeBy[i] = Charged(i) + leaked[i] /\ leaked[i] \in Nat
        /\ Charged(i) \in Nat /\ Weight[r] \in Nat
    BY RequestType, ChargedType DEF Ledger, TypeOK
  <2>2. activeBy'[i] = IF i = Intention[r] THEN activeBy[i] + Weight[r]
                       ELSE activeBy[i]
    BY DEF Charge, TypeOK
  <2> QED
    BY <1>3, <1>4, <2>1, <2>2
<1>6. active' = activeBy'["main"] + activeBy'["vision"]
  BY ChargeSum DEF Ledger
<1> QED
  BY <1>2, <1>5, <1>6 DEF Ledger

\* A lost grant: r is charged, nobody gets the permit, the ghost records it.
LEMMA LedgerLeak ==
  ASSUME TypeOK, Ledger, NEW r \in Requests, Charge(r),
         leaked' = [leaked EXCEPT ![Intention[r]] = @ + Weight[r]],
         UNCHANGED pending,
         \A q \in Requests :
           /\ status'[q] = "held" <=> status[q] = "held"
           /\ status'[q] = "cooling" <=> status[q] = "cooling"
  PROVE  Ledger'
<1>1. \A i : /\ Callers({"held", "cooling"}, i)' = Callers({"held", "cooling"}, i)
              /\ Callers({"cooling"}, i)' = Callers({"cooling"}, i)
  BY DEF Callers
<1>2. \A i : Charged(i)' = Charged(i) /\ CoolingDown(i)' = CoolingDown(i)
  BY <1>1, Zenon DEF Charged, CoolingDown
<1>3. \A i \in Intentions : activeBy'[i] = Charged(i)' + leaked'[i]
  <2> TAKE i \in Intentions
  <2>1. activeBy[i] = Charged(i) + leaked[i] /\ leaked[i] \in Nat
        /\ Charged(i) \in Nat /\ Weight[r] \in Nat
    BY RequestType, ChargedType DEF Ledger, TypeOK
  <2>2. /\ activeBy'[i] = IF i = Intention[r] THEN activeBy[i] + Weight[r]
                          ELSE activeBy[i]
        /\ leaked'[i] = IF i = Intention[r] THEN leaked[i] + Weight[r]
                        ELSE leaked[i]
    BY DEF Charge, TypeOK
  <2> QED
    BY <1>2, <2>1, <2>2
<1>4. active' = activeBy'["main"] + activeBy'["vision"]
  BY ChargeSum DEF Ledger
<1> QED
  BY <1>2, <1>3, <1>4 DEF Ledger

\* release(): r starts cooling down, still charged.
LEMMA LedgerRelease ==
  ASSUME TypeOK, Ledger, NEW r \in Requests, status[r] = "held",
         status' = [status EXCEPT ![r] = "cooling"],
         pending' = [pending EXCEPT ![Intention[r]] = @ + Weight[r]],
         UNCHANGED <<active, activeBy, leaked>>
  PROVE  Ledger'
<1> DEFINE C(i) == Callers({"cooling"}, i)
<1>1. /\ \A i : Callers({"held", "cooling"}, i)' = Callers({"held", "cooling"}, i)
      /\ C(Intention[r])' = C(Intention[r]) \cup {r}
      /\ \A i : i # Intention[r] => C(i)' = C(i)
      /\ r \notin C(Intention[r])
      /\ \A i : C(i) \in SUBSET Requests
  BY DEF TypeOK, Callers
<1>2. \A i : Charged(i)' = Charged(i)
  BY <1>1, Zenon DEF Charged
<1>3. \A i : i # Intention[r] => CoolingDown(i)' = CoolingDown(i)
  BY <1>1, Zenon DEF CoolingDown
<1>4. CoolingDown(Intention[r])' = CoolingDown(Intention[r]) + Weight[r]
  BY <1>1, UnitsAdd DEF CoolingDown
<1> HIDE DEF C
<1>5. \A i \in Intentions : pending'[i] = CoolingDown(i)'
  BY <1>3, <1>4, RequestType, ChargedType DEF Ledger, TypeOK
<1> QED
  BY <1>2, <1>5 DEF Ledger

\* The release timer: everything that cools down is returned.
LEMMA LedgerTimer ==
  ASSUME TypeOK, Ledger, ReleaseTimer
  PROVE  Ledger'
<1> DEFINE H(i) == Callers({"held"}, i)
           C(i) == Callers({"cooling"}, i)
<1>1. /\ \A i : Callers({"held", "cooling"}, i) = H(i) \cup C(i)
      /\ \A i : H(i) \cap C(i) = {}
      /\ \A i : H(i) \in SUBSET Requests /\ C(i) \in SUBSET Requests
      /\ \A i : Callers({"held", "cooling"}, i)' = H(i)
      /\ \A i : C(i)' = {}
  BY DEF TypeOK, Callers, ReleaseTimer
<1>2. \A i : Charged(i) = Cardinality(Units(H(i))) + CoolingDown(i)
  BY <1>1, UnitsUnion, Zenon DEF Charged, CoolingDown
<1>3. \A i : Charged(i)' = Cardinality(Units(H(i)))
  BY <1>1, Zenon DEF Charged
<1>4. \A i : CoolingDown(i)' = 0
  <2>1. Units({}) = {}
    BY DEF Units, Pool!Units
  <2> QED
    BY <1>1, <2>1, FS_EmptySet, Zenon DEF CoolingDown
<1>5. \A i : Cardinality(Units(H(i))) \in Nat
  BY <1>1, UnitsFinite
<1> HIDE DEF H, C
<1>6. ASSUME NEW i \in Intentions
      PROVE  /\ activeBy[i] - pending[i] \in Nat
             /\ activeBy[i] - pending[i] = Charged(i)' + leaked[i]
  <2>1. activeBy[i] = Charged(i) + leaked[i] /\ pending[i] = CoolingDown(i)
    BY <1>6 DEF Ledger
  <2>2. leaked[i] \in Nat
    BY DEF TypeOK
  <2>3. Cardinality(Units(H(i))) \in Nat /\ CoolingDown(i) \in Nat
    BY <1>5, ChargedType
  <2> QED
    BY <1>2, <1>3, <2>1, <2>2, <2>3
<1>7. \A i \in Intentions : activeBy'[i] = activeBy[i] - pending[i]
  BY <1>6 DEF ReleaseTimer, Max
<1>8. active' = activeBy'["main"] + activeBy'["vision"]
  <2>1. "main" \in Intentions /\ "vision" \in Intentions
    BY DEF Intentions
  <2>2. active - (pending["main"] + pending["vision"])
          = (activeBy["main"] - pending["main"])
              + (activeBy["vision"] - pending["vision"])
    BY <2>1 DEF Ledger, TypeOK
  <2>3. active' = Max(0, active - (pending["main"] + pending["vision"]))
    BY DEF ReleaseTimer
  <2>4. active - (pending["main"] + pending["vision"]) \in Nat
    BY <1>6, <2>1, <2>2
  <2> QED
    BY <1>7, <2>1, <2>2, <2>3, <2>4 DEF Max
<1>9. \A i \in Intentions : activeBy'[i] = Charged(i)' + leaked'[i]
  BY <1>6, <1>7 DEF ReleaseTimer
<1>10. \A i \in Intentions : pending'[i] = CoolingDown(i)'
  BY <1>4 DEF ReleaseTimer
<1> QED
  BY <1>8, <1>9, <1>10 DEF Ledger

\* The initial ledger is empty.
LEMMA InitAccounting == Init => Accounting
<1> SUFFICES ASSUME Init PROVE Ledger /\ TimerArmed
  BY DEF Accounting
<1>1. \A i : /\ Callers({"held", "cooling"}, i) = {}
              /\ Callers({"cooling"}, i) = {}
  BY DEF Init, Callers
<1>2. Units({}) = {} /\ Cardinality({}) = 0
  BY FS_EmptySet DEF Units, Pool!Units
<1>3. \A i : Charged(i) = 0 /\ CoolingDown(i) = 0
  BY <1>1, <1>2, Zenon DEF Charged, CoolingDown
<1>4. Ledger
  BY <1>3 DEF Ledger, Init, Intentions
<1>5. TimerArmed
  BY Zenon DEF TimerArmed, Init
<1> QED
  BY <1>4, <1>5

\* The timer stays armed for the same cooling callers.
LEMMA TimerFrame ==
  ASSUME TimerArmed, UNCHANGED timer,
         \A r \in Requests : status'[r] = "cooling" <=> status[r] = "cooling"
  PROVE  TimerArmed'
  BY Zenon DEF TimerArmed

\* Steps that move no charge.
LEMMA AccountingFrame ==
  ASSUME Accounting,
         UNCHANGED <<countVars, releaseVars, leaked, shutdownRequested>>,
         \A r \in Requests :
           /\ status'[r] = "held" <=> status[r] = "held"
           /\ status'[r] = "cooling" <=> status[r] = "cooling"
  PROVE  Accounting'
  BY LedgerFrame, TimerFrame, Zenon DEF Accounting, countVars, releaseVars

\* acquire() keeps the books, whether it refuses, grants, queues or fails.
LEMMA AcquireAccounting ==
  ASSUME TypeOK, Accounting, NEW r \in Requests, NEW fails \in StoreFails,
         Acquire(r, fails)
  PROVE  Accounting'
<1>1. status[r] = "idle" /\ UNCHANGED <<pending, timer, shutdownRequested>>
  BY DEF Acquire, releaseVars
<1>2. CASE Refuse(r) \/ Enqueue(r) \/ QueueFull(r)
  <2>1. UNCHANGED <<countVars, releaseVars, leaked, shutdownRequested>>
    BY <1>2, Zenon DEF Acquire, Refuse, Enqueue, QueueFull
  <2>2. \E st \in {"invalid_weight", "circuit_open", "queued", "queue_full"} :
          status' = [status EXCEPT ![r] = st]
    BY <1>2 DEF Refuse, Enqueue, QueueFull
  <2>3. \A q \in Requests :
          /\ status'[q] = "held" <=> status[q] = "held"
          /\ status'[q] = "cooling" <=> status[q] = "cooling"
    BY <1>1, <2>2 DEF TypeOK
  <2> QED
    BY <2>1, <2>3, AccountingFrame
<1>3. CASE GrantNow(r, fails)
  <2> SUFFICES ASSUME ~shutdownRequested PROVE Ledger' /\ TimerArmed'
    BY <1>1 DEF Accounting
  <2>1. Ledger /\ TimerArmed /\ Charge(r)
    BY <1>3 DEF GrantNow, Accounting
  <2>2. CASE StoreThrows(r, fails)
    <3>1. /\ status' = [status EXCEPT ![r] = "store_error"]
          /\ leaked' = [leaked EXCEPT ![Intention[r]] = @ + Weight[r]]
      BY <1>3, <2>2 DEF GrantNow
    <3>2. \A q \in Requests :
            /\ status'[q] = "held" <=> status[q] = "held"
            /\ status'[q] = "cooling" <=> status[q] = "cooling"
      BY <1>1, <3>1 DEF TypeOK
    <3> QED
      BY <1>1, <2>1, <3>1, <3>2, LedgerLeak, TimerFrame
  <2>3. CASE ~StoreThrows(r, fails)
    <3>1. status' = [status EXCEPT ![r] = "held"] /\ leaked' = leaked
      BY <1>3, <2>3 DEF GrantNow
    <3>2. \A q \in Requests : status'[q] = "cooling" <=> status[q] = "cooling"
      BY <1>1, <3>1 DEF TypeOK
    <3>3. status[r] \notin {"held", "cooling"}
      BY <1>1
    <3> QED
      BY <1>1, <2>1, <3>1, <3>2, <3>3, LedgerGrant, TimerFrame
  <2> QED
    BY <2>2, <2>3
<1> QED
  BY <1>2, <1>3 DEF Acquire, Admit

\* Leaving the queue moves no charge.
LEMMA LeaveQueueAccounting ==
  ASSUME TypeOK, Accounting, NEW r \in Requests, NEW code \in {"timeout", "aborted"},
         LeaveQueue(r, code)
  PROVE  Accounting'
<1>1. UNCHANGED <<countVars, releaseVars, leaked, shutdownRequested>>
  BY DEF LeaveQueue
<1>2. \A q \in Requests :
        /\ status'[q] = "held" <=> status[q] = "held"
        /\ status'[q] = "cooling" <=> status[q] = "cooling"
  BY DEF LeaveQueue, TypeOK
<1> QED
  BY <1>1, <1>2, AccountingFrame

\* release() moves units from held to cooling and arms the timer.
LEMMA ReleaseAccounting ==
  ASSUME TypeOK, Accounting, NEW r \in Requests, Release(r)
  PROVE  Accounting'
<1> SUFFICES ASSUME ~shutdownRequested' PROVE Ledger' /\ TimerArmed'
  BY DEF Accounting
<1>1. ~shutdownRequested /\ Ledger /\ TimerArmed
  BY DEF Release, Accounting
<1>2. /\ status[r] = "held"
      /\ status' = [status EXCEPT ![r] = "cooling"]
      /\ pending' = [pending EXCEPT ![Intention[r]] = @ + Weight[r]]
      /\ UNCHANGED <<active, activeBy, leaked>>
  BY <1>1 DEF Release, countVars
<1>3. timer' /\ status'[r] = "cooling"
  BY <1>1, <1>2 DEF Release, TypeOK
<1>4. TimerArmed'
  BY <1>3, Zenon DEF TimerArmed
<1> QED
  BY <1>1, <1>2, <1>4, LedgerRelease

\* The release timer empties the batch.
LEMMA ReleaseTimerAccounting ==
  ASSUME TypeOK, Accounting, ReleaseTimer
  PROVE  Accounting'
<1> SUFFICES ASSUME ~shutdownRequested' PROVE Ledger' /\ TimerArmed'
  BY DEF Accounting
<1>1. Ledger
  BY DEF ReleaseTimer, Accounting
<1>2. \A q \in Requests : status'[q] # "cooling"
  BY DEF ReleaseTimer, TypeOK
<1>3. timer' = FALSE
  BY DEF ReleaseTimer
<1>4. TimerArmed'
  BY <1>2, <1>3, Zenon DEF TimerArmed
<1> QED
  BY <1>1, <1>4, LedgerTimer

\* One iteration of the drain loop charges at most one waiter.
LEMMA DrainStepAccounting ==
  ASSUME TypeOK, Accounting, NEW fails \in StoreFails, DrainStep(fails)
  PROVE  Accounting'
<1> DEFINE r == Head(todo)
<1>1. r \in Requests
  BY DEF DrainStep, TypeOK
<1>2. UNCHANGED <<pending, timer, shutdownRequested, releaseVars>>
  BY DEF DrainStep, releaseVars
<1>3. SkipWaiter(r) \/ GrantWaiter(r, fails)
  BY DEF DrainStep
<1> HIDE DEF r
<1>4. CASE SkipWaiter(r)
  <2>1. UNCHANGED <<countVars, releaseVars, leaked, shutdownRequested, status>>
    BY <1>2, <1>4 DEF SkipWaiter
  <2> QED
    BY <2>1, AccountingFrame
<1>5. CASE GrantWaiter(r, fails)
  <2> SUFFICES ASSUME ~shutdownRequested PROVE Ledger' /\ TimerArmed'
    BY <1>2 DEF Accounting
  <2>1. Ledger /\ TimerArmed /\ Charge(r)
    BY <1>5 DEF GrantWaiter, Accounting
  <2>2. CASE StoreThrows(r, fails) \/ status[r] # "queued"
    <3>1. /\ status' = status
          /\ leaked' = [leaked EXCEPT ![Intention[r]] = @ + Weight[r]]
      BY <1>5, <2>2 DEF GrantWaiter
    <3> QED
      BY <1>1, <1>2, <2>1, <3>1, LedgerLeak, TimerFrame
  <2>3. CASE ~(StoreThrows(r, fails) \/ status[r] # "queued")
    <3>1. status' = [status EXCEPT ![r] = "held"] /\ leaked' = leaked
          /\ status[r] = "queued"
      BY <1>5, <2>3 DEF GrantWaiter
    <3>2. \A q \in Requests : status'[q] = "cooling" <=> status[q] = "cooling"
      BY <1>1, <3>1 DEF TypeOK
    <3>3. status[r] \notin {"held", "cooling"}
      BY <3>1
    <3> QED
      BY <1>1, <1>2, <2>1, <3>1, <3>2, <3>3, LedgerGrant, TimerFrame
  <2> QED
    BY <2>2, <2>3
<1> QED
  BY <1>3, <1>4, <1>5

\* Every step of the gate keeps the books.
LEMMA NextAccounting == TypeOK /\ Accounting /\ [Next]_vars => Accounting'
<1> SUFFICES ASSUME TypeOK, Accounting, [Next]_vars PROVE Accounting'
  OBVIOUS
<1>1. ASSUME NEW r \in Requests, Caller(r) PROVE Accounting'
  <2>1. CASE Reuse(r)
    <3>1. UNCHANGED <<countVars, releaseVars, leaked, shutdownRequested>>
      BY <2>1 DEF Reuse
    <3>2. \A q \in Requests :
            /\ status'[q] = "held" <=> status[q] = "held"
            /\ status'[q] = "cooling" <=> status[q] = "cooling"
      BY <2>1 DEF Reuse, TypeOK, Settled, Rejections
    <3> QED
      BY <3>1, <3>2, AccountingFrame
  <2> QED
    BY <1>1, <2>1, AcquireAccounting, LeaveQueueAccounting, ReleaseAccounting
    DEF Caller, QueueTimeout, Abort
<1>2. CASE Drain
  BY <1>2, DrainStepAccounting DEF Drain
<1>3. CASE ReleaseTimer
  BY <1>3, ReleaseTimerAccounting
<1>4. CASE Shutdown
  BY <1>4, Zenon DEF Shutdown, Accounting
<1>5. CASE Breaker \/ UNCHANGED vars
           \/ (\E n \in Limits : Resize(n))
           \/ (\E n \in HardCaps : SetHardCap(n))
           \/ (\E n \in SoftLimits : SetSoftLimit(n))
           \/ (\E c \in GateConfigs : Reconfigure(c))
  <2>1. UNCHANGED <<countVars, releaseVars, leaked, shutdownRequested, status>>
    BY <1>5, Zenon DEF Breaker, Record429, RecordSuccess, CooldownElapses,
       Expire429, Resize, SetHardCap, SetSoftLimit, Reconfigure, vars, callerVars
  <2> QED
    BY <2>1, AccountingFrame
<1> QED
  BY <1>1, <1>2, <1>3, <1>4, <1>5 DEF Next, Control

\* The ledger is right in every reachable state, for every set of requests,
\* weights and configurations: no permit is double counted, forgotten by a
\* batch, or returned twice.
THEOREM AccountingCorrect == Spec => []Accounting
<1>1. Init => TypeOK /\ Accounting
  BY InitTypeOK, InitAccounting
<1>2. TypeOK /\ Accounting /\ [Next]_vars => (TypeOK /\ Accounting)'
  BY NextTypeOK, NextAccounting
<1> QED
  BY <1>1, <1>2, PTL DEF Spec

(***************************************************************************)
(* The limit.                                                              *)
(***************************************************************************)
\* The initial limit is between one permit and the hard cap.
LEMMA InitLimitInv == Init => LimitInv
<1> SUFFICES ASSUME Init PROVE LimitInv
  OBVIOUS
<1>1. PICK h \in HardCaps, s \in SoftLimits :
        /\ hardCap = Max(1, h) * Scale
        /\ limit = Max(Scale, Min(Max(1, s) * Scale, Max(1, h) * Scale))
  BY DEF Init
<1>2. h \in Nat /\ s \in Nat /\ Scale \in Nat
  BY GateAssumption
<1>3. hardCap \in Nat /\ Max(1, s) * Scale \in Nat
  BY <1>1, <1>2, ScaledNat
<1>4. Scale <= hardCap
  BY <1>1, <1>2, ScaledFloor
<1>5. limit = Max(Scale, Min(Max(1, s) * Scale, hardCap))
  BY <1>1
<1>6. \A a, b, c \in Nat : a <= c => a <= Max(a, Min(b, c)) /\ Max(a, Min(b, c)) <= c
  BY DEF Max, Min
<1> QED
  BY <1>2, <1>3, <1>4, <1>5, <1>6 DEF LimitInv

\* Every step keeps the limit between one permit and the hard cap.
LEMMA NextLimitInv == TypeOK /\ LimitInv /\ [Next]_vars => LimitInv'
<1> SUFFICES ASSUME TypeOK, LimitInv, [Next]_vars PROVE LimitInv'
  OBVIOUS
<1>1. limit \in Nat /\ hardCap \in Nat /\ Scale \in Nat
  BY GateAssumption DEF TypeOK
<1>2. ASSUME NEW n \in Limits, Resize(n) PROVE LimitInv'
  <2>1. n * Scale \in Nat
    BY <1>1, GateAssumption
  <2>2. limit' = Max(Scale, Min(n * Scale, hardCap)) /\ hardCap' = hardCap
    BY <1>2 DEF Resize, Clamped
  <2> QED
    BY <1>1, <2>1, <2>2 DEF LimitInv, Max, Min
<1>3. ASSUME NEW n \in HardCaps, SetHardCap(n) PROVE LimitInv'
  <2>1. Max(1, n) * Scale \in Nat /\ Scale <= Max(1, n) * Scale
    BY GateAssumption, ScaledNat, ScaledFloor
  <2>2. /\ hardCap' = Max(1, n) * Scale
        /\ limit' = IF limit > hardCap' THEN hardCap' ELSE limit
    BY <1>3 DEF SetHardCap
  <2> QED
    BY <1>1, <2>1, <2>2 DEF LimitInv
<1>4. CASE UNCHANGED <<limit, hardCap>>
  BY <1>4 DEF LimitInv
<1>5. \/ UNCHANGED <<limit, hardCap>>
      \/ \E n \in Limits : Resize(n)
      \/ \E n \in HardCaps : SetHardCap(n)
  BY DEF Next, vars, semVars, Caller, Acquire, QueueTimeout, Abort, LeaveQueue,
     Release, Reuse, Drain, DrainStep, ReleaseTimer, Control, SetSoftLimit,
     Reconfigure, Shutdown, Breaker, Record429, RecordSuccess, CooldownElapses,
     Expire429
<1> QED
  BY <1>2, <1>3, <1>4, <1>5

\* The effective limit is always between one permit and the hard cap, the
\* invariant that assertInvariants() can only log.
THEOREM LimitCorrect == Spec => []LimitInv
<1>1. Init => TypeOK /\ LimitInv
  BY InitTypeOK, InitLimitInv
<1>2. TypeOK /\ LimitInv /\ [Next]_vars => (TypeOK /\ LimitInv)'
  BY NextTypeOK, NextLimitInv
<1> QED
  BY <1>1, <1>2, PTL DEF Spec

(***************************************************************************)
(* The breaker.                                                            *)
(***************************************************************************)
\* halfOpenProbeStarted is TRUE exactly in the half-open state.
THEOREM BreakerCorrect == Spec => []BreakerInv
<1>1. Init => BreakerInv
  BY DEF Init, BreakerInv
<1>2. BreakerInv /\ [Next]_vars => BreakerInv'
  <2> SUFFICES ASSUME BreakerInv, [Next]_vars PROVE BreakerInv'
    OBVIOUS
  <2>1. \/ UNCHANGED <<breaker, probeStarted>>
        \/ MaybeHalfOpen \/ ResetHalfOpenProbe \/ Record429 \/ RecordSuccess
    BY DEF Next, vars, Caller, Acquire, Refuse, Admit, QueueTimeout, Abort,
       LeaveQueue, Release, Reuse, Drain, DrainStep, ReleaseTimer, Control,
       Resize, SetHardCap, SetSoftLimit, Reconfigure, Shutdown, Breaker,
       CooldownElapses, Expire429, breakerVars
  <2> QED
    BY <2>1 DEF BreakerInv, MaybeHalfOpen, ResetHalfOpenProbe, Record429,
       RecordSuccess, breakerVars
<1> QED
  BY <1>1, <1>2, PTL DEF Spec

(***************************************************************************)
(* Grants and the permit pool.                                             *)
(***************************************************************************)
\* The steps by which the charged total can change.
LEMMA ChangesOfActive ==
  ASSUME TypeOK, [Next]_vars
  PROVE  \/ active' = active
         \/ ReleaseTimer
         \/ Shutdown
         \/ \E r \in Requests : /\ CanGrant(Intention[r], Weight[r])
                                 /\ Charge(r) /\ limit' = limit
<1>1. ASSUME NEW r \in Requests, NEW fails \in StoreFails, Acquire(r, fails)
      PROVE  \/ active' = active
             \/ /\ CanGrant(Intention[r], Weight[r])
                /\ Charge(r) /\ limit' = limit
  BY <1>1 DEF Acquire, Refuse, Admit, GrantNow, Enqueue, QueueFull, countVars,
     semVars
<1>2. ASSUME NEW fails \in StoreFails, DrainStep(fails)
      PROVE  \/ active' = active
             \/ \E r \in Requests : /\ CanGrant(Intention[r], Weight[r])
                                     /\ Charge(r) /\ limit' = limit
  <2>1. Head(todo) \in Requests
    BY <1>2 DEF DrainStep, TypeOK
  <2> QED
    BY <1>2, <2>1 DEF DrainStep, SkipWaiter, GrantWaiter, countVars, semVars
<1> QED
  BY <1>1, <1>2 DEF Next, Caller, QueueTimeout, Abort, LeaveQueue, Release, Reuse,
     Drain, Control, Resize, SetHardCap, SetSoftLimit, Reconfigure, Breaker,
     Record429, RecordSuccess, CooldownElapses, Expire429, vars, countVars

\* Returning a batch never raises the total.
LEMMA ReleaseTimerLowers ==
  ASSUME TypeOK, ReleaseTimer
  PROVE  active' <= active
<1>1. active \in Nat /\ pending["main"] \in Nat /\ pending["vision"] \in Nat
  BY DEF TypeOK, Intentions
<1> QED
  BY <1>1 DEF ReleaseTimer, Max

\* The limit is a grant boundary at every instant: however it was lowered under
\* the permits in flight, no grant leaves more charged than it allows.
THEOREM GrantsWithinLimit == Spec => GrantWithinLimit
<1>1. TypeOK /\ [Next]_vars => [active' > active => active' <= limit']_vars
  <2> SUFFICES ASSUME TypeOK, [Next]_vars, active' > active
               PROVE  active' <= limit'
    OBVIOUS
  <2>1. active \in Nat /\ limit \in Nat
    BY DEF TypeOK
  <2>2. ~ReleaseTimer
    <3> SUFFICES ASSUME ReleaseTimer PROVE FALSE
      OBVIOUS
    <3>1. active' \in Nat
      BY ReleaseTimerTypeOK DEF TypeOK
    <3> QED
      BY <2>1, <3>1, ReleaseTimerLowers
  <2>3. ~Shutdown
    BY <2>1 DEF Shutdown
  <2>4. active' # active
    BY <2>1
  <2>5. PICK r \in Requests : /\ CanGrant(Intention[r], Weight[r])
                              /\ Charge(r) /\ limit' = limit
    BY <2>2, <2>3, <2>4, ChangesOfActive
  <2> QED
    BY <2>5 DEF CanGrant, Charge
<1> QED
  BY <1>1, TypeCorrect, PTL DEF Spec, GrantWithinLimit

\* The pool counts as the gate does.
LEMMA PoolCardinality == \A S : Pool!Cardinality(S) = Cardinality(S)
  BY Zenon DEF Pool!Cardinality, Cardinality

\* The holders' units are at most what the semaphore has charged.
LEMMA HoldersCharged ==
  ASSUME TypeOK, Accounting, ~shutdownRequested
  PROVE  Cardinality(Units(Holders)) <= active
<1> DEFINE H(i) == Callers({"held", "cooling"}, i)
<1>1. /\ Holders = H("main") \cup H("vision")
      /\ H("main") \cap H("vision") = {}
      /\ H("main") \in SUBSET Requests /\ H("vision") \in SUBSET Requests
  BY RequestType DEF Holders, Callers, Intentions
<1>2. Cardinality(Units(Holders)) = Charged("main") + Charged("vision")
  BY <1>1, UnitsUnion DEF Charged
<1>3. /\ active = activeBy["main"] + activeBy["vision"]
      /\ activeBy["main"] = Charged("main") + leaked["main"]
      /\ activeBy["vision"] = Charged("vision") + leaked["vision"]
  BY DEF Accounting, Ledger, Intentions
<1>4. leaked["main"] \in Nat /\ leaked["vision"] \in Nat
      /\ Charged("main") \in Nat /\ Charged("vision") \in Nat
  BY ChargedType DEF TypeOK, Intentions
<1> HIDE DEF H
<1> QED
  BY <1>2, <1>3, <1>4

\* A step that leaves the holders, the limit and the shutdown flag alone is a
\* stutter of the pool; so is one that moves nobody in or out of its holders.
LEMMA PoolFrame ==
  ASSUME UNCHANGED <<limit, shutdownRequested>>,
         \A r \in Requests : status'[r] \in {"held", "cooling"}
                               <=> status[r] \in {"held", "cooling"}
  PROVE  UNCHANGED Pool!poolVars
  BY DEF Holders, Pool!poolVars

\* A grant is the pool's Give, or after shutdown a stutter.
LEMMA PoolGrant ==
  ASSUME TypeOK, Accounting, TypeOK', Accounting', NEW r \in Requests,
         status[r] \notin {"held", "cooling"},
         CanGrant(Intention[r], Weight[r]), Charge(r),
         status' = [status EXCEPT ![r] = "held"],
         UNCHANGED <<limit, shutdownRequested>>
  PROVE  Pool!PoolNext \/ UNCHANGED Pool!poolVars
<1>1. CASE shutdownRequested
  BY <1>1 DEF Holders, Pool!poolVars
<1>2. CASE ~shutdownRequested
  <2>1. Holders' = Holders \cup {r} /\ r \notin Holders
    BY <1>2 DEF Holders, TypeOK
  <2>2. active' <= limit
    BY DEF CanGrant, Charge
  <2>3. /\ Cardinality(Units(Holders)) <= active
        /\ Cardinality(Units(Holders)) \in Nat
        /\ active \in Nat /\ active' = active + Weight[r] /\ Weight[r] \in Nat
        /\ limit \in Nat
    <3>1. Holders \in SUBSET Requests
      BY DEF Holders
    <3> QED
      BY <1>2, <3>1, HoldersCharged, UnitsFinite, RequestType DEF TypeOK, Charge
  <2>4. Cardinality(Units(Holders \cup {r})) = Cardinality(Units(Holders)) + Weight[r]
    <3>1. Holders \in SUBSET Requests
      BY DEF Holders
    <3> QED
      BY <2>1, <3>1, UnitsAdd
  <2>5. Cardinality(Units(Holders \cup {r})) <= limit
    BY <2>2, <2>3, <2>4
  <2>6. Pool!Give(r)
    <3>1. Pool!Cardinality(Pool!Units(Holders \cup {r})) <= limit
      BY <2>5, PoolCardinality, Zenon DEF Units
    <3> QED
      BY <1>2, <2>1, <3>1, Zenon DEF Pool!Give
  <2> QED
    BY <2>6 DEF Pool!PoolNext
<1> QED
  BY <1>1, <1>2

\* The steps of the pool that the gate's steps are.
LEMMA NextPool ==
  ASSUME TypeOK, Accounting, [Next]_vars
  PROVE  Pool!PoolNext \/ UNCHANGED Pool!poolVars
<1>0. TypeOK' /\ Accounting'
  BY NextTypeOK, NextAccounting
<1>1. ASSUME NEW r \in Requests, NEW fails \in StoreFails, Acquire(r, fails)
      PROVE  Pool!PoolNext \/ UNCHANGED Pool!poolVars
  <2>1. status[r] = "idle" /\ UNCHANGED <<limit, shutdownRequested>>
    BY <1>1 DEF Acquire, semVars
  <2>2. CASE GrantNow(r, fails) /\ ~StoreThrows(r, fails)
    <3>1. /\ CanGrant(Intention[r], Weight[r]) /\ Charge(r)
          /\ status' = [status EXCEPT ![r] = "held"]
      BY <2>2 DEF GrantNow
    <3>2. status[r] \notin {"held", "cooling"}
      BY <2>1
    <3> QED
      BY <1>0, <2>1, <3>1, <3>2, PoolGrant
  <2>3. CASE ~(GrantNow(r, fails) /\ ~StoreThrows(r, fails))
    <3>1. \E st \in Rejections \cup {"queued"} :
            status' = [status EXCEPT ![r] = st]
      BY <1>1, <2>3 DEF Acquire, Refuse, Admit, GrantNow, Enqueue, QueueFull,
         Rejections
    <3>2. \A q \in Requests : status'[q] \in {"held", "cooling"}
                               <=> status[q] \in {"held", "cooling"}
      BY <2>1, <3>1 DEF TypeOK, Rejections
    <3> QED
      BY <2>1, <3>2, PoolFrame
  <2> QED
    BY <2>2, <2>3
<1>2. ASSUME NEW fails \in StoreFails, DrainStep(fails)
      PROVE  Pool!PoolNext \/ UNCHANGED Pool!poolVars
  <2> DEFINE r == Head(todo)
  <2>1. r \in Requests /\ UNCHANGED <<limit, shutdownRequested>>
    BY <1>2 DEF DrainStep, TypeOK, semVars
  <2>2. SkipWaiter(r) \/ GrantWaiter(r, fails)
    BY <1>2 DEF DrainStep
  <2> HIDE DEF r
  <2>3. CASE status' = status
    BY <2>1, <2>3, PoolFrame
  <2>4. CASE status' # status
    <3>1. /\ CanGrant(Intention[r], Weight[r]) /\ Charge(r)
          /\ status[r] = "queued" /\ status' = [status EXCEPT ![r] = "held"]
      BY <2>2, <2>4 DEF SkipWaiter, GrantWaiter
    <3>2. status[r] \notin {"held", "cooling"}
      BY <3>1
    <3> QED
      BY <1>0, <2>1, <3>1, <3>2, PoolGrant
  <2> QED
    BY <2>3, <2>4
<1>3. CASE ReleaseTimer
  <2>1. UNCHANGED <<limit, shutdownRequested>>
    BY <1>3 DEF ReleaseTimer, semVars
  <2>2. CASE shutdownRequested
    BY <2>1, <2>2 DEF Holders, Pool!poolVars
  <2>3. CASE ~shutdownRequested
    <3> DEFINE S == {r \in Requests : status[r] = "cooling"}
    <3>1. S \subseteq Holders /\ Holders' = Holders \ S /\ S \in SUBSET Requests
      BY <1>3, <2>1, <2>3 DEF ReleaseTimer, Holders, TypeOK
    <3>2. Pool!TakeBack(S)
      BY <2>1, <2>3, <3>1 DEF Pool!TakeBack
    <3> QED
      BY <3>1, <3>2 DEF Pool!PoolNext
  <2> QED
    BY <2>2, <2>3
<1>4. CASE Shutdown
  <2>1. Pool!Close
    BY <1>4 DEF Shutdown, Holders, Pool!Close, semVars
  <2> QED
    BY <2>1 DEF Pool!PoolNext
<1>5. ASSUME NEW r \in Requests,
             QueueTimeout(r) \/ Abort(r) \/ Release(r) \/ Reuse(r)
      PROVE  UNCHANGED Pool!poolVars
  <2>1. UNCHANGED <<limit, shutdownRequested>>
    BY <1>5 DEF QueueTimeout, Abort, LeaveQueue, Release, Reuse, semVars
  <2>2. CASE shutdownRequested
    BY <2>1, <2>2 DEF Holders, Pool!poolVars
  <2>3. CASE ~shutdownRequested
    <3>1. \A q \in Requests : status'[q] \in {"held", "cooling"}
                               <=> status[q] \in {"held", "cooling"}
      BY <1>5, <2>3 DEF QueueTimeout, Abort, LeaveQueue, Release, Reuse, TypeOK,
         Settled, Rejections
    <3> QED
      BY <2>1, <3>1, PoolFrame
  <2> QED
    BY <2>2, <2>3
<1>6. CASE \/ \E n \in Limits : Resize(n)
           \/ \E n \in HardCaps : SetHardCap(n)
  <2>1. UNCHANGED <<status, shutdownRequested>>
    BY <1>6, Zenon DEF Resize, SetHardCap, callerVars
  <2>2. Holders' = Holders /\ limit' \in Nat
    BY <1>0, <2>1 DEF Holders, TypeOK
  <2>3. Pool!SetLimit
    BY <2>1, <2>2 DEF Pool!SetLimit
  <2> QED
    BY <2>3 DEF Pool!PoolNext
<1>7. CASE Breaker \/ UNCHANGED vars
           \/ (\E n \in SoftLimits : SetSoftLimit(n))
           \/ (\E c \in GateConfigs : Reconfigure(c))
  <2>1. UNCHANGED <<limit, shutdownRequested, status>>
    BY <1>7, Zenon DEF Breaker, Record429, RecordSuccess, CooldownElapses,
       Expire429, SetSoftLimit, Reconfigure, vars, callerVars, semVars
  <2> QED
    BY <2>1, PoolFrame
<1> QED
  BY <1>1, <1>2, <1>3, <1>4, <1>5, <1>6, <1>7 DEF Next, Caller, Drain, Control

\* The gate, with its queue, reservations, batched releases, resizing, failing
\* onAcquire and shutdown, implements the permit pool.
THEOREM GateImplementsPool == Spec => ImplementsPool
<1>1. Init => Pool!PoolInit
  <2> SUFFICES ASSUME Init PROVE Pool!PoolInit
    OBVIOUS
  <2>1. limit \in Nat
    BY InitTypeOK DEF TypeOK
  <2>2. Holders = {}
    BY DEF Init, Holders
  <2> QED
    BY <2>1, <2>2 DEF Init, Pool!PoolInit
<1>2. TypeOK /\ Accounting /\ [Next]_vars => [Pool!PoolNext]_(Pool!poolVars)
  BY NextPool
<1> QED
  BY <1>1, <1>2, TypeCorrect, AccountingCorrect, PTL
  DEF Spec, ImplementsPool, Pool!PoolSpec

(***************************************************************************)
(* The waiter queue, while onAcquire does not throw.                       *)
(***************************************************************************)
Queued == {r \in Requests : status[r] = "queued"}

\* Between two passes of drainWaiters() the queue has every queued caller once;
\* during a pass those it has kept and those it will visit are disjoint parts.
LineInv ==
  /\ Idle => kept = <<>> /\ IsInjective(waiters) /\ Range(waiters) = Queued
  /\ ~Idle => /\ IsInjective(kept) /\ IsInjective(todo)
              /\ Range(kept) \cap Range(todo) = {}
              /\ Range(kept) \cup Range(todo) = Queued

Counts == \A i \in Intentions : queuedBy[i] = Cardinality(Callers({"queued"}, i))

\* Nothing of weight 0 is queued: acquire() refuses it.
WaitersWeigh == \A r \in Queued : Weight[r] > 0

\* What the pass visits is the end of the queue it started with.
SuffixInv ==
  ~Idle => \E n \in 0 .. Len(waiters) : todo = SubSeq(waiters, n + 1, Len(waiters))

WaitInv == LineInv /\ Counts /\ timers = Queued /\ WaitersWeigh /\ SuffixInv

-----------------------------------------------------------------------------
\* The queued callers of an intention are finitely many.
LEMMA QueuedFinite == \A i : IsFiniteSet(Callers({"queued"}, i))
<1> TAKE i
<1>1. Callers({"queued"}, i) \in SUBSET Requests
  BY DEF Callers
<1> QED
  BY <1>1, GateAssumption, FS_Subset

\* A caller joins those that are queued.
LEMMA QueuedJoins ==
  ASSUME TypeOK, Counts, NEW r \in Requests, status[r] # "queued",
         status' = [status EXCEPT ![r] = "queued"],
         queuedBy' = [queuedBy EXCEPT ![Intention[r]] = @ + 1]
  PROVE  Queued' = Queued \cup {r} /\ Counts'
<1>1. /\ status \in [Requests -> Statuses] /\ queuedBy \in [Intentions -> Nat]
      /\ Intention[r] \in Intentions
  BY RequestType DEF TypeOK
<1>2. Queued' = Queued \cup {r}
  BY <1>1 DEF Queued
<1>3. ASSUME NEW i \in Intentions PROVE queuedBy'[i] = Cardinality(Callers({"queued"}, i))'
  <2> DEFINE S == Callers({"queued"}, i)
  <2>0. IsFiniteSet(S) /\ queuedBy[i] = Cardinality(S)
    BY <1>3, QueuedFinite DEF Counts
  <2>1. r \notin S
    BY DEF Callers
  <2>2. S' = IF Intention[r] = i THEN S \cup {r} ELSE S
    BY <1>1 DEF Callers
  <2>3. Cardinality(S \cup {r}) = Cardinality(S) + 1
    <3> HIDE DEF S
    <3> QED
      BY <2>0, <2>1, FS_AddElement
  <2> HIDE DEF S
  <2>4. queuedBy'[i] = IF Intention[r] = i THEN queuedBy[i] + 1 ELSE queuedBy[i]
    BY <1>1
  <2>5. CASE Intention[r] = i
    BY <2>0, <2>2, <2>3, <2>4, <2>5 DEF S
  <2>6. CASE Intention[r] # i
    BY <2>0, <2>2, <2>4, <2>6 DEF S
  <2> QED
    BY <2>5, <2>6
<1> QED
  BY <1>2, <1>3 DEF Counts

\* ... and leaves them.
LEMMA QueuedLeaves ==
  ASSUME TypeOK, Counts, NEW r \in Requests, status[r] = "queued",
         NEW s, s # "queued", status' = [status EXCEPT ![r] = s],
         queuedBy' = Dequeued(Intention[r])
  PROVE  Queued' = Queued \ {r} /\ Counts'
<1>1. /\ status \in [Requests -> Statuses] /\ queuedBy \in [Intentions -> Nat]
      /\ Intention[r] \in Intentions
  BY RequestType DEF TypeOK
<1>2. Queued' = Queued \ {r}
  BY <1>1 DEF Queued
<1>3. ASSUME NEW i \in Intentions PROVE queuedBy'[i] = Cardinality(Callers({"queued"}, i))'
  <2> DEFINE S == Callers({"queued"}, i)
  <2>0. IsFiniteSet(S) /\ queuedBy[i] = Cardinality(S) /\ queuedBy[i] \in Nat
    BY <1>1, <1>3, QueuedFinite DEF Counts
  <2>1. Intention[r] = i => r \in S
    BY DEF Callers
  <2>2. S' = IF Intention[r] = i THEN S \ {r} ELSE S
    BY <1>1 DEF Callers
  <2> HIDE DEF S
  <2>3. r \in S => Cardinality(S \ {r}) = Cardinality(S) - 1 /\ Cardinality(S) > 0
    <3>1. r \in S => Cardinality(S \ {r}) = Cardinality(S) - 1
      BY <2>0, FS_RemoveElement
    <3>2. r \in S => Cardinality(S) # 0
      BY <2>0, FS_EmptySet
    <3> QED
      BY <2>0, <3>1, <3>2
  <2>4. queuedBy'[i] = IF Intention[r] = i THEN Max(0, queuedBy[i] - 1) ELSE queuedBy[i]
    BY <1>1 DEF Dequeued
  <2>5. CASE Intention[r] = i
    <3>1. Max(0, queuedBy[i] - 1) = queuedBy[i] - 1
      BY <2>0, <2>1, <2>3, <2>5 DEF Max
    <3> QED
      BY <2>0, <2>1, <2>2, <2>3, <2>4, <2>5, <3>1 DEF S
  <2>6. CASE Intention[r] # i
    BY <2>0, <2>2, <2>4, <2>6 DEF S
  <2> QED
    BY <2>5, <2>6
<1> QED
  BY <1>2, <1>3 DEF Counts

\* Nobody joins or leaves.
LEMMA QueuedStay ==
  ASSUME \A q \in Requests : status'[q] = "queued" <=> status[q] = "queued",
         queuedBy' = queuedBy, Counts
  PROVE  Queued' = Queued /\ Counts'
<1>1. Queued' = Queued
  BY DEF Queued
<1>2. \A i : Callers({"queued"}, i)' = Callers({"queued"}, i)
  BY DEF Callers
<1> QED
  BY <1>1, <1>2 DEF Counts

(***************************************************************************)
(* Each action keeps WaitInv.                                              *)
(***************************************************************************)
\* Outside a pass the invariant is about waiters only.
LEMMA IdleWait ==
  ASSUME Idle, Idle', kept' = kept, LineInv, WaitersWeigh, timers = Queued,
         IsInjective(waiters'), Range(waiters') = Queued', timers' = Queued',
         \A r \in Queued' : Weight[r] > 0, Counts'
  PROVE  WaitInv'
  BY DEF WaitInv, LineInv, WaitersWeigh, SuffixInv

\* ... and a pass may start from such a state.
LEMMA StartsWait ==
  ASSUME TypeOK, Idle, WaitInv, StartDrain, waiters' = waiters, timers' = timers,
         Queued' = Queued, Counts'
  PROVE  WaitInv' /\ kept' = <<>>
<1>1. todo' = waiters /\ kept' = <<>> /\ waiters \in Seq(Requests)
  BY DEF StartDrain, TypeOK
<1>2. IsInjective(waiters) /\ Range(waiters) = Queued /\ timers = Queued /\ WaitersWeigh
  BY DEF WaitInv, LineInv
<1>3. LineInv'
  BY <1>1, <1>2, EmptyEntries DEF LineInv, Idle
<1>4. SuffixInv'
  <2>1. 0 \in 0 .. Len(waiters) /\ SubSeq(waiters, 0 + 1, Len(waiters)) = waiters
    BY <1>1
  <2> QED
    BY <1>1, <2>1 DEF SuffixInv
<1> QED
  BY <1>1, <1>2, <1>3, <1>4 DEF WaitInv, WaitersWeigh

\* Steps that leave the queue and everybody in it alone.
LEMMA FrameWait ==
  ASSUME WaitInv, \A q \in Requests : status'[q] = "queued" <=> status[q] = "queued",
         UNCHANGED <<queueVars, drainVars>>
  PROVE  WaitInv'
<1>1. /\ queuedBy' = queuedBy /\ waiters' = waiters /\ timers' = timers
      /\ todo' = todo /\ kept' = kept
  BY DEF queueVars, drainVars
<1>2. Queued' = Queued /\ Counts'
  BY <1>1, QueuedStay DEF WaitInv
<1> QED
  BY <1>1, <1>2 DEF WaitInv, LineInv, WaitersWeigh, SuffixInv, Idle

\* acquire().
LEMMA AcquireWait ==
  ASSUME TypeOK, WaitInv, NEW r \in Requests, NEW fails \in StoreFails, Acquire(r, fails)
  PROVE  WaitInv'
<1>1. Idle /\ status[r] = "idle" /\ UNCHANGED drainVars /\ status \in [Requests -> Statuses]
  BY DEF Acquire, TypeOK
<1>2. CASE Enqueue(r)
  <2>1. /\ Queued' = Queued \cup {r} /\ Counts'
    BY <1>1, <1>2, QueuedJoins DEF Enqueue, WaitInv
  <2>2. /\ waiters \in Seq(Requests) /\ IsInjective(waiters) /\ Range(waiters) = Queued
        /\ timers = Queued /\ r \notin Queued
    BY <1>1 DEF WaitInv, LineInv, TypeOK, Queued
  <2>3. IsInjective(waiters') /\ Range(waiters') = Queued' /\ timers' = Queued'
    BY <1>2, <2>1, <2>2, AppendEntries DEF Enqueue
  <2>4. Weight[r] > 0
    BY <1>1, <1>2 DEF Acquire, Refuse, Admit, Enqueue, queueVars
  <2> QED
    BY <1>1, <2>1, <2>3, <2>4, IdleWait DEF WaitInv, WaitersWeigh, drainVars, Idle
<1>3. CASE ~Enqueue(r)
  <2>1. /\ UNCHANGED queueVars
        /\ \E s \in Statuses \ {"queued"} : status' = [status EXCEPT ![r] = s]
    BY <1>3 DEF Acquire, Refuse, Admit, GrantNow, QueueFull, Statuses, Settled, Rejections
  <2>2. \A q \in Requests : status'[q] = "queued" <=> status[q] = "queued"
    BY <1>1, <2>1
  <2> QED
    BY <1>1, <2>1, <2>2, FrameWait
<1> QED
  BY <1>2, <1>3

\* removeWaiter(), for a timeout or an abort.
LEMMA LeaveWait ==
  ASSUME TypeOK, WaitInv, NEW r \in Requests, NEW code, code # "queued", LeaveQueue(r, code)
  PROVE  WaitInv'
<1>1. PICK k \in 1 .. Len(waiters) :
        /\ waiters[k] = r
        /\ waiters' = SubSeq(waiters, 1, k - 1) \o SubSeq(waiters, k + 1, Len(waiters))
  BY DEF LeaveQueue
<1>2. /\ waiters \in Seq(Requests) /\ IsInjective(waiters) /\ Range(waiters) = Queued
      /\ timers = Queued /\ Idle /\ Idle' /\ kept' = kept
  BY DEF WaitInv, LineInv, LeaveQueue, TypeOK, Idle, drainVars
<1>3. status[r] = "queued"
  BY <1>1, <1>2, Positions DEF Queued
<1>4. Queued' = Queued \ {r} /\ Counts'
  BY <1>3, QueuedLeaves DEF LeaveQueue, WaitInv
<1>5. IsInjective(waiters') /\ Range(waiters') = Queued'
  BY <1>1, <1>2, <1>4, RemoveEntries
<1>6. timers' = Queued'
  BY <1>2, <1>4 DEF LeaveQueue
<1> QED
  BY <1>2, <1>4, <1>5, <1>6, IdleWait DEF WaitInv, WaitersWeigh

\* The pass goes on with other waiters kept.
LEMMA ContinueWait ==
  ASSUME TypeOK, WaitInv, ~Idle, NEW left \in Seq(Requests), ContinueDrain(left),
         IsInjective(left), Range(left) \cap Range(Tail(todo)) = {},
         Range(left) \cup Range(Tail(todo)) = Queued', Queued' \subseteq Queued,
         timers' = Queued', Counts'
  PROVE  WaitInv'
<1>1. /\ todo \in Seq(Requests) /\ todo # <<>> /\ todo' = Tail(todo)
      /\ IsInjective(todo) /\ waiters \in Seq(Requests)
  BY DEF WaitInv, LineInv, Idle, TypeOK, ContinueDrain
<1>2. Tail(todo) \in Seq(Requests) /\ IsInjective(Tail(todo))
  BY <1>1, TailEntries
<1>3. WaitersWeigh'
  BY DEF WaitInv, WaitersWeigh
<1>4. CASE Tail(todo) = <<>>
  <2>1. waiters' = left /\ kept' = <<>> /\ Idle'
    BY <1>1, <1>4 DEF ContinueDrain, Idle
  <2>2. Range(left) = Queued'
    BY <1>4, EmptyEntries
  <2>3. LineInv' /\ SuffixInv'
    BY <2>1, <2>2 DEF LineInv, SuffixInv
  <2> QED
    BY <1>3, <2>3 DEF WaitInv
<1>5. CASE Tail(todo) # <<>>
  <2>1. waiters' = waiters /\ kept' = left /\ ~Idle'
    BY <1>1, <1>5 DEF ContinueDrain, Idle
  <2>2. LineInv'
    BY <1>1, <1>2, <2>1 DEF LineInv
  <2>3. SuffixInv'
    <3>1. PICK n \in 0 .. Len(waiters) : todo = SubSeq(waiters, n + 1, Len(waiters))
      BY DEF WaitInv, SuffixInv
    <3>2. n < Len(waiters)
      BY <1>1, <3>1
    <3>3. n + 1 \in 0 .. Len(waiters) /\ Tail(todo) = SubSeq(waiters, (n + 1) + 1, Len(waiters))
      BY <1>1, <3>1, <3>2
    <3> QED
      BY <1>1, <2>1, <3>3 DEF SuffixInv
  <2> QED
    BY <1>3, <2>2, <2>3 DEF WaitInv
<1> QED
  BY <1>4, <1>5

\* One iteration of the pass that does not throw.
LEMMA DrainWait ==
  ASSUME TypeOK, WaitInv, NEW fails, ~fails, DrainStep(fails)
  PROVE  WaitInv'
<1> DEFINE r == Head(todo)
<1>1. /\ ~Idle /\ todo \in Seq(Requests) /\ todo # <<>> /\ kept \in Seq(Requests)
      /\ r \in Requests
  BY DEF DrainStep, TypeOK, Idle
<1>2. /\ IsInjective(kept) /\ IsInjective(todo) /\ Range(kept) \cap Range(todo) = {}
      /\ Range(kept) \cup Range(todo) = Queued /\ timers = Queued
  BY <1>1 DEF WaitInv, LineInv
<1>3. r \in Range(todo) /\ Range(Tail(todo)) = Range(todo) \ {r}
  BY <1>1, <1>2, TailEntries
<1>4. r \in Queued /\ r \notin Range(kept) /\ status[r] = "queued"
  BY <1>2, <1>3 DEF Queued
<1> HIDE DEF r
<1>5. CASE SkipWaiter(r)
  <2> DEFINE left == Append(kept, r)
  <2>1. left \in Seq(Requests) /\ Range(left) = Range(kept) \cup {r} /\ IsInjective(left)
    BY <1>1, <1>2, <1>4, AppendEntries
  <2>2. Queued' = Queued /\ Counts' /\ timers' = timers
    BY <1>5, QueuedStay DEF SkipWaiter, WaitInv
  <2>3. ContinueDrain(left)
    BY <1>5 DEF SkipWaiter
  <2> HIDE DEF left
  <2> QED
    BY <1>1, <1>2, <1>3, <1>4, <2>1, <2>2, <2>3, ContinueWait
<1>6. CASE GrantWaiter(r, fails)
  <2>1. /\ ContinueDrain(kept) /\ queuedBy' = Dequeued(Intention[r])
        /\ timers' = timers \ {r} /\ status' = [status EXCEPT ![r] = "held"]
    BY <1>4, <1>6 DEF GrantWaiter, StoreThrows
  <2>2. Queued' = Queued \ {r} /\ Counts'
    BY <1>1, <1>4, <2>1, QueuedLeaves DEF WaitInv
  <2> QED
    BY <1>1, <1>2, <1>3, <1>4, <2>1, <2>2, ContinueWait
<1> QED
  BY <1>5, <1>6 DEF DrainStep, r

\* shutdown() empties the queue; queuedByIntention becomes 0 because it was the
\* number of waiters.
LEMMA ShutdownWait ==
  ASSUME TypeOK, WaitInv, Shutdown
  PROVE  WaitInv'
<1>1. /\ Idle /\ waiters' = <<>> /\ timers' = {} /\ UNCHANGED drainVars
      /\ queuedBy' = [i \in Intentions |-> QueuedAfterShutdown(i)]
  BY DEF Shutdown
<1>2. Queued' = {} /\ \A i : Callers({"queued"}, i)' = {}
  BY DEF Shutdown, Queued, Callers, TypeOK
<1>3. ASSUME NEW i \in Intentions PROVE QueuedAfterShutdown(i) = 0
  <2> DEFINE T == Callers({"queued"}, i)
  <2>1. /\ waiters \in Seq(Requests) /\ IsInjective(waiters) /\ Range(waiters) = Queued
    BY <1>1 DEF TypeOK, WaitInv, LineInv
  <2>2. T \in SUBSET Range(waiters)
    BY <2>1 DEF Queued, Callers
  <2>3. {k \in DOMAIN waiters : waiters[k] \in T} = WaitersOf(i)
    <3>1. \A k \in DOMAIN waiters : waiters[k] \in Queued
      BY <2>1 DEF Range
    <3> QED
      BY <3>1 DEF WaitersOf, Callers, Queued
  <2>4. Cardinality(T) = Cardinality(WaitersOf(i))
    <3> HIDE DEF T
    <3> QED
      BY <2>1, <2>2, <2>3, CountEntries
  <2>5. queuedBy[i] = Cardinality(WaitersOf(i)) /\ queuedBy[i] \in Nat
    BY <1>3, <2>4 DEF WaitInv, Counts, TypeOK
  <2> QED
    BY <2>5 DEF QueuedAfterShutdown, Max
<1>4. Counts'
  BY <1>1, <1>2, <1>3, FS_EmptySet DEF Counts
<1> QED
  BY <1>1, <1>2, <1>4, EmptyEntries DEF WaitInv, LineInv, WaitersWeigh, SuffixInv, Idle, drainVars

\* The steps that start a pass: the release timer and a change of the limit.
LEMMA LimitWait ==
  ASSUME TypeOK, WaitInv,
         \/ ReleaseTimer \/ \E n \in Limits : Resize(n)
         \/ \E n \in HardCaps : SetHardCap(n)
  PROVE  WaitInv'
<1>1. /\ Idle /\ queuedBy' = queuedBy /\ waiters' = waiters /\ timers' = timers
      /\ StartDrain \/ UNCHANGED drainVars
  BY DEF ReleaseTimer, Resize, SetHardCap, queueVars
<1>2. \A q \in Requests : status'[q] = "queued" <=> status[q] = "queued"
  BY DEF ReleaseTimer, Resize, SetHardCap, callerVars, TypeOK
<1>3. Queued' = Queued /\ Counts'
  BY <1>1, <1>2, QueuedStay DEF WaitInv
<1>4. CASE StartDrain
  BY <1>1, <1>3, <1>4, StartsWait
<1>5. CASE UNCHANGED drainVars
  BY <1>1, <1>2, <1>5, FrameWait DEF queueVars
<1> QED
  BY <1>1, <1>4, <1>5

\* Everything else touches neither the queue nor a queued caller.
LEMMA OtherWait ==
  ASSUME TypeOK, WaitInv,
         \/ \E r \in Requests : Release(r) \/ Reuse(r)
         \/ \E n \in SoftLimits : SetSoftLimit(n)
         \/ \E c \in GateConfigs : Reconfigure(c)
         \/ Breaker \/ UNCHANGED vars
  PROVE  WaitInv'
<1>1. UNCHANGED <<queueVars, drainVars>>
  BY DEF Release, Reuse, SetSoftLimit, Reconfigure, Breaker, Record429, RecordSuccess,
     CooldownElapses, Expire429, vars
<1>2. \A q \in Requests : status'[q] = "queued" <=> status[q] = "queued"
  <2>1. \/ status' = status
        \/ \E r \in Requests, s \in Statuses \ {"queued"} :
             status[r] # "queued" /\ status' = [status EXCEPT ![r] = s]
    BY DEF Release, Reuse, SetSoftLimit, Reconfigure, Breaker, Record429, RecordSuccess,
       CooldownElapses, Expire429, vars, callerVars, Settled, Rejections, Statuses
  <2> QED
    BY <2>1 DEF TypeOK
<1> QED
  BY <1>1, <1>2, FrameWait

\* WaitInv holds initially ...
LEMMA InitWait == Init => WaitInv
<1> SUFFICES ASSUME Init PROVE WaitInv
  OBVIOUS
<1>1. /\ waiters = <<>> /\ todo = <<>> /\ kept = <<>> /\ timers = {}
      /\ queuedBy = [i \in Intentions |-> 0] /\ status = [r \in Requests |-> "idle"]
  BY DEF Init
<1>2. Queued = {} /\ \A i : Callers({"queued"}, i) = {}
  BY <1>1 DEF Queued, Callers
<1> QED
  BY <1>1, <1>2, EmptyEntries, FS_EmptySet
  DEF WaitInv, LineInv, Counts, WaitersWeigh, SuffixInv, Idle

\* ... and is preserved.
LEMMA NextWait ==
  ASSUME TRUE \notin StoreFails
  PROVE  TypeOK /\ WaitInv /\ [Next]_vars => WaitInv'
<1> SUFFICES ASSUME TypeOK, WaitInv, [Next]_vars PROVE WaitInv'
  OBVIOUS
<1>0. \A fails \in StoreFails : ~fails
  BY GateAssumption
<1>1. ASSUME NEW r \in Requests, Caller(r) PROVE WaitInv'
  BY <1>1, AcquireWait, LeaveWait, OtherWait DEF Caller, QueueTimeout, Abort
<1>2. CASE Drain
  BY <1>0, <1>2, DrainWait DEF Drain
<1>3. CASE ReleaseTimer
  BY <1>3, LimitWait
<1>4. CASE Control
  BY <1>4, LimitWait, OtherWait, ShutdownWait DEF Control
<1>5. CASE Breaker \/ UNCHANGED vars
  BY <1>5, OtherWait
<1> QED
  BY <1>1, <1>2, <1>3, <1>4, <1>5 DEF Next

\* Hence it holds always.
LEMMA AlwaysWait ==
  ASSUME TRUE \notin StoreFails
  PROVE  Spec => [](TypeOK /\ WaitInv)
  BY InitWait, NextWait, TypeCorrect, PTL DEF Spec

\* The queue, or what a pass has kept and will visit, holds every caller whose
\* promise is pending exactly once, with its timeout armed, and
\* queuedByIntention counts it, unless an onAcquire throws.
THEOREM QueueCorrect ==
  ASSUME TRUE \notin StoreFails
  PROVE  Spec => []QueueInv
<1>1. TypeOK /\ WaitInv => QueueInv
  <2> SUFFICES ASSUME TypeOK, WaitInv PROVE QueueInv
    OBVIOUS
  <2> DEFINE q == IF Idle THEN waiters ELSE kept \o todo
  <2>1. q \in Seq(Requests) /\ IsInjective(q) /\ Range(q) = Queued
    <3>1. CASE Idle
      BY <3>1 DEF WaitInv, LineInv, TypeOK
    <3>2. CASE ~Idle
      <4>1. /\ kept \in Seq(Requests) /\ todo \in Seq(Requests)
            /\ IsInjective(kept) /\ IsInjective(todo) /\ Range(kept) \cap Range(todo) = {}
            /\ Range(kept) \cup Range(todo) = Queued
        BY <3>2 DEF WaitInv, LineInv, TypeOK
      <4>2. LET c == kept \o todo
            IN  c \in Seq(Requests) /\ IsInjective(c) /\ Range(c) = Queued
        BY <4>1, ConcatEntries
      <4> QED
        BY <3>2, <4>2
    <3> QED
      BY <3>1, <3>2
  <2>2. Len(q) = Cardinality(Queued)
    <3> HIDE DEF q
    <3> QED
      BY <2>1, LengthIsCount
  <2>3. {q[k] : k \in DOMAIN q} = Queued
    BY <2>1 DEF Range
  <2> QED
    BY <2>2, <2>3 DEF QueueInv, WaitInv, Counts, Queued
<1> QED
  BY <1>1, AlwaysWait, PTL

(***************************************************************************)
(* What fits.                                                              *)
(***************************************************************************)
\* A reservation in effect is an integer.
LEMMA EffectiveInt == TypeOK => \A i \in Intentions : EffectiveReservations[i] \in Int
<1> SUFFICES ASSUME TypeOK, NEW i \in Intentions PROVE EffectiveReservations[i] \in Int
  OBVIOUS
<1>1. /\ Reserved \in [Intentions -> Nat] /\ limit \in Nat
      /\ {"main", "vision"} = Intentions
  BY DEF TypeOK, GateConfig, Reserved, Intentions
<1> DEFINE sum == Reserved["main"] + Reserved["vision"]
           split(k) == (Reserved[k] * limit) \div sum
<1>2. sum \in Nat
  BY <1>1
<1>3. CASE sum <= limit
  BY <1>1, <1>3 DEF EffectiveReservations
<1>4. CASE ~(sum <= limit)
  <2>1. sum > 0
    BY <1>1, <1>2, <1>4
  <2>2. \A a, b \in Nat : b > 0 => a \div b \in Int
    OBVIOUS
  <2>3. \A a, b \in Nat : a * b \in Nat
    OBVIOUS
  <2>4. split("main") \in Int /\ split("vision") \in Int
    BY <1>1, <1>2, <2>1, <2>2, <2>3
  <2>5. EffectiveReservations =
          [k \in Intentions |-> IF k = "main" THEN Min(split("main"), limit)
                                ELSE Min(split("vision"), limit - Min(split("main"), limit))]
    BY <1>4, Zenon DEF EffectiveReservations
  <2> HIDE DEF split
  <2>6. \A a, b \in Int : Min(a, b) \in Int
    BY DEF Min
  <2>7. limit - Min(split("main"), limit) \in Int
    BY <1>1, <2>4, <2>6
  <2> QED
    BY <1>1, <2>4, <2>5, <2>6, <2>7
<1> QED
  BY <1>3, <1>4

\* A lighter waiter of the same intention fits where a heavier one does.
LEMMA LighterFits ==
  ASSUME TypeOK, NEW i \in Intentions, NEW v \in Nat, NEW w \in Nat, v <= w, CanGrant(i, w)
  PROVE  CanGrant(i, v)
<1>1. active \in Nat /\ limit \in Nat /\ activeBy[i] \in Nat /\ EffectiveReservations[i] \in Int
  BY EffectiveInt DEF TypeOK
<1>2. Capacity(i) \in Int
  <2>1. Other(i) \in Intentions
    BY DEF Other, Intentions
  <2>2. EffectiveReservations[Other(i)] \in Int /\ activeBy[Other(i)] \in Nat
    BY <2>1, EffectiveInt DEF TypeOK
  <2> QED
    BY <1>1, <2>2 DEF Capacity, Max
<1> QED
  BY <1>1, <1>2 DEF CanGrant

\* What is refused stays refused when somebody is charged or when another one
\* queues: lending shrinks by no less than the charge.
LEMMA StaysRefused ==
  ASSUME TypeOK, TypeOK', UNCHANGED <<limit, cfg>>,
         NEW j \in Intentions, NEW w \in Nat, active' = active + w,
         activeBy' = [activeBy EXCEPT ![j] = @ + w],
         \A k \in Intentions : (k = j /\ w > 0) \/ queuedBy'[k] >= queuedBy[k],
         NEW i \in Intentions, NEW v \in Nat, ~CanGrant(i, v)
  PROVE  ~CanGrant(i, v)'
<1> DEFINE k == Other(i)
           A == activeBy[i]
           B == activeBy[k]
           R == EffectiveReservations[i]
           L == EffectiveReservations[k]
<1>1. k \in Intentions /\ k # i /\ \A x \in Intentions : x = i \/ x = k
  BY DEF Other, Intentions
<1>2. /\ EffectiveReservations' = EffectiveReservations
      /\ OverSubscribed' = OverSubscribed
  BY DEF EffectiveReservations, OverSubscribed, Reserved
<1>3. /\ active \in Nat /\ limit \in Nat /\ A \in Nat /\ B \in Nat /\ R \in Int /\ L \in Int
      /\ queuedBy[k] \in Nat /\ queuedBy'[k] \in Nat
  BY <1>1, EffectiveInt DEF TypeOK
<1>4. /\ activeBy'[i] = IF j = i THEN A + w ELSE A
      /\ activeBy'[k] = IF j = k THEN B + w ELSE B
      /\ limit' = limit /\ active' = active + w
  BY <1>1 DEF TypeOK
<1>5. Capacity(i) = IF B + queuedBy[k] = 0 THEN limit ELSE limit - Max(0, L - B)
  BY DEF Capacity
<1>6. Capacity(i)' = IF activeBy'[k] + queuedBy'[k] = 0 THEN limit
                     ELSE limit - Max(0, L - activeBy'[k])
  BY <1>2, <1>4 DEF Capacity
<1>7. CASE ~(active + v <= limit)
  <2>1. ~(active' + v <= limit')
    BY <1>3, <1>4, <1>7
  <2> QED
    BY <2>1 DEF CanGrant
<1>8. CASE active + v <= limit
  <2>1. ~(A + v <= R) /\ ~OverSubscribed /\ ~(active + v <= Capacity(i))
    BY <1>8 DEF CanGrant
  <2>2. B + queuedBy[k] # 0
    BY <1>5, <1>8, <2>1
  <2>3. ~(activeBy'[i] + v <= R)
    BY <1>3, <1>4, <2>1
  <2>4. activeBy'[k] + queuedBy'[k] # 0
    <3>1. CASE w > 0 /\ j = k
      BY <1>3, <1>4, <3>1
    <3>2. CASE ~(w > 0 /\ j = k)
      <4>1. queuedBy'[k] >= queuedBy[k]
        BY <1>1, <3>2
      <4> QED
        BY <1>3, <1>4, <2>2, <4>1
    <3> QED
      BY <3>1, <3>2
  <2>5. ~(active' + v <= Capacity(i)')
    <3>1. ~(active + v <= limit - Max(0, L - B))
      BY <1>5, <2>1, <2>2
    <3>2. Capacity(i)' = limit - Max(0, L - activeBy'[k])
      BY <1>6, <2>4
    <3> HIDE DEF L, B
    <3> QED
      BY <1>3, <1>4, <3>1, <3>2 DEF Max
  <2> QED
    BY <1>2, <2>1, <2>3, <2>5 DEF CanGrant
<1> QED
  BY <1>7, <1>8

(***************************************************************************)
(* A pass is exhaustive.                                                   *)
(***************************************************************************)
\* Nobody in s fits.
Refused(s) == \A r \in Range(s) : ~CanGrant(Intention[r], Weight[r])

\* What a pass has kept does not fit.
PassInv == ~Idle => Refused(kept)

\* A grant out of the queue leaves refused what was refused.
LEMMA GrantRefuses ==
  ASSUME TypeOK, TypeOK', WaitInv, NEW r \in Queued, Charge(r), UNCHANGED semVars,
         queuedBy' = Dequeued(Intention[r]), NEW s \in Seq(Requests), Refused(s)
  PROVE  \A q \in Range(s) : ~CanGrant(Intention[q], Weight[q])'
<1> SUFFICES ASSUME NEW q \in Range(s) PROVE ~CanGrant(Intention[q], Weight[q])'
  OBVIOUS
<1>1. /\ r \in Requests /\ Weight[r] > 0 /\ q \in Requests
      /\ ~CanGrant(Intention[q], Weight[q])
  BY Positions DEF Queued, WaitInv, WaitersWeigh, Refused
<1>2. /\ Intention[r] \in Intentions /\ Weight[r] \in Nat
      /\ Intention[q] \in Intentions /\ Weight[q] \in Nat
  BY <1>1, RequestType
<1>3. /\ UNCHANGED <<limit, cfg>> /\ active' = active + Weight[r]
      /\ activeBy' = [activeBy EXCEPT ![Intention[r]] = @ + Weight[r]]
  BY DEF semVars, Charge
<1>4. \A k \in Intentions : k # Intention[r] => queuedBy'[k] = queuedBy[k] /\ queuedBy[k] \in Nat
  BY DEF Dequeued, TypeOK
<1>5. \A k \in Intentions : (k = Intention[r] /\ Weight[r] > 0) \/ queuedBy'[k] >= queuedBy[k]
  BY <1>1, <1>4
<1> QED
  BY <1>1, <1>2, <1>3, <1>5, StaysRefused

\* One iteration of a pass: "left" is what it has kept by now, none of whom fits.
LEMMA DrainRefuses ==
  ASSUME TypeOK, TypeOK', WaitInv, PassInv, NEW fails, ~fails, DrainStep(fails)
  PROVE  \E left \in Seq(Requests) :
           /\ ContinueDrain(left)
           /\ \A q \in Range(left) : ~CanGrant(Intention[q], Weight[q])'
<1> DEFINE r == Head(todo)
<1>1. /\ ~Idle /\ todo \in Seq(Requests) /\ todo # <<>> /\ kept \in Seq(Requests)
      /\ UNCHANGED semVars /\ Refused(kept)
  BY DEF DrainStep, TypeOK, Idle, PassInv
<1>2. r \in Requests /\ r \in Queued
  BY <1>1, TailEntries DEF WaitInv, LineInv, Queued
<1> HIDE DEF r
<1>3. CASE SkipWaiter(r)
  <2> DEFINE left == Append(kept, r)
  <2>1. left \in Seq(Requests) /\ Range(left) = Range(kept) \cup {r} /\ ContinueDrain(left)
    BY <1>1, <1>2, <1>3, AppendEntries DEF SkipWaiter
  <2>2. \A q \in Range(left) : ~CanGrant(Intention[q], Weight[q])
    BY <1>1, <1>3, <2>1 DEF SkipWaiter, Refused
  <2>3. \A i, w : CanGrant(i, w)' <=> CanGrant(i, w)
    BY <1>1, <1>3 DEF SkipWaiter, CanGrant, Capacity, EffectiveReservations, OverSubscribed,
       Reserved, semVars, countVars
  <2> HIDE DEF left
  <2>4. \A q \in Range(left) : ~CanGrant(Intention[q], Weight[q])'
    BY <2>2, <2>3
  <2> QED
    BY <2>1, <2>4
<1>4. CASE GrantWaiter(r, fails)
  <2>1. ContinueDrain(kept) /\ Charge(r) /\ queuedBy' = Dequeued(Intention[r])
    BY <1>2, <1>4 DEF GrantWaiter, StoreThrows
  <2> QED
    BY <1>1, <1>2, <2>1, GrantRefuses
<1> QED
  BY <1>3, <1>4 DEF DrainStep, r

\* Only drainWaiters() itself runs during a pass.
LEMMA PassSteps ==
  ASSUME TRUE \notin StoreFails, [Next]_vars, ~Idle
  PROVE  UNCHANGED vars \/ \E fails \in StoreFails : ~fails /\ DrainStep(fails)
<1>1. \A fails \in StoreFails : ~fails
  BY GateAssumption
<1> QED
  BY <1>1 DEF Next, Caller, Acquire, QueueTimeout, Abort, LeaveQueue, Release, Reuse, Drain,
     ReleaseTimer, Control, Resize, SetHardCap, SetSoftLimit, Reconfigure, Shutdown, Breaker,
     Record429, RecordSuccess, CooldownElapses, Expire429

\* A pass starts with nothing kept.
LEMMA PassStarts == [Next]_vars /\ Idle => Idle' \/ kept' = <<>>
<1> SUFFICES ASSUME [Next]_vars, Idle PROVE Idle' \/ kept' = <<>>
  OBVIOUS
<1>1. StartDrain \/ UNCHANGED drainVars
  BY DEF Next, Caller, Acquire, QueueTimeout, Abort, LeaveQueue, Release, Reuse, Drain,
     DrainStep, ReleaseTimer, Control, Resize, SetHardCap, SetSoftLimit, Reconfigure, Shutdown,
     Breaker, Record429, RecordSuccess, CooldownElapses, Expire429, vars, Idle
<1> QED
  BY <1>1 DEF StartDrain, drainVars, Idle

\* PassInv is preserved, and when a pass ends nobody in the queue fits.
LEMMA NextPass ==
  ASSUME TRUE \notin StoreFails
  PROVE  TypeOK /\ WaitInv /\ PassInv /\ [Next]_vars =>
           PassInv' /\ (~Idle /\ Idle' => Refused(waiters)')
<1> SUFFICES ASSUME TypeOK, WaitInv, PassInv, [Next]_vars
             PROVE  PassInv' /\ (~Idle /\ Idle' => Refused(waiters)')
  OBVIOUS
<1>1. TypeOK'
  BY NextTypeOK
<1>2. CASE Idle
  BY <1>2, PassStarts, EmptyEntries DEF PassInv, Refused
<1>3. CASE ~Idle /\ UNCHANGED vars
  BY <1>3 DEF PassInv, Idle, Refused, CanGrant, Capacity, EffectiveReservations, OverSubscribed,
     Reserved, vars, semVars, countVars, queueVars, drainVars
<1>4. CASE \E fails \in StoreFails : ~fails /\ DrainStep(fails)
  <2>1. PICK left \in Seq(Requests) :
          /\ ContinueDrain(left)
          /\ \A q \in Range(left) : ~CanGrant(Intention[q], Weight[q])'
    BY <1>1, <1>4, DrainRefuses
  <2>2. CASE Tail(todo) = <<>>
    BY <2>1, <2>2 DEF ContinueDrain, Idle, PassInv, Refused
  <2>3. CASE Tail(todo) # <<>>
    BY <2>1, <2>3 DEF ContinueDrain, Idle, PassInv, Refused
  <2> QED
    BY <2>2, <2>3
<1> QED
  BY <1>2, <1>3, <1>4, PassSteps

\* Types, queue and pass together hold always.
LEMMA AlwaysPass ==
  ASSUME TRUE \notin StoreFails
  PROVE  Spec => [](TypeOK /\ WaitInv /\ PassInv)
<1>1. Init => PassInv
  BY DEF Init, PassInv, Idle
<1>2. TypeOK /\ WaitInv /\ PassInv /\ [Next]_vars => PassInv'
  BY NextPass
<1> QED
  BY <1>1, <1>2, AlwaysWait, PTL DEF Spec

\* One pass of drainWaiters() grants all there is to grant, since what it grants
\* never makes room for what it has skipped, unless an onAcquire throws and
\* ends the pass early.
THEOREM DrainIsExhaustive ==
  ASSUME TRUE \notin StoreFails
  PROVE  Spec => DrainExhaustive
<1>1. TypeOK /\ WaitInv /\ PassInv /\ [Next]_vars => [~Idle /\ Idle' => Grantable' = {}]_vars
  <2> SUFFICES ASSUME TypeOK, WaitInv, PassInv, [Next]_vars, ~Idle, Idle'
               PROVE  Grantable' = {}
    OBVIOUS
  <2>1. Refused(waiters)'
    BY NextPass
  <2> QED
    BY <2>1 DEF Refused, Grantable, Range
<1> QED
  BY <1>1, AlwaysPass, PTL DEF Spec, DrainExhaustive

(***************************************************************************)
(* Order.                                                                  *)
(***************************************************************************)
\* The steps by which a caller comes to hold a permit, or an idle one changes.
LEMMA StatusSteps ==
  ASSUME TypeOK, [Next]_vars, NEW r \in Requests, status'[r] # status[r],
         status[r] = "idle" \/ status'[r] = "held"
  PROVE  \/ \E fails \in StoreFails : Acquire(r, fails)
         \/ /\ status[r] # "idle" /\ todo # <<>> /\ r = Head(todo)
            /\ \E fails \in StoreFails : GrantWaiter(r, fails) /\ DrainStep(fails)
<1>1. status \in [Requests -> Statuses]
  BY DEF TypeOK
<1>2. ASSUME NEW q \in Requests, Caller(q) PROVE \E fails \in StoreFails : Acquire(r, fails)
  <2>1. CASE \E fails \in StoreFails : Acquire(q, fails)
    <3>1. \E s : status' = [status EXCEPT ![q] = s]
      BY <2>1 DEF Acquire, Refuse, Admit, GrantNow, Enqueue, QueueFull
    <3>2. q = r
      BY <1>1, <3>1
    <3> QED
      BY <2>1, <3>2
  <2>2. CASE QueueTimeout(q) \/ Abort(q)
    <3>1. status' = status \/ (status[q] = "queued" /\
            \E s \in {"timeout", "aborted"} : status' = [status EXCEPT ![q] = s])
      BY <2>2 DEF QueueTimeout, Abort, LeaveQueue
    <3> QED
      BY <1>1, <3>1
  <2>3. CASE Release(q) \/ Reuse(q)
    <3>1. /\ status[q] # "idle"
          /\ \E s \in {"done", "cooling", "idle"} : status' = [status EXCEPT ![q] = s]
      BY <2>3 DEF Release, Reuse, Settled, Rejections
    <3> QED
      BY <1>1, <3>1
  <2> QED
    BY <1>2, <2>1, <2>2, <2>3 DEF Caller
<1>3. ASSUME NEW fails \in StoreFails, DrainStep(fails)
      PROVE  /\ status[r] # "idle" /\ todo # <<>> /\ r = Head(todo)
             /\ GrantWaiter(r, fails) /\ DrainStep(fails)
  <2> DEFINE h == Head(todo)
  <2>1. /\ todo # <<>> /\ status' # status
        /\ SkipWaiter(h) \/ GrantWaiter(h, fails)
    BY <1>3 DEF DrainStep
  <2>2. GrantWaiter(h, fails) /\ status[h] = "queued" /\ status' = [status EXCEPT ![h] = "held"]
    BY <2>1 DEF SkipWaiter, GrantWaiter
  <2>3. h = r
    BY <1>1, <2>2
  <2> QED
    BY <1>3, <2>1, <2>2, <2>3
<1>4. ~ReleaseTimer /\ ~Shutdown
  BY <1>1 DEF ReleaseTimer, Shutdown
<1>5. CASE Control \/ Breaker \/ UNCHANGED vars
  BY <1>4, <1>5 DEF Control, Resize, SetHardCap, SetSoftLimit, Reconfigure, Breaker, Record429,
     RecordSuccess, CooldownElapses, Expire429, vars, callerVars
<1> QED
  BY <1>2, <1>3, <1>4, <1>5 DEF Next, Drain

\* Past a breaker that is not closed acquire() lets only the first caller after
\* the cooldown, and that one leaves it half open (maybeHalfOpen()). That is one
\* admission per opening, not one probe at a time: a late 429 opens the breaker
\* again while the probe is out.
THEOREM BreakerSingleFlight == Spec => SingleFlight
<1> DEFINE Single == \A r \in Requests :
                       /\ status[r] = "idle" /\ breaker # "closed"
                       /\ status'[r] \in {"held", "queued", "queue_full"}
                       => breaker = "open" /\ cooled /\ breaker' = "half_open"
<1>1. TypeOK /\ BreakerInv /\ [Next]_vars => [Single]_vars
  <2> SUFFICES ASSUME TypeOK, BreakerInv, [Next]_vars, NEW r \in Requests,
                      status[r] = "idle", breaker # "closed",
                      status'[r] \in {"held", "queued", "queue_full"}
               PROVE  breaker = "open" /\ cooled /\ breaker' = "half_open"
    OBVIOUS
  <2>1. PICK fails \in StoreFails : Acquire(r, fails)
    BY StatusSteps
  <2>2. ~Refuse(r)
    BY DEF Refuse, TypeOK
  <2>3. BreakerAnswer # "open" /\ MaybeHalfOpen
    BY <2>1, <2>2 DEF Acquire, Admit
  <2>4. breaker = "open" /\ ~probeStarted /\ cooled
    BY <2>3, Zenon DEF BreakerAnswer, BreakerInv
  <2>5. BreakerAnswer = "half_open"
    BY <2>4, Zenon DEF BreakerAnswer
  <2> QED
    BY <2>3, <2>4, <2>5 DEF MaybeHalfOpen
<1> QED
  BY <1>1, TypeCorrect, BreakerCorrect, PTL DEF Spec, SingleFlight

\* Whoever waits outside a pass does not fit, while nobody leaves the queue and
\* the configuration stays.
RestInv == Idle => Refused(waiters)

\* A caller that is charged or queued by acquire() lets nobody else in.
LEMMA AcquireRests ==
  ASSUME TypeOK, TypeOK', WaitInv, RestInv, NEW r \in Requests, NEW fails \in StoreFails,
         Acquire(r, fails)
  PROVE  RestInv'
<1>1. /\ Idle /\ UNCHANGED <<limit, cfg>> /\ Refused(waiters) /\ waiters \in Seq(Requests)
      /\ Intention[r] \in Intentions /\ Weight[r] \in Nat
      /\ status[r] = "idle" /\ queuedBy \in [Intentions -> Nat]
  BY RequestType DEF Acquire, RestInv, TypeOK, semVars
<1>2. \A q \in Range(waiters) : /\ q \in Requests /\ ~CanGrant(Intention[q], Weight[q])
                                /\ Intention[q] \in Intentions /\ Weight[q] \in Nat
  BY <1>1, Positions, RequestType DEF Refused
<1>3. CASE GrantNow(r, fails)
  <2>1. /\ active' = active + Weight[r] /\ waiters' = waiters /\ queuedBy' = queuedBy
        /\ activeBy' = [activeBy EXCEPT ![Intention[r]] = @ + Weight[r]]
    BY <1>3 DEF GrantNow, Charge, queueVars
  <2>2. \A k \in Intentions : (k = Intention[r] /\ Weight[r] > 0) \/ queuedBy'[k] >= queuedBy[k]
    BY <1>1, <2>1
  <2>3. ASSUME NEW q \in Range(waiters) PROVE ~CanGrant(Intention[q], Weight[q])'
    BY <1>1, <1>2, <2>1, <2>2, StaysRefused
  <2> QED
    BY <2>1, <2>3 DEF RestInv, Refused
<1>4. CASE Enqueue(r)
  <2>1. /\ active' = active /\ activeBy' = activeBy /\ waiters' = Append(waiters, r)
        /\ queuedBy' = [queuedBy EXCEPT ![Intention[r]] = @ + 1]
        /\ ~CanGrant(Intention[r], Weight[r])
    BY <1>4 DEF Enqueue, countVars
  <2>2. /\ active' = active + 0 /\ activeBy' = [activeBy EXCEPT ![Intention[r]] = @ + 0]
    <3>1. active \in Nat /\ activeBy \in [Intentions -> Nat]
      BY DEF TypeOK
    <3>2. active + 0 = active /\ activeBy[Intention[r]] + 0 = activeBy[Intention[r]]
      BY <1>1, <3>1
    <3>3. activeBy = [activeBy EXCEPT ![Intention[r]] = activeBy[Intention[r]]]
      BY <3>1
    <3> QED
      BY <2>1, <3>2, <3>3
  <2>3. \A k \in Intentions : (k = Intention[r] /\ 0 > 0) \/ queuedBy'[k] >= queuedBy[k]
    BY <1>1, <2>1
  <2>4. Range(waiters') = Range(waiters) \cup {r}
    BY <1>1, <2>1, AppendEntries
  <2>5. ASSUME NEW q \in Range(waiters') PROVE ~CanGrant(Intention[q], Weight[q])'
    <3>1. /\ ~CanGrant(Intention[q], Weight[q])
          /\ Intention[q] \in Intentions /\ Weight[q] \in Nat
      BY <1>1, <1>2, <2>1, <2>4
    <3>2. 0 \in Nat
      OBVIOUS
    <3> QED
      BY <1>1, <2>2, <2>3, <3>1, <3>2, StaysRefused
  <2> QED
    BY <2>5 DEF RestInv, Refused
<1>5. CASE UNCHANGED <<countVars, queueVars>>
  BY <1>1, <1>5 DEF RestInv, Refused, CanGrant, Capacity, EffectiveReservations, OverSubscribed,
     Reserved, countVars, queueVars
<1> QED
  BY <1>3, <1>4, <1>5 DEF Acquire, Refuse, Admit, QueueFull

\* Every step of patient callers is a step of the gate that keeps RestInv.
LEMMA NextRests ==
  ASSUME TRUE \notin StoreFails
  PROVE  /\ [PatientNext]_vars => [Next]_vars
         /\ TypeOK /\ WaitInv /\ PassInv /\ RestInv /\ [PatientNext]_vars => RestInv'
<1>1. [PatientNext]_vars => [Next]_vars
  BY DEF PatientNext, Next, Caller, Control
<1> SUFFICES ASSUME TypeOK, WaitInv, PassInv, RestInv, [PatientNext]_vars PROVE RestInv'
  BY <1>1
<1>2. TypeOK'
  BY <1>1, NextTypeOK
<1>3. CASE ~Idle
  BY <1>1, <1>3, NextPass DEF RestInv
<1>4. ASSUME NEW r \in Requests, NEW fails \in StoreFails, Acquire(r, fails) PROVE RestInv'
  BY <1>2, <1>4, AcquireRests
<1>5. ASSUME NEW r \in Requests, Release(r) \/ Reuse(r) PROVE RestInv'
  BY <1>5 DEF RestInv, Idle, Refused, CanGrant, Capacity, EffectiveReservations, OverSubscribed,
     Reserved, Release, Reuse, vars, semVars, countVars, queueVars, drainVars
<1>6. ASSUME UNCHANGED vars PROVE RestInv'
  BY <1>6 DEF RestInv, Idle, Refused, CanGrant, Capacity, EffectiveReservations, OverSubscribed,
     Reserved, vars, semVars, countVars, queueVars, drainVars
<1>7. CASE ReleaseTimer \/ \E n \in Limits : Resize(n)
  <2>1. todo' = waiters /\ waiters' = waiters
    BY <1>7 DEF ReleaseTimer, Resize, StartDrain, queueVars
  <2> QED
    BY <2>1, EmptyEntries DEF RestInv, Idle, Refused
<1>8. CASE Idle /\ Drain
  BY <1>8 DEF Drain, DrainStep, Idle
<1> QED
  BY <1>3, <1>4, <1>5, <1>6, <1>7, <1>8 DEF PatientNext

\* A permit never goes past an earlier, no heavier waiter of the same intention,
\* while nobody leaves the queue, the configuration stays and no onAcquire throws.
THEOREM GrantedInOrder ==
  ASSUME TRUE \notin StoreFails
  PROVE  PatientSpec => FIFO
<1> DEFINE InOrder ==
             \A r, q \in Requests :
               /\ Granted(r) /\ q # r
               /\ status[q] = "queued" /\ status'[q] = "queued"
               /\ Intention[q] = Intention[r] /\ Weight[q] <= Weight[r]
               => /\ status[r] = "queued"
                  /\ \E j, k \in DOMAIN waiters :
                       j < k /\ waiters[j] = r /\ waiters[k] = q
<1>1. TypeOK /\ WaitInv /\ PassInv /\ RestInv /\ [PatientNext]_vars => [InOrder]_vars
  <2> SUFFICES ASSUME TypeOK, WaitInv, PassInv, RestInv, [PatientNext]_vars,
                      NEW r \in Requests, NEW q \in Requests, Granted(r), q # r,
                      status[q] = "queued", status'[q] = "queued",
                      Intention[q] = Intention[r], Weight[q] <= Weight[r]
               PROVE  /\ status[r] = "queued"
                      /\ \E j, k \in DOMAIN waiters :
                           j < k /\ waiters[j] = r /\ waiters[k] = q
    OBVIOUS
  <2>1. /\ waiters \in Seq(Requests) /\ todo \in Seq(Requests) /\ kept \in Seq(Requests)
        /\ q \in Queued /\ Intention[r] \in Intentions
        /\ Weight[q] \in Nat /\ Weight[r] \in Nat
    BY RequestType DEF TypeOK, Queued
  <2>2. CanGrant(Intention[r], Weight[r]) => CanGrant(Intention[q], Weight[q])
    BY <2>1, LighterFits
  <2>3. ASSUME NEW fails \in StoreFails, Acquire(r, fails) PROVE FALSE
    <3>1. Idle /\ status[r] = "idle" /\ status'[r] = "held"
      BY <2>3 DEF Acquire, Granted
    <3>2. GrantNow(r, fails)
      BY <2>3, <3>1 DEF Acquire, Refuse, Admit, Enqueue, QueueFull, TypeOK
    <3>3. q \in Range(waiters)
      BY <2>1, <3>1 DEF WaitInv, LineInv
    <3> QED
      BY <2>2, <3>1, <3>2, <3>3 DEF GrantNow, RestInv, Refused
  <2>4. PICK fails \in StoreFails :
          todo # <<>> /\ r = Head(todo) /\ GrantWaiter(r, fails)
    BY <2>3, NextRests, StatusSteps DEF Granted
  <2>5. /\ ~Idle /\ q \notin Range(kept)
    BY <2>2, <2>4 DEF Idle, GrantWaiter, PassInv, Refused
  <2>6. q \in Range(todo) /\ r \in Range(todo) /\ Range(todo) \subseteq Queued
    BY <2>1, <2>4, <2>5, TailEntries DEF WaitInv, LineInv
  <2>7. PICK m \in 1 .. Len(todo) : todo[m] = q
    BY <2>1, <2>6, Positions
  <2>8. todo[1] = r /\ m # 1 /\ Len(todo) \in Nat
    BY <2>1, <2>4, <2>7
  <2>9. PICK n \in 0 .. Len(waiters) : todo = SubSeq(waiters, n + 1, Len(waiters))
    BY <2>5 DEF WaitInv, SuffixInv
  <2>10. /\ Len(todo) = Len(waiters) - n /\ Len(waiters) \in Nat
         /\ \A i \in 1 .. Len(todo) : todo[i] = waiters[n + i]
    BY <2>1, <2>9
  <2>11. /\ n + 1 \in 1 .. Len(waiters) /\ n + m \in 1 .. Len(waiters) /\ n + 1 < n + m
         /\ waiters[n + 1] = r /\ waiters[n + m] = q
    BY <2>7, <2>8, <2>10
  <2>12. status[r] = "queued"
    BY <2>6 DEF Queued
  <2>13. DOMAIN waiters = 1 .. Len(waiters)
    BY <2>1
  <2> QED
    BY <2>11, <2>12, <2>13
<1>2. PatientSpec => Spec
  BY NextRests, PTL DEF PatientSpec, Spec
<1>3. Init => RestInv
  BY EmptyEntries DEF Init, RestInv, Refused
<1>4. TypeOK /\ WaitInv /\ PassInv /\ RestInv /\ [PatientNext]_vars => RestInv'
  BY NextRests
<1>5. PatientSpec => [](TypeOK /\ WaitInv /\ PassInv /\ RestInv)
  BY <1>2, <1>3, <1>4, AlwaysPass, PTL DEF PatientSpec
<1> QED
  BY <1>1, <1>5, PTL DEF PatientSpec, FIFO

=============================================================================
