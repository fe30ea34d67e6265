------------------------- MODULE ProxyRequestProofs -------------------------
(***************************************************************************)
(* Proofs about ProxyRequest, for every set of configurations: the permit  *)
(* is released once and upstream is asked only with one, the capture gets  *)
(* one final update, incidents explain it, and the breaker is told once.   *)
(***************************************************************************)
EXTENDS ProxyRequest, TLAPS

Before == {"parse", "vision", "acquire"}
Loop == Fetching \cup {"cooldown"}
Retried == {"ttft_timeout", "id_rewrite"}

(***************************************************************************)
(* The inductive invariant, by the place the handler is at.                *)
(***************************************************************************)
\* Until the gate grants, the request owns nothing but its row.
EarlyInv ==
  pc \in Before =>
    /\ row = (pc # "parse")
    /\ permit = "none" /\ updates = <<>> /\ incidents = {}
    /\ stream = "none" /\ ~flushed /\ verdicts = 0

\* In the retry loop nothing is settled; only the watchdog has taken a permit.
LoopInv ==
  pc \in Loop =>
    /\ row /\ permit # "none" /\ (permit = "released" => overrun)
    /\ updates = <<>> /\ incidents \subseteq Retried
    /\ stream = "none" /\ ~flushed /\ verdicts = 0

\* The status a stream will be, or was, flushed with explains its incidents.
StreamInv ==
  pc = "stream" =>
    /\ row /\ permit # "none" /\ stream # "none"
    /\ flushed => permit = "released"
    /\ permit = "released" => flushed \/ overrun
    /\ ~flushed => updates = <<>> /\ incidents \subseteq Retried
    /\ flushed => /\ updates = <<response.status>>
                  /\ response.status # "ok" => "upstream_error" \in incidents
                  /\ response.status = "ok" => incidents \subseteq Retried \cup {"client_aborted"}

\* What is over is settled, and no timer is left.
OverInv ==
  pc = "over" =>
    /\ permit # "held"
    /\ row => Len(updates) = 1
    /\ ~row => updates = <<>>
    /\ Attributed

\* The timer runs only while the permit is held, and marks what it took.
WatchdogInv == (watchdog => permit = "held") /\ (overrun => permit = "released")

\* A failed rewriting is followed by a timeout, or its status is the answer.
RewriteInv ==
  pc \in Loop \cup {"stream"} /\ "id_rewrite" \in incidents =>
    "ttft_timeout" \in incidents \/ (pc \in {"firstchunk", "stream"} /\ response.status # "ok")

\* A 502 that may be passed on has nothing to tell the breaker.
PendingInv ==
  /\ pc \in {"errbody", "rewrite"} => response.status = "502" /\ pending = "none"
  /\ pc = "firstchunk" /\ response.buffered => pending = "none"

RequestInv ==
  /\ EarlyInv /\ LoopInv /\ StreamInv /\ OverInv
  /\ WatchdogInv /\ RewriteInv /\ PendingInv /\ ReleasedOnce

Inv == ProxyTypeOK /\ RequestInv

(***************************************************************************)
(* Type correctness.  The Boolean flags and the rest are kept apart: the   *)
(* first are a matter of case analysis, the second of sets and sequences.  *)
(***************************************************************************)
Flags ==
  /\ aborted \in BOOLEAN /\ row \in BOOLEAN /\ overrun \in BOOLEAN
  /\ watchdog \in BOOLEAN /\ late \in BOOLEAN /\ cooling \in BOOLEAN
  /\ raced \in BOOLEAN /\ flushed \in BOOLEAN

Fields ==
  /\ cfg \in Config /\ pc \in Places
  /\ updates \in Seq(Final) /\ incidents \subseteq IncidentTypes
  /\ permit \in {"none", "held", "released"} /\ releases \in Nat
  /\ attempt \in 1 .. 3
  /\ ttft \in {"off", "armed", "fired"}
  /\ deadline \in {"off", "armed", "fired"}
  /\ cause \in {"none", "client", "ttft", "deadline"}
  /\ response \in [status: Statuses, shape: Shapes, buffered: BOOLEAN]
  /\ pending \in {"none", "429", "success"} /\ verdicts \in Nat
  /\ stream \in {"none", "open", "broken", "ended"}

\* Flags and Fields are the type invariant.
LEMMA TypeParts == ProxyTypeOK <=> Flags /\ Fields
  BY Zenon DEF ProxyTypeOK, Flags, Fields

\* Every step keeps the flags Boolean.
LEMMA FlagsStep == Flags /\ [Next]_vars => Flags'
<1> SUFFICES ASSUME Flags, [Next]_vars PROVE Flags'
  OBVIOUS
<1> USE DEF Flags, otherVars, captureVars, permitVars, signalVars, retryVars,
            responseVars, streamVars
<1>1. ASSUME NEW s, NEW types, Finish(s, types)
      PROVE  /\ row' \in BOOLEAN /\ watchdog' \in BOOLEAN /\ cooling' \in BOOLEAN
  BY <1>1, Zenon DEF Finish, ReleasePermit
<1>2. ASSUME NEW s, NEW types, Flush(s, types)
      PROVE  row' \in BOOLEAN /\ flushed' \in BOOLEAN
  BY <1>2, Zenon DEF Flush
<1>3. ASSUME NEW s, NEW b, OnAbort(s, b)
      PROVE  row' \in BOOLEAN /\ flushed' \in BOOLEAN /\ watchdog' \in BOOLEAN
  BY <1>3, Zenon DEF OnAbort, Flush, ReleasePermit
<1>4. ASSUME NEW r, NEW c, NEW types, Respond(r, c, types)
      PROVE  /\ row' \in BOOLEAN /\ flushed' \in BOOLEAN
             /\ watchdog' \in BOOLEAN /\ cooling' \in BOOLEAN
  <2>1. CASE r.shape = "empty"
    BY <1>1, <1>4, <2>1, Zenon DEF Respond
  <2>2. CASE r.shape # "empty"
    <3>1. CASE aborted
      BY <1>4, <2>2, <3>1, Zenon DEF Respond, Flush, ReleasePermit
    <3>2. CASE ~aborted /\ c # "none"
      BY <1>3, <1>4, <2>2, <3>2, Zenon DEF Respond
    <3>3. CASE ~aborted /\ c = "none"
      BY <1>4, <2>2, <3>3, Zenon DEF Respond
    <3> QED
      BY <3>1, <3>2, <3>3, Zenon
  <2> QED
    BY <2>1, <2>2, Zenon
<1>5. ASSUME NEW r, NEW v, NEW c, NEW types, Proceed(r, v, c, types)
      PROVE  /\ row' \in BOOLEAN /\ flushed' \in BOOLEAN
             /\ watchdog' \in BOOLEAN /\ cooling' \in BOOLEAN
  BY <1>4, <1>5, Zenon DEF Proceed, Settle
<1>6. CASE Early
  BY <1>1, <1>6, Zenon DEF Early, ParseInbound, RateLimited, RateAllowed, GateRejects,
                    GateGrants, StartAttempt
<1>7. CASE Upstream
  <2>1. CASE \E r \in Responses : FetchResolves(r) \/ RewriteReturns(r)
    BY <1>5, <1>7, <2>1, Zenon DEF FetchResolves, RewriteReturns
  <2>2. CASE ErrorPassedOn \/ RewriteRetry \/ StreamBreaks
    BY <1>5, <2>2, Zenon DEF ErrorPassedOn, RewriteRetry, StreamBreaks
  <2>3. CASE FirstChunk \/ StreamEnds
    BY <1>2, <1>4, <2>3, Zenon DEF FirstChunk, Settle, StreamEnds, ReleasePermit
  <2> QED
    BY <1>7, <2>1, <2>2, <2>3, Zenon DEF Upstream
<1>8. CASE Fails
  <2>1. CASE ErrorBodyFails \/ EscalationFails
    BY <1>1, <2>1, Zenon DEF ErrorBodyFails, EscalationFails
  <2>2. CASE RewriteFails
    BY <1>5, <2>2, Zenon DEF RewriteFails
  <2>3. CASE AttemptFails
    BY <1>1, <2>3, Zenon DEF AttemptFails, Failed, TtftRetry, KeepPermit
  <2> QED
    BY <1>8, <2>1, <2>2, <2>3, Zenon DEF Fails
<1>9. CASE Timers
  BY <1>2, <1>3, <1>9, Zenon DEF Timers, TtftFires, DeadlineFires, WatchdogFires, WatchdogFlush,
                       ReleasePermit, CooldownEnds, StartAttempt
<1>10. CASE ClientAborts
  BY <1>3, <1>10, Zenon DEF ClientAborts
<1>11. CASE \E c \in Configs : Reload(c)
  BY <1>11, Zenon DEF Reload
<1>12. CASE UNCHANGED vars
  BY <1>12, Zenon DEF vars
<1> QED
  BY <1>6, <1>7, <1>8, <1>9, <1>10, <1>11, <1>12, Zenon DEF Next

\* Every step keeps the other fields in their types.
LEMMA FieldsStep == Flags /\ Fields /\ [Next]_vars => Fields'
<1> SUFFICES ASSUME Flags, Fields, [Next]_vars PROVE Fields'
  OBVIOUS
<1> USE DEF otherVars, captureVars, permitVars, signalVars, retryVars,
            responseVars, streamVars
<1> DEFINE Kept == /\ updates' \in Seq(Final) /\ incidents' \subseteq IncidentTypes
                   /\ permit' \in {"none", "held", "released"} /\ releases' \in Nat
<1>a. ReleasePermit => permit' \in {"none", "held", "released"} /\ releases' \in Nat
  BY DEF Fields, ReleasePermit
<1>b. \A s \in Final : Append(updates, s) \in Seq(Final)
  BY DEF Fields
<1>c. \A s : UpstreamIncident(s) \subseteq IncidentTypes
  BY DEF UpstreamIncident, IncidentTypes
<1>d. Statuses \subseteq Final /\ {"499", "500", "503", "504", "502"} \subseteq Final
  BY DEF Final, Statuses
<1>1. ASSUME NEW s \in Final, NEW types \in SUBSET IncidentTypes, Finish(s, types)
      PROVE  pc' \in Places /\ Kept
  BY <1>a, <1>b, <1>1 DEF Finish, Fields, Places
<1>2. ASSUME NEW s \in Statuses, NEW types \in SUBSET IncidentTypes, Flush(s, types)
      PROVE  updates' \in Seq(Final) /\ incidents' \subseteq IncidentTypes
  BY <1>b, <1>c, <1>d, <1>2 DEF Flush, Fields
<1>3. ASSUME NEW s \in Statuses, NEW b, OnAbort(s, b)
      PROVE  Kept
  <2>1. (IF b THEN {"client_aborted"} ELSE {}) \in SUBSET IncidentTypes
    BY DEF IncidentTypes
  <2>2. CASE permit = "released"
    BY <1>3, <2>2 DEF OnAbort, Fields
  <2>3. CASE permit # "released"
    BY <1>a, <1>2, <1>3, <2>1, <2>3 DEF OnAbort
  <2> QED
    BY <2>2, <2>3
<1>4. ASSUME NEW r \in [status: Statuses, shape: Shapes, buffered: BOOLEAN], NEW c,
             NEW types \in SUBSET IncidentTypes, Respond(r, c, types)
      PROVE  /\ pc' \in Places /\ Kept
             /\ stream' \in {"none", "open", "broken", "ended"}
  <2>1. r.status \in Statuses /\ r.status \in Final
    BY <1>d
  <2>2. CASE r.shape = "empty"
    <3>1. types \cup UpstreamIncident(r.status) \in SUBSET IncidentTypes
      BY <1>c
    <3>2. Finish(r.status, types \cup UpstreamIncident(r.status)) /\ stream' = stream
      BY <1>4, <2>2 DEF Respond
    <3> QED
      BY <1>1, <2>1, <3>1, <3>2 DEF Fields
  <2>3. CASE r.shape # "empty"
    <3>1. pc' = "stream" /\ stream' = "open"
      BY <1>4, <2>3 DEF Respond
    <3>2. CASE aborted
      <4>1. Flush(r.status, types) /\ ReleasePermit
        BY <1>4, <2>3, <3>2, Zenon DEF Respond
      <4> QED
        BY <1>a, <1>2, <2>1, <3>1, <4>1 DEF Places
    <3>3. CASE ~aborted /\ c # "none"
      <4>1. OnAbort(r.status, FALSE)
        BY <1>4, <2>3, <3>3, Zenon DEF Respond
      <4> QED
        BY <1>3, <2>1, <3>1, <4>1 DEF Places
    <3>4. CASE ~aborted /\ c = "none"
      <4>1. /\ incidents' = incidents \cup types /\ updates' = updates
            /\ permit' = permit /\ releases' = releases
        BY <1>4, <2>3, <3>4, Zenon DEF Respond
      <4> QED
        BY <3>1, <4>1 DEF Fields, Places
    <3> QED
      BY <3>2, <3>3, <3>4, Zenon
  <2> QED
    BY <2>2, <2>3
<1>5. ASSUME NEW r \in [status: Statuses, shape: Shapes, buffered: BOOLEAN],
             NEW v \in {"none", "429", "success"}, NEW c,
             NEW types \in SUBSET IncidentTypes, Settle(r, v, c, types)
      PROVE  /\ pc' \in Places /\ Kept
             /\ stream' \in {"none", "open", "broken", "ended"}
             /\ ttft' \in {"off", "armed", "fired"} /\ verdicts' \in Nat
  <2>1. Respond(r, c, types) /\ ttft' = "off"
    BY <1>5 DEF Settle
  <2>2. verdicts' \in Nat
    BY <1>5 DEF Settle, Fields
  <2> QED
    BY <1>4, <2>1, <2>2
<1>6. ASSUME NEW r \in [status: Statuses, shape: Shapes, buffered: BOOLEAN],
             NEW v \in {"none", "429", "success"}, NEW c,
             NEW types \in SUBSET IncidentTypes, Proceed(r, v, c, types)
      PROVE  /\ pc' \in Places /\ Kept
             /\ stream' \in {"none", "open", "broken", "ended"}
             /\ ttft' \in {"off", "armed", "fired"} /\ verdicts' \in Nat
             /\ response' = r /\ pending' = v
  <2>1. response' = r /\ pending' = v
    BY <1>6, Zenon DEF Proceed
  <2>2. CASE cfg.ttft /\ r.shape = "sse"
    <3>1. /\ pc' = "firstchunk" /\ incidents' = incidents \cup types
          /\ UNCHANGED <<updates, permit, releases, ttft, verdicts, stream>>
      BY <1>6, <2>2, Zenon DEF Proceed
    <3> QED
      BY <2>1, <3>1 DEF Fields, Places, Fetching
  <2>3. CASE ~(cfg.ttft /\ r.shape = "sse")
    <3>1. Settle(r, v, c, types)
      BY <1>6, <2>3, Zenon DEF Proceed
    <3> QED
      BY <1>5, <2>1, <3>1
  <2> QED
    BY <2>2, <2>3, Zenon
<1>7. ASSUME StartAttempt
      PROVE  /\ pc' \in Places /\ ttft' \in {"off", "armed", "fired"}
             /\ deadline' \in {"off", "armed", "fired"}
             /\ cause' \in {"none", "client", "ttft", "deadline"}
             /\ response' \in [status: Statuses, shape: Shapes, buffered: BOOLEAN]
             /\ pending' \in {"none", "429", "success"} /\ verdicts' \in Nat
             /\ attempt' \in 1 .. 3
  <2>1. NoResponse \in [status: Statuses, shape: Shapes, buffered: BOOLEAN]
    BY DEF NoResponse, Statuses, Shapes
  <2>2. /\ pc' \in {"escalate", "fetch"} /\ ttft' \in {"armed", "off"} /\ deadline' = "armed"
        /\ cause' \in {"client", "none"} /\ response' = NoResponse /\ pending' = "none"
        /\ attempt' = attempt /\ verdicts' = verdicts
    BY <1>7, Zenon DEF StartAttempt
  <2> QED
    BY <2>1, <2>2 DEF Fields, Places, Fetching
<1>8. Buffered \in [status: Statuses, shape: Shapes, buffered: BOOLEAN]
  BY DEF Buffered, Fields, Shapes
<1>9. \A s \in Statuses : RewriteIncident(s) \in SUBSET IncidentTypes
  BY DEF RewriteIncident, IncidentTypes
<1>10. \A c \in {"none", "client", "ttft", "deadline"} :
         Caused(c) \in {"none", "client", "ttft", "deadline"}
  BY DEF Caused, Fields
<1>11. ASSUME NEW r \in Responses
       PROVE  r \in [status: Statuses, shape: Shapes, buffered: BOOLEAN] /\ r.status \in Statuses
  BY DEF Responses
<1>12. {"rate_limited"} \in SUBSET IncidentTypes /\ {"client_aborted"} \in SUBSET IncidentTypes
       /\ {"gate_rejected"} \in SUBSET IncidentTypes /\ {"ttft_timeout"} \in SUBSET IncidentTypes
       /\ {"upstream_error"} \in SUBSET IncidentTypes /\ {} \in SUBSET IncidentTypes
  BY DEF IncidentTypes
<1>13. CASE Early
  <2>1. CASE ParseInbound \/ RateAllowed
    BY <2>1 DEF ParseInbound, RateAllowed, Fields, Places
  <2>2. CASE RateLimited
    <3>1. Finish("503", {"rate_limited"})
      BY <2>2, Zenon DEF RateLimited
    <3> QED
      BY <1>1, <1>12, <1>d, <2>2, <3>1 DEF RateLimited, Fields
  <2>3. CASE GateRejects
    <3>1. \E s \in Final, types \in SUBSET IncidentTypes : Finish(s, types)
      BY <1>d, <1>12, <2>3, Zenon DEF GateRejects
    <3> QED
      BY <1>1, <2>3, <3>1 DEF GateRejects, Fields
  <2>4. CASE GateGrants
    <3>1. StartAttempt /\ permit' = "held"
          /\ UNCHANGED <<cfg, updates, incidents, releases, stream>>
      BY <2>4, Zenon DEF GateGrants
    <3> QED
      BY <1>7, <3>1 DEF Fields
  <2> QED
    BY <1>13, <2>1, <2>2, <2>3, <2>4, Zenon DEF Early
<1>14. CASE Upstream
  <2>1. ASSUME NEW r \in Responses, FetchResolves(r) PROVE Fields'
    <3> DEFINE v == CASE r.status = "429" -> "429" [] r.status = "ok" -> "success"
                      [] OTHER -> "none"
    <3>1. v \in {"none", "429", "success"}
      OBVIOUS
    <3>2. UNCHANGED <<cfg, deadline, cause, attempt>>
      BY <2>1, Zenon DEF FetchResolves
    <3>3. CASE cfg.rewrite /\ r.status = "502"
      <4>1. /\ pc' = "errbody" /\ response' = r /\ pending' = v
            /\ UNCHANGED <<updates, incidents, permit, releases, ttft, verdicts, stream>>
        BY <2>1, <3>3, Zenon DEF FetchResolves
      <4> QED
        BY <1>11, <3>1, <3>2, <4>1 DEF Fields, Places, Fetching
    <3>4. CASE ~(cfg.rewrite /\ r.status = "502")
      <4>1. Proceed(r, v, "none", {})
        BY <2>1, <3>4, Zenon DEF FetchResolves
      <4> HIDE DEF v
      <4> QED
        BY <1>6, <1>11, <1>12, <3>1, <3>2, <4>1 DEF Fields
    <3> QED
      BY <3>3, <3>4, Zenon
  <2>2. ASSUME NEW r \in Responses, RewriteReturns(r) PROVE Fields'
    <3>1. Proceed(r, pending, "none", RewriteIncident(r.status))
          /\ UNCHANGED <<cfg, deadline, cause, attempt>>
      BY <2>2, Zenon DEF RewriteReturns
    <3>2. pending \in {"none", "429", "success"}
      BY DEF Fields
    <3> QED
      BY <1>6, <1>9, <1>11, <3>1, <3>2 DEF Fields
  <2>3. CASE ErrorPassedOn
    <3>1. Proceed(Buffered, pending, cause, {}) /\ UNCHANGED <<cfg, deadline, cause, attempt>>
      BY <2>3, Zenon DEF ErrorPassedOn
    <3>2. pending \in {"none", "429", "success"}
      BY DEF Fields
    <3> QED
      BY <1>6, <1>8, <1>12, <3>1, <3>2 DEF Fields
  <2>4. CASE RewriteRetry
    BY <2>4 DEF RewriteRetry, Fields, Places, Fetching
  <2>5. CASE FirstChunk
    <3>1. Settle(response, pending, cause, {})
          /\ UNCHANGED <<cfg, deadline, cause, attempt, response, pending>>
      BY <2>5, Zenon DEF FirstChunk
    <3>2. /\ pending \in {"none", "429", "success"}
          /\ response \in [status: Statuses, shape: Shapes, buffered: BOOLEAN]
      BY DEF Fields
    <3> QED
      BY <1>5, <1>12, <3>1, <3>2 DEF Fields
  <2>6. CASE StreamEnds
    <3>1. response.status \in Statuses
      BY DEF Fields
    <3>2. Flush(response.status, {}) /\ ReleasePermit /\ pc' = "over" /\ stream' = "ended"
          /\ UNCHANGED <<cfg, ttft, deadline, cause, attempt, response, pending, verdicts>>
      BY <2>6, Zenon DEF StreamEnds
    <3> QED
      BY <1>a, <1>2, <1>12, <3>1, <3>2 DEF Fields, Places
  <2>7. CASE StreamBreaks
    BY <2>7 DEF StreamBreaks, Fields
  <2> QED
    BY <1>14, <2>1, <2>2, <2>3, <2>4, <2>5, <2>6, <2>7, Zenon DEF Upstream
<1>15. CASE Fails
  <2>1. CASE ErrorBodyFails \/ EscalationFails
    <3>1. \E s \in Final, types \in SUBSET IncidentTypes : Finish(s, types)
      BY <1>d, <1>12, <2>1, Zenon DEF ErrorBodyFails, EscalationFails
    <3>2. UNCHANGED <<cfg, ttft, deadline, cause, attempt, response, pending, verdicts, stream>>
      BY <2>1, Zenon DEF ErrorBodyFails, EscalationFails
    <3> QED
      BY <1>1, <3>1, <3>2 DEF Fields
  <2>2. CASE RewriteFails
    <3>1. PICK d \in {"armed", "fired"}, c \in {"none", "client", "ttft", "deadline"} :
            deadline' = d /\ cause' = c /\ Proceed(Buffered, pending, c, {})
      BY <2>2, Zenon DEF RewriteFails
    <3>2. UNCHANGED <<cfg, attempt>>
      BY <2>2, Zenon DEF RewriteFails
    <3>3. pending \in {"none", "429", "success"}
      BY DEF Fields
    <3> QED
      BY <1>6, <1>8, <1>12, <3>1, <3>2, <3>3 DEF Fields
  <2>3. CASE AttemptFails
    <3>1. UNCHANGED <<cfg, response, pending, verdicts, stream>>
      BY <2>3, Zenon DEF AttemptFails, AfterFailure
    <3>2. \/ TtftRetry
          \/ /\ \E s \in Final, types \in SUBSET IncidentTypes : Finish(s, types)
             /\ UNCHANGED <<attempt, ttft, deadline, cause>>
      BY <1>d, <1>12, <2>3, Zenon DEF AttemptFails, Failed
    <3>3. CASE TtftRetry
      <4>1. attempt' = attempt + 1 /\ attempt < cfg.max /\ cfg.max \in 1 .. 3
        BY <3>3 DEF TtftRetry, CanRetry, Fields, Config
      <4>2. attempt' \in 1 .. 3
        BY <4>1 DEF Fields
      <4>3. /\ pc' = "cooldown" /\ incidents' = incidents \cup {"ttft_timeout"}
            /\ ttft' = "off" /\ deadline' = "off" /\ cause' = "none"
            /\ UNCHANGED <<permit, releases, updates>>
        BY <3>3, Zenon DEF TtftRetry, KeepPermit
      <4> QED
        BY <1>12, <3>1, <4>2, <4>3 DEF Fields, Places
    <3>4. CASE ~TtftRetry
      BY <1>1, <3>1, <3>2, <3>4 DEF Fields
    <3> QED
      BY <3>3, <3>4, Zenon
  <2> QED
    BY <1>15, <2>1, <2>2, <2>3, Zenon DEF Fails
<1>16. response.status \in Statuses
  BY DEF Fields
<1>17. CASE Timers
  <2>1. CASE TtftFires
    BY <1>10, <2>1 DEF TtftFires, Fields
  <2>2. CASE DeadlineFires
    <3>1. deadline' = "fired" /\ cause' = Caused("deadline")
          /\ UNCHANGED <<cfg, pc, ttft, attempt, response, pending, verdicts, stream>>
      BY <2>2, Zenon DEF DeadlineFires
    <3>2. OnAbort(response.status, aborted) \/ UNCHANGED <<updates, incidents, permit, releases>>
      BY <2>2, Zenon DEF DeadlineFires
    <3>3. Kept
      BY <1>3, <1>16, <3>2 DEF Fields
    <3> QED
      BY <1>10, <3>1, <3>3 DEF Fields
  <2>3. CASE WatchdogFires
    <3>1. /\ ReleasePermit
          /\ UNCHANGED <<cfg, pc, ttft, deadline, cause, attempt, response, pending, verdicts,
                         stream>>
      BY <2>3, Zenon DEF WatchdogFires
    <3>2. Flush(response.status, {}) \/ UNCHANGED <<updates, incidents>>
      BY <2>3, Zenon DEF WatchdogFires, WatchdogFlush
    <3>3. Kept
      BY <1>a, <1>2, <1>12, <1>16, <3>1, <3>2 DEF Fields
    <3> QED
      BY <3>1, <3>3 DEF Fields
  <2>4. CASE CooldownEnds
    <3>1. StartAttempt /\ UNCHANGED <<cfg, updates, incidents, permit, releases, stream>>
      BY <2>4, Zenon DEF CooldownEnds
    <3> QED
      BY <1>7, <3>1 DEF Fields
  <2> QED
    BY <1>17, <2>1, <2>2, <2>3, <2>4, Zenon DEF Timers
<1>18. CASE ClientAborts
  <2>1. (cause' = Caused("client") \/ cause' = cause)
        /\ UNCHANGED <<cfg, pc, ttft, deadline, attempt, response, pending, verdicts, stream>>
    BY <1>18, Zenon DEF ClientAborts
  <2>2. OnAbort(response.status, TRUE) \/ UNCHANGED <<updates, incidents, permit, releases>>
    BY <1>18, Zenon DEF ClientAborts
  <2>3. Kept
    BY <1>3, <1>16, <2>2 DEF Fields
  <2> QED
    BY <1>10, <2>1, <2>3 DEF Fields
<1>19. CASE \E c \in Configs : Reload(c)
  BY <1>19, ProxyAssumption DEF Reload, Fields
<1>20. CASE UNCHANGED vars
  BY <1>20 DEF vars, Fields
<1> QED
  BY <1>13, <1>14, <1>15, <1>17, <1>18, <1>19, <1>20, Zenon DEF Next

\* The initial state is well typed.
LEMMA InitType == Init => ProxyTypeOK
<1> SUFFICES ASSUME Init PROVE ProxyTypeOK
  OBVIOUS
<1>1. Flags
  BY Zenon DEF Init, Flags
<1>2. NoResponse \in [status: Statuses, shape: Shapes, buffered: BOOLEAN]
  BY DEF NoResponse, Statuses, Shapes
<1>3. Fields
  BY <1>2, ProxyAssumption DEF Init, Fields, Places
<1> QED
  BY <1>1, <1>3, TypeParts

\* So is every state reached from a well-typed one.
LEMMA TypeStep == ProxyTypeOK /\ [Next]_vars => ProxyTypeOK'
<1>1. Flags' /\ Fields' => ProxyTypeOK'
  BY Zenon DEF ProxyTypeOK, Flags, Fields
<1> QED
  BY <1>1, TypeParts, FlagsStep, FieldsStep

(***************************************************************************)
(* The invariant, effect by effect.                                        *)
(***************************************************************************)
\* inc explains a final status s.
Explains(inc, s) ==
  /\ s \notin {"ok", "500"} => inc # {}
  /\ s = "ok" => /\ inc \subseteq Retried \cup {"client_aborted"}
                 /\ "id_rewrite" \in inc => "ttft_timeout" \in inc

\* The first update of a capture is its only one.
LEMMA FirstUpdate ==
  ASSUME updates = <<>>, NEW s \in Final
  PROVE  Append(updates, s) = <<s>> /\ Len(<<s>>) = 1 /\ <<s>>[1] = s /\ <<s>> # <<>>
  OBVIOUS

\* ctx.releasePermit() leaves no timer, counts once, and keeps what is released.
LEMMA ReleaseOnce ==
  ASSUME ProxyTypeOK, ReleasedOnce, ReleasePermit
  PROVE  /\ watchdog' = FALSE /\ ReleasedOnce'
         /\ permit' = IF permit = "none" THEN "none" ELSE "released"
<1>1. watchdog' = FALSE
  BY Zenon DEF ReleasePermit
<1>2. permit' = IF permit = "none" THEN "none" ELSE "released"
  BY Zenon DEF ReleasePermit, ProxyTypeOK
<1>3. ReleasedOnce'
  BY <1>2 DEF ReleasePermit, ReleasedOnce, ProxyTypeOK
<1> QED
  BY <1>1, <1>2, <1>3

\* Until it streams, the request has a row and nothing is settled.
Unsettled ==
  /\ row /\ updates = <<>> /\ incidents \subseteq Retried
  /\ stream = "none" /\ ~flushed /\ verdicts = 0
  /\ overrun => permit = "released"

\* ... which holds from the vision handoff to the end of the retry loop.
LEMMA UnsettledPlaces ==
  ASSUME Inv, pc \in {"vision", "acquire"} \cup Loop
  PROVE  Unsettled
  BY DEF Inv, RequestInv, EarlyInv, LoopInv, WatchdogInv, Unsettled, Before, Loop, Fetching

\* A request that is answered without a stream.
LEMMA FinishInv ==
  ASSUME Inv, pc \in {"vision", "acquire"} \cup Loop,
         NEW s \in Final, NEW types, Finish(s, types), overrun' = overrun,
         Explains(incidents \cup types, s)
  PROVE  RequestInv'
<1>1. Unsettled
  BY UnsettledPlaces
<1>2. /\ pc' = "over" /\ updates' = Append(updates, s)
      /\ incidents' = incidents \cup types /\ row' = row /\ ReleasePermit
  BY Zenon DEF Finish
<1>3. updates' = <<s>> /\ Len(updates') = 1 /\ updates'[1] = s
  BY <1>1, <1>2, FirstUpdate DEF Unsettled
<1>4. /\ watchdog' = FALSE /\ ReleasedOnce'
      /\ permit' = IF permit = "none" THEN "none" ELSE "released"
  BY <1>2, ReleaseOnce DEF Inv, RequestInv
<1>5. WatchdogInv'
  BY <1>1, <1>4 DEF WatchdogInv, Unsettled
<1>6. Attributed'
  BY <1>2, <1>3 DEF Attributed, Explains, Retried
<1>7. OverInv'
  BY <1>1, <1>2, <1>3, <1>4, <1>6 DEF OverInv, Unsettled
<1>8. EarlyInv' /\ LoopInv' /\ StreamInv' /\ RewriteInv' /\ PendingInv'
  BY <1>2 DEF EarlyInv, LoopInv, StreamInv, RewriteInv, PendingInv, Before, Loop, Fetching
<1> QED
  BY <1>4, <1>5, <1>7, <1>8 DEF RequestInv

\* The incidents that a response r is forwarded with.
Carried(r, types) ==
  /\ types \subseteq {"id_rewrite"}
  /\ "id_rewrite" \in incidents \cup types =>
       "ttft_timeout" \in incidents \/ r.status # "ok"

\* A stream that is set up, flushed at once if the request has been aborted.
LEMMA RespondInv ==
  ASSUME Inv, pc \in Loop, NEW r \in [status: Statuses, shape: Shapes, buffered: BOOLEAN],
         NEW c, NEW types, Carried(r, types), Respond(r, c, types),
         response' = r, overrun' = overrun
  PROVE  RequestInv'
<1>1. Unsettled /\ row /\ permit # "none"
  BY UnsettledPlaces DEF Inv, RequestInv, LoopInv
<1>2. r.status \in Statuses /\ r.status \in Final
  BY DEF Final
<1>3. Statuses \cap {"500"} = {}
  BY DEF Statuses
<1>4. CASE r.shape = "empty"
  <2>1. Finish(r.status, types \cup UpstreamIncident(r.status))
    BY <1>4, Zenon DEF Respond
  <2>2. Explains(incidents \cup (types \cup UpstreamIncident(r.status)), r.status)
    BY <1>1 DEF Explains, Carried, Unsettled, UpstreamIncident, Retried
  <2> QED
    BY <1>2, <2>1, <2>2, FinishInv
<1>5. CASE r.shape # "empty"
  <2>1. pc' = "stream" /\ stream' = "open"
    BY <1>5, Zenon DEF Respond
  <2>2. EarlyInv' /\ LoopInv' /\ OverInv' /\ PendingInv'
    BY <2>1 DEF EarlyInv, LoopInv, OverInv, PendingInv, Before, Loop, Fetching
  <2>3. ASSUME \/ Flush(r.status, types) /\ ReleasePermit
               \/ Flush(r.status, {}) /\ ReleasePermit
        PROVE  RequestInv'
    <3>1. PICK t \in {types, {}} : Flush(r.status, t) /\ ReleasePermit
      BY <2>3
    <3>2. /\ flushed' = TRUE /\ row' = row /\ updates' = <<r.status>>
          /\ incidents' = incidents \cup t \cup UpstreamIncident(r.status)
      BY <1>1, <1>2, <3>1, FirstUpdate DEF Flush, AlreadyFlushed, Unsettled
    <3>3. watchdog' = FALSE /\ ReleasedOnce' /\ permit' = "released"
      BY <1>1, <3>1, ReleaseOnce DEF Inv, RequestInv
    <3>4. WatchdogInv'
      BY <3>3 DEF WatchdogInv
    <3>5. RewriteInv'
      BY <1>1, <2>1, <3>1, <3>2 DEF RewriteInv, Carried, UpstreamIncident, Unsettled
    <3>6. StreamInv'
      <4>1. /\ response'.status # "ok" => "upstream_error" \in incidents'
            /\ response'.status = "ok" => incidents' \subseteq Retried \cup {"client_aborted"}
        BY <1>1, <3>1, <3>2 DEF Carried, UpstreamIncident, Unsettled, Retried
      <4> QED
        BY <1>1, <2>1, <3>2, <3>3, <4>1 DEF StreamInv
    <3> QED
      BY <2>2, <3>3, <3>4, <3>5, <3>6 DEF RequestInv
  <2>4. ASSUME UNCHANGED <<row, updates, permit, releases, watchdog, flushed>>,
               incidents' \in {incidents, incidents \cup types},
               c = "none" \/ permit = "released"
        PROVE  RequestInv'
    <3>1. WatchdogInv' /\ ReleasedOnce'
      BY <2>4 DEF Inv, RequestInv, WatchdogInv, ReleasedOnce
    <3>2. RewriteInv'
      BY <1>1, <2>1, <2>4 DEF RewriteInv, Carried, Unsettled
    <3>3. StreamInv'
      BY <1>1, <2>1, <2>4 DEF StreamInv, Unsettled, Inv, RequestInv, LoopInv, Carried, Retried
    <3> QED
      BY <2>2, <3>1, <3>2, <3>3 DEF RequestInv
  <2>5. CASE aborted
    <3>1. Flush(r.status, types) /\ ReleasePermit
      BY <1>5, <2>5, Zenon DEF Respond
    <3> QED
      BY <2>3, <3>1
  <2>6. CASE ~aborted /\ c # "none"
    <3>1. OnAbort(r.status, FALSE)
      BY <1>5, <2>6, Zenon DEF Respond
    <3>2. CASE permit = "released"
      BY <2>4, <3>1, <3>2 DEF OnAbort, captureVars, permitVars
    <3>3. CASE permit # "released"
      BY <2>3, <3>1, <3>3 DEF OnAbort
    <3> QED
      BY <3>2, <3>3
  <2>7. CASE ~aborted /\ c = "none"
    <3>1. incidents' = incidents \cup types /\ UNCHANGED <<row, updates, permitVars, flushed>>
      BY <1>5, <2>7, Zenon DEF Respond
    <3> QED
      BY <2>4, <2>7, <3>1 DEF permitVars
  <2> QED
    BY <2>5, <2>6, <2>7, Zenon
<1> QED
  BY <1>4, <1>5

\* A response is settled, or waits for its first chunk.
LEMMA ProceedInv ==
  ASSUME Inv, pc \in Loop, NEW r \in [status: Statuses, shape: Shapes, buffered: BOOLEAN],
         NEW v, NEW c, NEW types, Carried(r, types), Proceed(r, v, c, types),
         r.buffered => v = "none", overrun' = overrun
  PROVE  RequestInv'
<1>1. response' = r /\ pending' = v
  BY Zenon DEF Proceed
<1>2. CASE cfg.ttft /\ r.shape = "sse"
  <2>1. /\ pc' = "firstchunk" /\ incidents' = incidents \cup types
        /\ UNCHANGED <<row, updates, permitVars, verdicts, streamVars>>
    BY <1>2, Zenon DEF Proceed
  <2>2. Unsettled /\ permit # "none" /\ (permit = "released" => overrun)
    BY UnsettledPlaces DEF Inv, RequestInv, LoopInv
  <2>3. EarlyInv' /\ StreamInv' /\ OverInv'
    BY <2>1 DEF EarlyInv, StreamInv, OverInv, Before
  <2>4. LoopInv'
    BY <2>1, <2>2 DEF LoopInv, Unsettled, Carried, Retried, permitVars, streamVars
  <2>5. WatchdogInv' /\ ReleasedOnce'
    BY <2>1 DEF Inv, RequestInv, WatchdogInv, ReleasedOnce, permitVars
  <2>6. RewriteInv' /\ PendingInv'
    BY <1>1, <2>1 DEF RewriteInv, PendingInv, Carried
  <2> QED
    BY <2>3, <2>4, <2>5, <2>6 DEF RequestInv
<1>3. CASE ~(cfg.ttft /\ r.shape = "sse")
  <2>1. Respond(r, c, types)
    BY <1>3, Zenon DEF Proceed, Settle
  <2> QED
    BY <1>1, <2>1, RespondInv
<1> QED
  BY <1>2, <1>3, Zenon

\* The top of the retry loop.
LEMMA StartAttemptInv ==
  ASSUME Inv, pc \in {"acquire", "cooldown"}, StartAttempt, permit' # "none",
         permit' = "released" => overrun,
         watchdog' => permit' = "held", overrun => permit' = "released",
         ReleasedOnce', UNCHANGED <<row, updates, incidents, streamVars, overrun>>
  PROVE  RequestInv'
<1>1. Unsettled
  BY UnsettledPlaces DEF Loop
<1>2. pc' \in {"fetch", "escalate"} /\ verdicts' = verdicts
  BY Zenon DEF StartAttempt
<1>3. EarlyInv' /\ StreamInv' /\ OverInv' /\ PendingInv'
  BY <1>2 DEF EarlyInv, StreamInv, OverInv, PendingInv, Before
<1>4. LoopInv'
  BY <1>1, <1>2 DEF LoopInv, Unsettled, streamVars
<1>5. WatchdogInv'
  BY DEF WatchdogInv
<1>6. RewriteInv'
  BY <1>1, <1>2 DEF RewriteInv, Inv, RequestInv, EarlyInv, Before, Loop
<1> QED
  BY <1>3, <1>4, <1>5, <1>6 DEF RequestInv

\* What stays when only signals and timers move.
LEMMA SignalInv ==
  ASSUME Inv, UNCHANGED <<pc, row, updates, incidents, permit, releases, watchdog, overrun,
                          response, pending, verdicts, stream, flushed>>
  PROVE  RequestInv'
<1>1. EarlyInv' /\ LoopInv' /\ WatchdogInv' /\ RewriteInv' /\ PendingInv' /\ ReleasedOnce'
  BY Zenon DEF Inv, RequestInv, EarlyInv, LoopInv, WatchdogInv, RewriteInv, PendingInv, ReleasedOnce
<1>2. StreamInv' /\ OverInv'
  BY Zenon DEF Inv, RequestInv, StreamInv, OverInv, Attributed
<1> QED
  BY <1>1, <1>2 DEF RequestInv

\* A stream that has not been flushed is flushed and its permit released, by the
\* end of the stream, an abort, the deadline or the watchdog.
LEMMA FlushInv ==
  ASSUME Inv, pc = "stream", pc' \in {"stream", "over"}, NEW types,
         types \subseteq {"client_aborted"}, Flush(response.status, types), ReleasePermit,
         overrun => overrun', overrun' => overrun,
         stream' # "none", UNCHANGED <<response, pending, verdicts>>
  PROVE  RequestInv'
<1>1. /\ row /\ permit # "none"
      /\ flushed => permit = "released"
      /\ ~flushed => updates = <<>> /\ incidents \subseteq Retried
      /\ flushed => /\ updates = <<response.status>>
                    /\ response.status # "ok" => "upstream_error" \in incidents
                    /\ response.status = "ok" => incidents \subseteq Retried \cup {"client_aborted"}
  BY DEF Inv, RequestInv, StreamInv
<1>2. response.status \in Statuses /\ response.status \in Final
  BY DEF Inv, ProxyTypeOK, Final
<1>3. flushed' = TRUE /\ row' = row /\ updates' = <<response.status>>
  BY <1>1, <1>2, FirstUpdate DEF Flush, AlreadyFlushed
<1>4. /\ response.status # "ok" => "upstream_error" \in incidents'
      /\ response.status = "ok" => incidents' \subseteq Retried \cup {"client_aborted"}
  BY <1>1 DEF Flush, AlreadyFlushed, UpstreamIncident
<1>5. "id_rewrite" \in incidents' => "ttft_timeout" \in incidents' \/ response.status # "ok"
  BY DEF Flush, AlreadyFlushed, UpstreamIncident, Inv, RequestInv, RewriteInv
<1>6. watchdog' = FALSE /\ ReleasedOnce' /\ permit' = "released"
  BY <1>1, ReleaseOnce DEF Inv, RequestInv
<1>7. WatchdogInv'
  BY <1>6 DEF WatchdogInv
<1>8. EarlyInv' /\ LoopInv' /\ PendingInv'
  BY DEF EarlyInv, LoopInv, PendingInv, Before, Loop, Fetching
<1>9. StreamInv' /\ RewriteInv'
  BY <1>1, <1>3, <1>4, <1>5, <1>6 DEF StreamInv, RewriteInv, Loop, Fetching
<1>10. OverInv'
  <2>1. Len(updates') = 1 /\ updates'[1] = response.status
    BY <1>3
  <2>2. Attributed'
    BY <1>4, <1>5, <2>1, <1>2 DEF Attributed, Retried, Statuses
  <2> QED
    BY <1>1, <1>3, <1>6, <2>1, <2>2 DEF OverInv
<1> QED
  BY <1>6, <1>7, <1>8, <1>9, <1>10 DEF RequestInv

\* onAbort() of a stream.
LEMMA OnAbortInv ==
  ASSUME Inv, pc = "stream", NEW b, OnAbort(response.status, b),
         UNCHANGED <<pc, overrun, response, pending, verdicts, stream>>
  PROVE  RequestInv'
<1>1. CASE permit = "released"
  BY <1>1, SignalInv DEF OnAbort, captureVars, permitVars
<1>2. CASE permit # "released"
  <2> DEFINE types == IF b THEN {"client_aborted"} ELSE {}
  <2>1. Flush(response.status, types) /\ ReleasePermit
    BY <1>2, Zenon DEF OnAbort
  <2>2. types \subseteq {"client_aborted"}
    OBVIOUS
  <2>3. stream' # "none"
    BY DEF Inv, RequestInv, StreamInv
  <2> HIDE DEF types
  <2> QED
    BY <2>1, <2>2, <2>3, FlushInv
<1> QED
  BY <1>1, <1>2

(***************************************************************************)
(* The invariant, action by action.                                        *)
(***************************************************************************)
\* Everything up to the grant of the permit.
LEMMA EarlyStep == Inv /\ Early => RequestInv'
<1> SUFFICES ASSUME Inv, Early PROVE RequestInv'
  OBVIOUS
<1> USE DEF otherVars, captureVars, permitVars, signalVars, retryVars, responseVars, streamVars
<1>1. CASE ParseInbound
  <2>1. /\ pc = "parse" /\ pc' \in {"vision", "over"}
        /\ pc' = "vision" => row' /\ row' = TRUE
        /\ pc' = "over" => row' = row
        /\ UNCHANGED <<overrun, updates, incidents, permit, releases, watchdog, verdicts,
                       stream, flushed>>
    BY <1>1, Zenon DEF ParseInbound
  <2>2. /\ ~row /\ permit = "none" /\ updates = <<>> /\ incidents = {}
        /\ stream = "none" /\ ~flushed /\ verdicts = 0
    BY <2>1 DEF Inv, RequestInv, EarlyInv, Before
  <2>3. EarlyInv'
    BY <2>1, <2>2 DEF EarlyInv, Before
  <2>4. OverInv'
    BY <2>1, <2>2 DEF OverInv, Attributed
  <2>5. LoopInv' /\ StreamInv' /\ RewriteInv' /\ PendingInv'
    BY <2>1 DEF LoopInv, StreamInv, RewriteInv, PendingInv, Loop, Fetching
  <2>6. WatchdogInv' /\ ReleasedOnce'
    BY <2>1 DEF Inv, RequestInv, WatchdogInv, ReleasedOnce
  <2> QED
    BY <2>3, <2>4, <2>5, <2>6 DEF RequestInv
<1>2. CASE RateLimited
  <2>1. Finish("503", {"rate_limited"}) /\ overrun' = overrun /\ pc = "vision"
    BY <1>2, Zenon DEF RateLimited
  <2>2. Explains(incidents \cup {"rate_limited"}, "503") /\ "503" \in Final
    BY DEF Explains, Final
  <2> QED
    BY <2>1, <2>2, FinishInv
<1>3. CASE RateAllowed
  <2>1. /\ pc = "vision" /\ pc' = "acquire"
        /\ UNCHANGED <<overrun, row, updates, incidents, permit, releases, watchdog, verdicts,
                       stream, flushed>>
    BY <1>3, Zenon DEF RateAllowed
  <2>2. EarlyInv'
    BY <2>1 DEF Inv, RequestInv, EarlyInv, Before
  <2>3. LoopInv' /\ StreamInv' /\ OverInv' /\ RewriteInv' /\ PendingInv'
    BY <2>1 DEF LoopInv, StreamInv, OverInv, RewriteInv, PendingInv, Loop, Fetching
  <2>4. WatchdogInv' /\ ReleasedOnce'
    BY <2>1 DEF Inv, RequestInv, WatchdogInv, ReleasedOnce
  <2> QED
    BY <2>2, <2>3, <2>4 DEF RequestInv
<1>4. CASE GateRejects
  <2>1. PICK s \in {"499", "503", "502"}, types \in {{"client_aborted"}, {"gate_rejected"}} :
          Finish(s, types)
    BY <1>4, Zenon DEF GateRejects
  <2>2. overrun' = overrun /\ pc = "acquire"
    BY <1>4, Zenon DEF GateRejects
  <2>3. Explains(incidents \cup types, s) /\ s \in Final
    BY DEF Explains, Final, Statuses
  <2> QED
    BY <2>1, <2>2, <2>3, FinishInv
<1>5. CASE GateGrants
  <2>1. /\ pc = "acquire" /\ permit' = "held" /\ StartAttempt
        /\ UNCHANGED <<overrun, row, updates, incidents, releases, stream, flushed>>
    BY <1>5, Zenon DEF GateGrants
  <2>2. permit = "none" /\ ~overrun
    BY <2>1 DEF Inv, RequestInv, EarlyInv, Before, WatchdogInv
  <2>3. ReleasedOnce'
    BY <2>1, <2>2 DEF Inv, RequestInv, ReleasedOnce
  <2> QED
    BY <2>1, <2>2, <2>3, StartAttemptInv
<1> QED
  BY <1>1, <1>2, <1>3, <1>4, <1>5, Zenon DEF Early

\* In the loop no incident speaks of rewritten ids that was not followed by a
\* timeout, but while their answer is being waited for.
LEMMA CarriedHere ==
  ASSUME Inv, pc \in Loop, NEW r,
         pc # "firstchunk" \/ r.status = response.status
  PROVE  Carried(r, {})
  BY DEF Inv, RequestInv, RewriteInv, Carried, Loop, Fetching

\* What upstream answers.
LEMMA UpstreamStep == Inv /\ Upstream => RequestInv'
<1> SUFFICES ASSUME Inv, Upstream PROVE RequestInv'
  OBVIOUS
<1> USE DEF otherVars, captureVars, permitVars, signalVars, retryVars, responseVars, streamVars
<1>a. response \in [status: Statuses, shape: Shapes, buffered: BOOLEAN]
  BY DEF Inv, ProxyTypeOK
<1>b. /\ Buffered \in [status: Statuses, shape: Shapes, buffered: BOOLEAN]
      /\ Buffered.status = response.status
  BY <1>a DEF Buffered, Shapes
<1>1. ASSUME NEW r \in Responses, FetchResolves(r) PROVE RequestInv'
  <2> DEFINE v == CASE r.status = "429" -> "429" [] r.status = "ok" -> "success"
                    [] OTHER -> "none"
  <2>1. pc = "fetch" /\ pc \in Loop /\ overrun' = overrun
    BY <1>1, Zenon DEF FetchResolves, Loop, Fetching
  <2>2. CASE cfg.rewrite /\ r.status = "502"
    <3>1. /\ pc' = "errbody" /\ response' = r /\ pending' = v
          /\ UNCHANGED <<row, updates, incidents, permit, releases, watchdog, verdicts,
                         stream, flushed>>
      BY <1>1, <2>2, Zenon DEF FetchResolves
    <3>2. v = "none"
      BY <2>2
    <3>3. EarlyInv' /\ StreamInv' /\ OverInv'
      BY <3>1 DEF EarlyInv, StreamInv, OverInv, Before
    <3>4. LoopInv' /\ PendingInv' /\ RewriteInv'
      BY <2>1, <2>2, <3>1, <3>2 DEF Inv, RequestInv, LoopInv, PendingInv, RewriteInv
    <3>5. WatchdogInv' /\ ReleasedOnce'
      BY <2>1, <3>1 DEF Inv, RequestInv, WatchdogInv, ReleasedOnce
    <3> QED
      BY <3>3, <3>4, <3>5 DEF RequestInv
  <2>3. CASE ~(cfg.rewrite /\ r.status = "502")
    <3>1. Proceed(r, v, "none", {})
      BY <1>1, <2>3, Zenon DEF FetchResolves
    <3>2. r \in [status: Statuses, shape: Shapes, buffered: BOOLEAN] /\ ~r.buffered
      BY DEF Responses
    <3>3. Carried(r, {})
      BY <2>1, CarriedHere
    <3> HIDE DEF v
    <3> QED
      BY <2>1, <3>1, <3>2, <3>3, ProceedInv
  <2> QED
    BY <2>2, <2>3, Zenon
<1>2. ASSUME NEW r \in Responses, RewriteReturns(r) PROVE RequestInv'
  <2>1. /\ pc \in {"rewrite", "escalate"} /\ pc \in Loop /\ overrun' = overrun
        /\ Proceed(r, pending, "none", RewriteIncident(r.status))
    BY <1>2, Zenon DEF RewriteReturns, Loop, Fetching
  <2>2. r \in [status: Statuses, shape: Shapes, buffered: BOOLEAN] /\ ~r.buffered
    BY DEF Responses
  <2>3. Carried(r, RewriteIncident(r.status))
    BY <2>1 DEF Inv, RequestInv, RewriteInv, Carried, RewriteIncident
  <2> QED
    BY <2>1, <2>2, <2>3, ProceedInv
<1>3. CASE ErrorPassedOn
  <2>1. /\ pc = "errbody" /\ pc \in Loop /\ overrun' = overrun
        /\ Proceed(Buffered, pending, cause, {})
    BY <1>3, Zenon DEF ErrorPassedOn, Loop, Fetching
  <2>2. Carried(Buffered, {})
    BY <2>1, CarriedHere
  <2>3. pending = "none"
    BY <2>1 DEF Inv, RequestInv, PendingInv
  <2> QED
    BY <1>b, <2>1, <2>2, <2>3, ProceedInv
<1>4. CASE RewriteRetry
  <2>1. /\ pc = "errbody" /\ pc' = "rewrite"
        /\ UNCHANGED <<overrun, row, updates, incidents, permit, releases, watchdog, response,
                       pending, verdicts, stream, flushed>>
    BY <1>4, Zenon DEF RewriteRetry
  <2>2. EarlyInv' /\ StreamInv' /\ OverInv'
    BY <2>1 DEF EarlyInv, StreamInv, OverInv, Before
  <2>3. LoopInv' /\ PendingInv' /\ RewriteInv'
    BY <2>1 DEF Inv, RequestInv, LoopInv, PendingInv, RewriteInv, Loop, Fetching
  <2>4. WatchdogInv' /\ ReleasedOnce'
    BY <2>1 DEF Inv, RequestInv, WatchdogInv, ReleasedOnce
  <2> QED
    BY <2>2, <2>3, <2>4 DEF RequestInv
<1>5. CASE FirstChunk
  <2>1. /\ pc = "firstchunk" /\ pc \in Loop /\ overrun' = overrun /\ response' = response
        /\ Respond(response, cause, {})
    BY <1>5, Zenon DEF FirstChunk, Settle, Loop, Fetching
  <2>2. Carried(response, {})
    BY <2>1, CarriedHere
  <2> QED
    BY <1>a, <2>1, <2>2, RespondInv
<1>6. CASE StreamEnds
  <2>1. /\ pc = "stream" /\ pc' = "over" /\ stream' = "ended"
        /\ Flush(response.status, {}) /\ ReleasePermit
        /\ UNCHANGED <<overrun, response, pending, verdicts>>
    BY <1>6, Zenon DEF StreamEnds
  <2> QED
    BY <2>1, FlushInv
<1>7. CASE StreamBreaks
  <2>1. /\ pc = "stream" /\ pc' = pc /\ stream' = "broken"
        /\ UNCHANGED <<overrun, row, updates, incidents, permit, releases, watchdog, response,
                       pending, verdicts, flushed>>
    BY <1>7, Zenon DEF StreamBreaks
  <2>2. EarlyInv' /\ LoopInv' /\ OverInv' /\ PendingInv'
    BY <2>1 DEF EarlyInv, LoopInv, OverInv, PendingInv, Before, Loop, Fetching
  <2>3. StreamInv' /\ RewriteInv'
    BY <2>1 DEF Inv, RequestInv, StreamInv, RewriteInv
  <2>4. WatchdogInv' /\ ReleasedOnce'
    BY <2>1 DEF Inv, RequestInv, WatchdogInv, ReleasedOnce
  <2> QED
    BY <2>2, <2>3, <2>4 DEF RequestInv
<1> QED
  BY <1>1, <1>2, <1>3, <1>4, <1>5, <1>6, <1>7, Zenon DEF Upstream

\* What fails.
LEMMA FailsStep == Inv /\ Fails => RequestInv'
<1> SUFFICES ASSUME Inv, Fails PROVE RequestInv'
  OBVIOUS
<1> USE DEF otherVars, captureVars, permitVars, signalVars, retryVars, responseVars, streamVars
<1>a. \A s \in {"499", "502", "504"} : \A t : Explains(incidents \cup {t}, s)
  BY DEF Explains
<1>b. {"499", "500", "502", "504"} \subseteq Final
  BY DEF Final, Statuses
<1>1. CASE ErrorBodyFails
  <2>1. Finish("500", {}) /\ overrun' = overrun /\ pc = "errbody" /\ pc \in Loop
    BY <1>1, Zenon DEF ErrorBodyFails, Loop, Fetching
  <2>2. Explains(incidents \cup {}, "500")
    BY DEF Explains
  <2> QED
    BY <1>b, <2>1, <2>2, FinishInv
<1>2. CASE RewriteFails
  <2>1. pc = "rewrite" /\ pc \in Loop /\ overrun' = overrun
    BY <1>2, Zenon DEF RewriteFails, Loop, Fetching
  <2>2. PICK c : Proceed(Buffered, pending, c, {})
    BY <1>2, Zenon DEF RewriteFails
  <2>3. Carried(Buffered, {})
    BY <2>1, CarriedHere
  <2>4. pending = "none"
    BY <2>1 DEF Inv, RequestInv, PendingInv
  <2>5. Buffered \in [status: Statuses, shape: Shapes, buffered: BOOLEAN]
    BY DEF Buffered, Shapes, Inv, ProxyTypeOK
  <2> QED
    BY <2>1, <2>2, <2>3, <2>4, <2>5, ProceedInv
<1>3. CASE EscalationFails
  <2>1. PICK s \in {"499", "504"} : \E t : Finish(s, {t})
    BY <1>3, Zenon DEF EscalationFails
  <2>2. pc = "escalate" /\ pc \in Loop /\ overrun' = overrun
    BY <1>3, Zenon DEF EscalationFails, Loop, Fetching
  <2> QED
    BY <1>a, <1>b, <2>1, <2>2, FinishInv
<1>4. CASE AttemptFails
  <2>1. /\ pc \in {"fetch", "firstchunk"} /\ pc \in Loop
        /\ UNCHANGED <<overrun, response, pending, verdicts, stream, flushed>>
    BY <1>4, Zenon DEF AttemptFails, AfterFailure, Loop, Fetching
  <2>2. TtftRetry \/ \E s \in {"499", "502", "504"} : \E t : Finish(s, {t})
    BY <1>4, Zenon DEF AttemptFails, Failed
  <2>3. CASE TtftRetry
    <3>1. /\ pc' = "cooldown" /\ incidents' = incidents \cup {"ttft_timeout"}
          /\ UNCHANGED <<row, updates, permit, releases, watchdog>>
      BY <2>3, Zenon DEF TtftRetry, KeepPermit
    <3>2. EarlyInv' /\ StreamInv' /\ OverInv' /\ PendingInv' /\ RewriteInv'
      BY <3>1 DEF EarlyInv, StreamInv, OverInv, PendingInv, RewriteInv, Before
    <3>3. LoopInv'
      BY <2>1, <3>1 DEF Inv, RequestInv, LoopInv, Retried
    <3>4. WatchdogInv' /\ ReleasedOnce'
      BY <2>1, <3>1 DEF Inv, RequestInv, WatchdogInv, ReleasedOnce
    <3> QED
      BY <3>2, <3>3, <3>4 DEF RequestInv
  <2>4. ASSUME NEW s \in {"499", "502", "504"}, NEW t, Finish(s, {t}) PROVE RequestInv'
    BY <1>a, <1>b, <2>1, <2>4, FinishInv
  <2> QED
    BY <2>2, <2>3, <2>4
<1> QED
  BY <1>1, <1>2, <1>3, <1>4, Zenon DEF Fails

\* Timers, the client and the configuration.
LEMMA TimersStep == Inv /\ Timers => RequestInv'
<1> SUFFICES ASSUME Inv, Timers PROVE RequestInv'
  OBVIOUS
<1> USE DEF otherVars, captureVars, permitVars, signalVars, retryVars, responseVars, streamVars
<1>1. CASE TtftFires
  BY <1>1, SignalInv DEF TtftFires
<1>2. CASE DeadlineFires
  <2>1. CASE pc = "stream"
    BY <1>2, <2>1, OnAbortInv DEF DeadlineFires
  <2>2. CASE pc # "stream"
    BY <1>2, <2>2, SignalInv DEF DeadlineFires
  <2> QED
    BY <2>1, <2>2
<1>3. CASE WatchdogFires
  <2>1. /\ watchdog /\ ReleasePermit /\ overrun' = (stream = "none")
        /\ UNCHANGED <<pc, response, pending, verdicts, stream>>
    BY <1>3, Zenon DEF WatchdogFires
  <2>2. permit = "held" /\ ~overrun
    BY <2>1 DEF Inv, RequestInv, WatchdogInv
  <2>3. pc \in Loop \cup {"stream"}
    BY <2>2 DEF Inv, ProxyTypeOK, RequestInv, EarlyInv, OverInv, Before, Loop, Places
  <2>4. CASE stream = "none"
    <3>1. pc \in Loop
      BY <2>3, <2>4 DEF Inv, RequestInv, StreamInv
    <3>2. UNCHANGED <<row, updates, incidents, flushed>> /\ overrun'
      BY <1>3, <2>1, <2>4 DEF WatchdogFires, WatchdogFlush
    <3>3. watchdog' = FALSE /\ ReleasedOnce' /\ permit' = "released"
      BY <2>1, <2>2, ReleaseOnce DEF Inv, RequestInv
    <3>4. LoopInv' /\ WatchdogInv'
      BY <2>1, <3>1, <3>2, <3>3 DEF Inv, RequestInv, LoopInv, WatchdogInv
    <3>5. RewriteInv' /\ PendingInv'
      BY <2>1, <3>2, Zenon DEF Inv, RequestInv, RewriteInv, PendingInv
    <3>6. EarlyInv' /\ StreamInv' /\ OverInv'
      BY <2>1, <3>1 DEF EarlyInv, StreamInv, OverInv, Before, Loop, Fetching
    <3> QED
      BY <3>3, <3>4, <3>5, <3>6 DEF RequestInv
  <2>5. CASE stream # "none"
    <3>1. pc = "stream"
      BY <2>3, <2>5 DEF Inv, RequestInv, LoopInv
    <3>2. Flush(response.status, {}) /\ ~overrun'
      BY <1>3, <2>1, <2>5 DEF WatchdogFires, WatchdogFlush
    <3> QED
      BY <2>1, <2>2, <2>5, <3>1, <3>2, FlushInv
  <2> QED
    BY <2>4, <2>5
<1>4. CASE CooldownEnds
  <2>1. /\ pc = "cooldown" /\ StartAttempt
        /\ UNCHANGED <<overrun, row, updates, incidents, permit, releases, watchdog, stream,
                       flushed>>
    BY <1>4, Zenon DEF CooldownEnds
  <2>2. permit # "none" /\ (permit = "released" => overrun) /\ (watchdog => permit = "held")
        /\ (overrun => permit = "released") /\ ReleasedOnce'
    BY <2>1 DEF Inv, RequestInv, LoopInv, WatchdogInv, ReleasedOnce, Loop
  <2> QED
    BY <2>1, <2>2, StartAttemptInv
<1> QED
  BY <1>1, <1>2, <1>3, <1>4, Zenon DEF Timers

\* The client leaves, the configuration is reloaded, or nothing happens.
LEMMA OthersStep ==
  Inv /\ (ClientAborts \/ (\E c \in Configs : Reload(c)) \/ UNCHANGED vars) => RequestInv'
<1> USE DEF otherVars, captureVars, permitVars, signalVars, retryVars, responseVars, streamVars
<1>1. ASSUME Inv, ClientAborts PROVE RequestInv'
  <2>1. CASE pc = "stream"
    BY <1>1, <2>1, OnAbortInv DEF ClientAborts
  <2>2. CASE pc # "stream"
    BY <1>1, <2>2, SignalInv DEF ClientAborts
  <2> QED
    BY <2>1, <2>2
<1>2. ASSUME Inv, NEW c \in Configs, Reload(c) PROVE RequestInv'
  BY <1>2, SignalInv DEF Reload
<1>3. ASSUME Inv, UNCHANGED vars PROVE RequestInv'
  BY <1>3, SignalInv DEF vars
<1> QED
  BY <1>1, <1>2, <1>3

\* The invariant is inductive.
LEMMA InvStep == Inv /\ [Next]_vars => Inv'
<1> SUFFICES ASSUME Inv, [Next]_vars PROVE Inv'
  OBVIOUS
<1>1. ProxyTypeOK'
  BY TypeStep DEF Inv
<1>2. RequestInv'
  BY EarlyStep, UpstreamStep, FailsStep, TimersStep, OthersStep, Zenon DEF Next
<1> QED
  BY <1>1, <1>2 DEF Inv

\* The invariant holds when the handler is entered.
LEMMA InitInv == Init => Inv
<1> SUFFICES ASSUME Init PROVE RequestInv
  BY InitType DEF Inv
<1>1. EarlyInv /\ WatchdogInv /\ ReleasedOnce
  BY DEF Init, EarlyInv, WatchdogInv, ReleasedOnce, Before
<1>2. LoopInv /\ StreamInv /\ OverInv /\ RewriteInv /\ PendingInv
  BY DEF Init, LoopInv, StreamInv, OverInv, RewriteInv, PendingInv, Loop, Fetching
<1> QED
  BY <1>1, <1>2 DEF RequestInv

(***************************************************************************)
(* The theorems.                                                           *)
(***************************************************************************)
\* The inductive invariant holds in every reachable state.
LEMMA Invariance == Spec => []Inv
  BY InitInv, InvStep, PTL DEF Spec

\* The invariant implies the permit discipline.
LEMMA InvGivesDiscipline == Inv => PermitDiscipline
<1> SUFFICES ASSUME Inv, Forwarding PROVE permit = "held" \/ overrun \/ flushed
  BY DEF PermitDiscipline, ForwardedWithPermit, Inv, RequestInv
<1>1. CASE pc \in Loop
  BY <1>1 DEF Inv, ProxyTypeOK, RequestInv, LoopInv
<1>2. CASE pc = "stream"
  BY <1>2 DEF Inv, ProxyTypeOK, RequestInv, StreamInv
<1> QED
  BY <1>1, <1>2 DEF Forwarding, Loop

\* For every configuration and every order in which the end of the stream, an
\* abort, the deadline, the watchdog and the finally block of handleProxy() come,
\* the permit is released exactly once, and upstream is asked only while it is
\* held, unless the watchdog took it.
THEOREM PermitDisciplined == Spec => []PermitDiscipline
  BY Invariance, InvGivesDiscipline, PTL

\* It also implies that the capture is updated once and explained.
LEMMA InvGivesUpdates == Inv => UpdatedOnce /\ Attributed
<1> SUFFICES ASSUME Inv PROVE UpdatedOnce /\ Attributed
  OBVIOUS
<1>1. CASE pc \in Before \cup Loop
  <2>1. updates = <<>> /\ pc # "over"
    BY <1>1 DEF Inv, RequestInv, EarlyInv, LoopInv, Before, Loop, Fetching
  <2> QED
    BY <2>1 DEF UpdatedOnce, Attributed
<1>2. CASE pc = "stream"
  <2>1. CASE flushed
    <3>1. /\ updates = <<response.status>>
          /\ response.status # "ok" => "upstream_error" \in incidents
          /\ response.status = "ok" => incidents \subseteq Retried \cup {"client_aborted"}
          /\ "id_rewrite" \in incidents => "ttft_timeout" \in incidents \/ response.status # "ok"
      BY <1>2, <2>1 DEF Inv, RequestInv, StreamInv, RewriteInv
    <3>2. Len(updates) = 1 /\ updates[1] = response.status
      BY <3>1
    <3> QED
      BY <1>2, <3>1, <3>2 DEF UpdatedOnce, Attributed, Retried
  <2>2. CASE ~flushed
    <3>1. updates = <<>>
      BY <1>2, <2>2 DEF Inv, RequestInv, StreamInv
    <3> QED
      BY <1>2, <3>1 DEF UpdatedOnce, Attributed
  <2> QED
    BY <2>1, <2>2
<1>3. CASE pc = "over"
  <2>1. (row => Len(updates) = 1) /\ (~row => updates = <<>>) /\ Attributed
    BY <1>3, Zenon DEF Inv, RequestInv, OverInv
  <2>2. Len(updates) = 1 \/ updates = <<>>
    BY <2>1, Zenon
  <2>3. Len(<<>>) <= 1 /\ 1 <= 1
    OBVIOUS
  <2>4. Len(updates) <= 1
    BY <2>2, <2>3, Zenon
  <2> QED
    BY <2>1, <2>4, Zenon DEF UpdatedOnce
<1> QED
  BY <1>1, <1>2, <1>3 DEF Inv, ProxyTypeOK, Places, Before, Loop

\* However flushCapture(), onAbort() and the early answers of handleProxy() are
\* interleaved, a capture gets one final update.
THEOREM UpdatesOnce == Spec => []UpdatedOnce
  BY Invariance, InvGivesUpdates, PTL

\* The incidents that maybeRecordUpstreamIncident(), the TTFT ladder and the
\* rewriting of ids record explain that update (ADR-0021).
THEOREM AlwaysAttributed == Spec => []Attributed
  BY Invariance, InvGivesUpdates, PTL

\* In one step the breaker is told at most once, for the first time, and of an
\* attempt that nothing has aborted.
LEMMA TellStep ==
  ASSUME Inv, [Next]_vars, verdicts' # verdicts
  PROVE  verdicts' = 1 /\ cause = "none"
<1> USE DEF otherVars, captureVars, permitVars, signalVars, retryVars, responseVars, streamVars
<1>1. ASSUME NEW r, NEW v, NEW c, NEW types, Proceed(r, v, c, types)
      PROVE  v # "none" /\ verdicts' = verdicts + 1
  BY <1>1 DEF Proceed, Settle
<1>2. pc \in Loop => verdicts = 0
  BY DEF Inv, RequestInv, LoopInv
<1>3. CASE Upstream
  <2>1. CASE \E r \in Responses : FetchResolves(r) \/ RewriteReturns(r)
    <3>1. PICK r \in Responses : FetchResolves(r) \/ RewriteReturns(r)
      BY <2>1
    <3>2. cause = "none" /\ pc \in Loop
      BY <3>1, Zenon DEF FetchResolves, RewriteReturns, Loop, Fetching
    <3>3. \E v, types : Proceed(r, v, "none", types)
      BY <3>1, Zenon DEF FetchResolves, RewriteReturns
    <3> QED
      BY <1>1, <1>2, <3>2, <3>3
  <2>2. CASE ErrorPassedOn
    <3>1. cause = "none" /\ pc \in Loop /\ Proceed(Buffered, pending, cause, {})
      BY <2>2, Zenon DEF ErrorPassedOn, Loop, Fetching
    <3> QED
      BY <1>1, <1>2, <3>1
  <2>3. CASE FirstChunk
    <3>1. /\ pc = "firstchunk" /\ (cause = "none" \/ response.buffered)
          /\ verdicts' = IF pending = "none" THEN verdicts ELSE verdicts + 1
      BY <2>3, Zenon DEF FirstChunk, Settle
    <3>2. pending # "none" /\ verdicts' = verdicts + 1
      BY <3>1
    <3>3. cause = "none" /\ verdicts = 0
      BY <1>2, <3>1, <3>2 DEF Inv, RequestInv, PendingInv, Loop, Fetching
    <3> QED
      BY <3>2, <3>3
  <2>4. CASE RewriteRetry \/ StreamEnds \/ StreamBreaks
    BY <2>4, Zenon DEF RewriteRetry, StreamEnds, StreamBreaks
  <2> QED
    BY <1>3, <2>1, <2>2, <2>3, <2>4, Zenon DEF Upstream
<1>4. CASE Fails
  <2>1. CASE RewriteFails
    <3>1. pc = "rewrite" /\ \E c : Proceed(Buffered, pending, c, {})
      BY <2>1, Zenon DEF RewriteFails
    <3>2. pending = "none"
      BY <3>1 DEF Inv, RequestInv, PendingInv
    <3> QED
      BY <1>1, <3>1, <3>2
  <2>2. CASE ErrorBodyFails \/ EscalationFails \/ AttemptFails
    BY <2>2, Zenon DEF ErrorBodyFails, EscalationFails, AttemptFails, AfterFailure
  <2> QED
    BY <1>4, <2>1, <2>2, Zenon DEF Fails
<1>5. CASE Early
  BY <1>5, Zenon DEF Early, ParseInbound, RateLimited, RateAllowed, GateRejects, GateGrants,
                     StartAttempt
<1>6. CASE Timers
  BY <1>6, Zenon DEF Timers, TtftFires, DeadlineFires, WatchdogFires, CooldownEnds, StartAttempt
<1>7. CASE ClientAborts \/ (\E c \in Configs : Reload(c)) \/ UNCHANGED vars
  BY <1>7, Zenon DEF ClientAborts, Reload, vars
<1> QED
  BY <1>3, <1>4, <1>5, <1>6, <1>7, Zenon DEF Next

\* recordSuccess() or record429() is called at most once for a request, and never
\* for an attempt that was aborted, on every path of the TTFT and rewrite ladders.
THEOREM BreakerHearsOnce == Spec => BreakerToldOnce
<1>1. Inv /\ [Next]_vars => [verdicts' # verdicts => verdicts' = 1 /\ cause = "none"]_vars
  BY TellStep
<1> QED
  BY <1>1, Invariance, PTL DEF Spec, BreakerToldOnce
=============================================================================
