---------------------------- MODULE ProxyRequest ----------------------------
(***************************************************************************)
(* The life of one proxied request: handleProxy() and forwardUpstream() of *)
(* src/src/proxy.ts, with the client, the upstream and the timers as the   *)
(* environment.                                                            *)
(*                                                                         *)
(* The handler is cut at its awaits; the code between two of them is one   *)
(* action.  A fetch and its body are tied to upstreamSignal, the first of  *)
(* several signals to fire: "cause" says which one it was.  The gate, the  *)
(* rate limiter and the queue behind it are Gate.tla and WriteBehind.tla;  *)
(* here they only answer.                                                  *)
(***************************************************************************)
EXTENDS Integers, Sequences

CONSTANT Configs  \* the configurations to consider, see Config

\* ttft: config.experimentTtftWatchdog, and once forwarding has begun the
\* handler's copy of it (ttftArmed); max: config.ttftRetryMaxAttempts;
\* rewrite: config.experimentRewriteIds and the request has a body; eligible:
\* the request belongs to a session whose ids can be rewritten.
Config == [ttft: BOOLEAN, max: 1 .. 3, rewrite: BOOLEAN, eligible: BOOLEAN]

ASSUME ProxyAssumption == Configs \subseteq Config

\* Status of a response: below 400, a 429 that classify429() calls concurrency,
\* 502 or 529, and the others.
Statuses == {"ok", "429", "502", "err"}
Shapes == {"empty", "plain", "sse"}
Final == Statuses \cup {"499", "500", "503", "504"}
IncidentTypes == {"upstream_error", "ttft_timeout", "id_rewrite",
                  "rate_limited", "gate_rejected", "client_aborted"}
Fetching == {"fetch", "errbody", "rewrite", "escalate", "firstchunk"}
Places ==
  {"parse", "vision", "acquire", "cooldown", "stream", "over"} \cup Fetching

VARIABLES
  pc,         \* the await the handler is at; "stream": it has returned one
  aborted,    \* req.signal.aborted
  row,        \* the capture's row is inserted
  updates,    \* the final updates queued for it
  incidents,  \* the types of its incidents
  permit,     \* "none", "held", "released"
  releases,   \* calls of permit.release()
  watchdog,   \* the permit's watchdog timer is set
  overrun,    \* ghost: it fired before there was a stream to flush
  attempt,    \* 1 .. 3
  late,       \* upstream was asked more than once
  ttft,       \* the attempt's TTFT controller: "off", "armed", "fired"
  deadline,   \* AbortSignal.timeout(upstreamTimeoutMs): the same
  raced,      \* ttft is part of upstreamSignal
  cause,      \* what fired upstreamSignal first
  response,   \* [status, shape, buffered] of the upstream response
  pending,    \* the breaker update that waits for the first chunk
  verdicts,   \* breaker updates made
  cooling,    \* the request is in inFlightCooldowns
  stream,     \* "none", "open", "broken", "ended"
  flushed,    \* flushCapture() has run
  cfg         \* the configuration, and whether the request is eligible

captureVars == <<row, updates, incidents>>
permitVars == <<permit, releases, watchdog>>
signalVars == <<ttft, deadline, raced, cause>>
retryVars == <<attempt, late, cooling>>
responseVars == <<response, pending, verdicts>>
streamVars == <<stream, flushed>>
otherVars == <<aborted, overrun, cfg>>
vars == <<pc, otherVars, captureVars, permitVars, signalVars, retryVars,
          responseVars, streamVars>>

NoResponse == [status |-> "err", shape |-> "empty", buffered |-> FALSE]

(***************************************************************************)
(* Effects that several paths share.                                       *)
(***************************************************************************)
\* Mutant: the flag permitReleased is not looked at.
ReleasePermitAlways ==
  /\ watchdog' = FALSE
  /\ permit' = IF permit = "none" THEN permit ELSE "released"
  /\ releases' = IF permit = "none" THEN releases ELSE releases + 1

\* Mutant: a stream is left to release its permit by other means.
ReleasePermitUnlessStream ==
  /\ watchdog' = FALSE
  /\ permit' = IF permit = "held" /\ stream = "none" THEN "released" ELSE permit
  /\ releases' = IF permit = "held" /\ stream = "none" THEN releases + 1
                 ELSE releases

\* ctx.releasePermit(); before the permit is there it does nothing.
ReleasePermit ==
  /\ watchdog' = FALSE
  /\ permit' = IF permit = "held" THEN "released" ELSE permit
  /\ releases' = IF permit = "held" THEN releases + 1 ELSE releases

\* Mutant: only what the proxy itself refuses is an incident.
UpstreamIncidentNone(s) == {}

\* maybeRecordUpstreamIncident()
UpstreamIncident(s) == IF s = "ok" THEN {} ELSE {"upstream_error"}

\* The final update and its incident are written, the response is returned
\* without a stream, and the finally block releases the permit.
Finish(s, types) ==
  /\ pc' = "over"
  /\ updates' = Append(updates, s)
  /\ incidents' = incidents \cup types
  /\ ReleasePermit
  /\ cooling' = FALSE
  /\ UNCHANGED row

\* Mutant: flushCapture() forgets that it has run.
FlushedNot == FALSE

AlreadyFlushed == flushed

\* flushCapture() of a response with status s, and the incidents of its caller.
Flush(s, types) ==
  /\ flushed' = TRUE
  /\ updates' = IF AlreadyFlushed THEN updates ELSE Append(updates, s)
  /\ incidents' = incidents \cup types
                    \cup (IF AlreadyFlushed THEN {} ELSE UpstreamIncident(s))
  /\ UNCHANGED row

\* Mutant: onAbort() releases the permit and leaves the capture alone.
OnAbortReleases(s, byClient) ==
  ReleasePermit /\ UNCHANGED <<captureVars, flushed>>

\* onAbort(); byClient: req.signal.aborted at that moment.
OnAbort(s, byClient) ==
  IF permit = "released"
  THEN UNCHANGED <<captureVars, permitVars, flushed>>
  ELSE /\ Flush(s, IF byClient THEN {"client_aborted"} ELSE {})
       /\ ReleasePermit

(***************************************************************************)
(* Phases 1 to 7.                                                          *)
(***************************************************************************)
\* The body has been read: 499 without a capture if the client is gone, else
\* insertEarlyCapture().
ParseInbound ==
  /\ pc = "parse"
  /\ IF aborted THEN pc' = "over" /\ UNCHANGED row
     ELSE pc' = "vision" /\ row' = TRUE
  /\ UNCHANGED <<otherVars, updates, incidents, permitVars, signalVars,
                 retryVars, responseVars, streamVars>>

\* The vision handoff is over, however it went, and checkRateLimit() refuses.
RateLimited ==
  /\ pc = "vision"
  /\ Finish("503", {"rate_limited"})
  /\ UNCHANGED <<otherVars, signalVars, attempt, late, responseVars,
                 streamVars>>

\* ... or lets the request go on to gate.acquire().
RateAllowed ==
  /\ pc = "vision"
  /\ pc' = "acquire"
  /\ UNCHANGED <<otherVars, captureVars, permitVars, signalVars, retryVars,
                 responseVars, streamVars>>

\* gate.acquire() rejects.
GateRejects ==
  /\ pc = "acquire"
  /\ \/ aborted /\ Finish("499", {"client_aborted"})
     \/ \E s \in {"503", "502"} : Finish(s, {"gate_rejected"})
  /\ UNCHANGED <<otherVars, signalVars, attempt, late, responseVars,
                 streamVars>>

\* The top of the retry loop: a controller, a timer and a signal of their own.
\* pendingRecord429 and pendingRecordSuccess are reset.
StartAttempt ==
  /\ pc' = IF attempt = 3 THEN "escalate" ELSE "fetch"
  /\ ttft' = IF cfg.ttft THEN "armed" ELSE "off"
  /\ deadline' = "armed"
  /\ raced' = TRUE
  /\ cause' = IF aborted THEN "client" ELSE "none"
  /\ response' = NoResponse
  /\ pending' = "none"
  /\ UNCHANGED <<attempt, late, verdicts>>

\* The permit is granted, its watchdog set, and the first fetch begins.
GateGrants ==
  /\ pc = "acquire"
  /\ permit' = "held"
  /\ watchdog' = TRUE
  /\ StartAttempt
  /\ UNCHANGED <<otherVars, captureVars, releases, cooling, streamVars>>

(***************************************************************************)
(* A response r in hand.  v is the pending breaker update, c what fired    *)
(* upstreamSignal, types the incidents to record on the way.               *)
(***************************************************************************)
\* No body, or the stream is set up: what has been aborted by then is flushed
\* and released at once.
Respond(r, c, types) ==
  IF r.shape = "empty"
  THEN /\ Finish(r.status, types \cup UpstreamIncident(r.status))
       /\ UNCHANGED streamVars
  ELSE /\ pc' = "stream"
       /\ stream' = "open"
       /\ cooling' = FALSE
       /\ CASE aborted -> Flush(r.status, types) /\ ReleasePermit
            [] ~aborted /\ c # "none" -> OnAbort(r.status, FALSE)
            [] OTHER -> /\ incidents' = incidents \cup types
                        /\ UNCHANGED <<row, updates, permitVars, flushed>>

\* The attempt has not been aborted: the breaker is told.
Settle(r, v, c, types) ==
  /\ verdicts' = IF v = "none" THEN verdicts ELSE verdicts + 1
  /\ ttft' = "off"
  /\ Respond(r, c, types)

\* A stream is raced against the TTFT watchdog for its first chunk.
Proceed(r, v, c, types) ==
  /\ response' = r
  /\ pending' = v
  /\ IF cfg.ttft /\ r.shape = "sse"
     THEN /\ pc' = "firstchunk"
          /\ incidents' = incidents \cup types
          /\ UNCHANGED <<row, updates, permitVars, cooling, ttft, verdicts,
                         streamVars>>
     ELSE Settle(r, v, c, types)

\* fetch() resolves; a 502 is read whole first if ids may be rewritten.
FetchResolves(r) ==
  LET v == CASE r.status = "429" -> "429" [] r.status = "ok" -> "success"
             [] OTHER -> "none"
  IN /\ pc = "fetch" /\ cause = "none"
     /\ IF cfg.rewrite /\ r.status = "502"
        THEN /\ pc' = "errbody"
             /\ response' = r /\ pending' = v
             /\ UNCHANGED <<captureVars, permitVars, cooling, ttft,
                            verdicts, streamVars>>
        ELSE Proceed(r, v, "none", {})
     /\ UNCHANGED <<otherVars, deadline, raced, cause, attempt, late>>

\* new Response(errBody, ...): in memory, and with a body even if that is empty.
Buffered ==
  [response EXCEPT !.buffered = TRUE, !.shape = IF @ = "empty" THEN "plain" ELSE @]

\* The error is not an overload, or the session is not eligible.
ErrorPassedOn ==
  /\ pc = "errbody" /\ cause = "none"
  /\ Proceed(Buffered, pending, cause, {})
  /\ UNCHANGED <<otherVars, deadline, raced, cause, attempt, late>>

\* attemptRewriteRetry() without the TTFT controller, under a new deadline.
RewriteRetry ==
  /\ pc = "errbody" /\ cause = "none" /\ cfg.eligible
  /\ pc' = "rewrite"
  /\ deadline' = "armed" /\ raced' = FALSE
  /\ late' = TRUE
  /\ UNCHANGED <<otherVars, captureVars, permitVars, ttft, cause, attempt,
                 cooling, responseVars, streamVars>>

\* upstream.text() throws: handleProxy() answers 500, without an incident.
ErrorBodyFails ==
  /\ pc = "errbody"
  /\ Finish("500", {})
  /\ UNCHANGED <<otherVars, signalVars, attempt, late, responseVars,
                 streamVars>>

RewriteIncident(s) == IF s = "ok" THEN {} ELSE {"id_rewrite"}

\* The fetch with rewritten ids resolves; on the TTFT ladder it is attempt 3.
RewriteReturns(r) ==
  /\ pc \in {"rewrite", "escalate"} /\ cause = "none"
  /\ Proceed(r, pending, "none", RewriteIncident(r.status))
  /\ UNCHANGED <<otherVars, deadline, raced, cause, attempt, late>>

\* It fails, or there was nothing to rewrite: the 502 is passed on, still tied
\* to the signal of the first fetch.
RewriteFails ==
  /\ pc = "rewrite"
  /\ raced' = TRUE
  /\ \E d \in {"armed", "fired"} :
       LET c == CASE aborted -> "client" [] ~aborted /\ ttft = "fired" -> "ttft"
                  [] ~aborted /\ ttft # "fired" /\ d = "fired" -> "deadline"
                  [] OTHER -> "none"
       IN /\ deadline' = d
          /\ cause' = c
          /\ Proceed(Buffered, pending, c, {})
  /\ UNCHANGED <<otherVars, attempt, late>>

EscalationFails ==
  /\ pc = "escalate"
  /\ IF aborted THEN Finish("499", {"client_aborted"})
     ELSE Finish("504", {"ttft_timeout"})
  /\ UNCHANGED <<otherVars, signalVars, attempt, late, responseVars,
                 streamVars>>

FirstChunk ==
  /\ pc = "firstchunk" /\ (cause = "none" \/ response.buffered)
  /\ Settle(response, pending, cause, {})
  /\ UNCHANGED <<otherVars, deadline, raced, cause, attempt, late, response,
                 pending>>

(***************************************************************************)
(* A fetch or the read of the first chunk fails: because upstreamSignal    *)
(* fired, or by itself.                                                    *)
(***************************************************************************)
\* "permit is reused (single-release preserved)"
KeepPermit == UNCHANGED permitVars

\* decideRetry(); that the breaker is open or the gate saturated is possible at
\* any time.
CanRetry == ~aborted /\ attempt < cfg.max /\ (attempt = 2 => cfg.eligible)

\* handleTtftTimeout() when decideRetry() says "retry".
TtftRetry ==
  /\ CanRetry
  /\ pc' = "cooldown"
  /\ attempt' = attempt + 1 /\ late' = TRUE
  /\ incidents' = incidents \cup {"ttft_timeout"}
  /\ cooling' = TRUE
  /\ ttft' = "off" /\ deadline' = "off" /\ raced' = FALSE /\ cause' = "none"
  /\ KeepPermit
  /\ UNCHANGED <<row, updates>>

Failed(c) ==
  CASE c \in {"client", "ttft"} /\ aborted ->
         /\ Finish("499", {"client_aborted"})
         /\ UNCHANGED <<attempt, late, signalVars>>
    [] ~(c \in {"client", "ttft"} /\ aborted) /\ ttft = "fired" ->
         \/ TtftRetry
         \/ \* breaker open, gate saturated, attempts used up, or client gone
            /\ Finish("504", {"ttft_timeout"})
            /\ UNCHANGED <<attempt, late, signalVars>>
    [] OTHER ->
         /\ Finish(IF c = "deadline" THEN "504" ELSE "502", {"upstream_error"})
         /\ UNCHANGED <<attempt, late, signalVars>>

\* Mutant: the deferred breaker update is made although the attempt failed.
AfterFailureTold == IF pending = "none" THEN verdicts ELSE verdicts + 1

\* "TTFT-aborted attempts must NOT touch breaker"
AfterFailure == verdicts

AttemptFails ==
  /\ pc \in {"fetch", "firstchunk"} /\ (pc = "firstchunk" => ~response.buffered)
  /\ Failed(IF cause = "none" THEN "network" ELSE cause)
  /\ verdicts' = AfterFailure
  /\ UNCHANGED <<otherVars, response, pending, streamVars>>

\* ttftCooldown() is over: slept, or the client is gone.
CooldownEnds ==
  /\ pc = "cooldown"
  /\ cooling' = FALSE
  /\ StartAttempt
  /\ UNCHANGED <<otherVars, captureVars, permitVars, streamVars>>

(***************************************************************************)
(* The stream.                                                             *)
(***************************************************************************)
\* flush() of the TransformStream.
StreamEnds ==
  /\ pc = "stream" /\ stream = "open" /\ (cause = "none" \/ response.buffered)
  /\ pc' = "over" /\ stream' = "ended"
  /\ Flush(response.status, {})
  /\ ReleasePermit
  /\ UNCHANGED <<otherVars, signalVars, retryVars, responseVars>>

\* The body fails: the pipe is aborted, and flush() is not called.
StreamBreaks ==
  /\ pc = "stream" /\ stream = "open"
  /\ stream' = "broken"
  /\ UNCHANGED <<otherVars, pc, captureVars, permitVars, signalVars,
                 retryVars, responseVars, flushed>>

(***************************************************************************)
(* Signals and timers.                                                     *)
(***************************************************************************)
Caused(c) == IF cause = "none" THEN c ELSE cause

ClientAborts ==
  /\ ~aborted /\ pc # "over"
  /\ aborted' = TRUE
  /\ cause' = IF pc \in Fetching \cup {"stream"} THEN Caused("client")
              ELSE cause
  /\ IF pc = "stream" THEN OnAbort(response.status, TRUE)
     ELSE UNCHANGED <<captureVars, permitVars, flushed>>
  /\ UNCHANGED <<pc, overrun, cfg, ttft, deadline, raced, retryVars,
                 responseVars, stream>>

\* The timer stays set while a 502 is read or retried with other ids.
TtftFires ==
  /\ ttft = "armed" /\ pc \in Fetching
  /\ ttft' = "fired"
  /\ cause' = IF raced THEN Caused("ttft") ELSE cause
  /\ UNCHANGED <<otherVars, pc, captureVars, permitVars, deadline, raced,
                 retryVars, responseVars, streamVars>>

\* The TTFT threshold is below upstreamTimeoutMs; only on the first attempt a
\* status answer may set it again, later, and a fetch with rewritten ids has a
\* deadline of its own.
DeadlineFires ==
  /\ deadline = "armed" /\ pc \in Fetching \cup {"stream"}
  /\ ttft # "armed" \/ attempt = 1 \/ ~raced
  /\ deadline' = "fired"
  /\ cause' = Caused("deadline")
  /\ IF pc = "stream" THEN OnAbort(response.status, aborted)
     ELSE UNCHANGED <<captureVars, permitVars, flushed>>
  /\ UNCHANGED <<otherVars, pc, ttft, raced, retryVars, responseVars, stream>>

\* flushCaptureRef?.(): set once there is a stream.
WatchdogFlush ==
  IF stream = "none" THEN UNCHANGED <<captureVars, flushed>>
  ELSE Flush(response.status, {})

\* upstreamTimeoutMs + 5 s after the grant, hence after the deadline of the
\* first fetch, if that is still under way.
WatchdogFires ==
  /\ watchdog /\ (late \/ deadline # "armed" \/ pc = "over")
  /\ WatchdogFlush
  /\ ReleasePermit
  /\ overrun' = (stream = "none")
  /\ UNCHANGED <<cfg, pc, aborted, signalVars, retryVars, responseVars,
                 stream>>

\* The configuration is reloaded under the request.
Reload(c) ==
  /\ pc # "over" /\ c # cfg /\ c.eligible = cfg.eligible
  /\ permit # "none" => c.ttft = cfg.ttft
  /\ cfg' = c
  /\ UNCHANGED <<pc, aborted, overrun, captureVars, permitVars, signalVars,
                 retryVars, responseVars, streamVars>>

Init ==
  /\ pc = "parse" /\ aborted = FALSE
  /\ row = FALSE /\ updates = <<>> /\ incidents = {}
  /\ permit = "none" /\ releases = 0 /\ watchdog = FALSE /\ overrun = FALSE
  /\ attempt = 1 /\ late = FALSE /\ cooling = FALSE
  /\ ttft = "off" /\ deadline = "off" /\ raced = FALSE /\ cause = "none"
  /\ response = NoResponse /\ pending = "none" /\ verdicts = 0
  /\ stream = "none" /\ flushed = FALSE
  /\ cfg \in Configs

Responses == [status: Statuses, shape: Shapes, buffered: {FALSE}]

Early == ParseInbound \/ RateLimited \/ RateAllowed \/ GateRejects \/ GateGrants
Fails == ErrorBodyFails \/ RewriteFails \/ EscalationFails \/ AttemptFails
Upstream ==
  \/ \E r \in Responses : FetchResolves(r) \/ RewriteReturns(r)
  \/ ErrorPassedOn \/ RewriteRetry \/ FirstChunk
  \/ StreamEnds \/ StreamBreaks
Timers == TtftFires \/ DeadlineFires \/ WatchdogFires \/ CooldownEnds

Next ==
  \/ Early \/ Upstream \/ Fails \/ Timers \/ ClientAborts
  \/ \E c \in Configs : Reload(c)

\* Timers fire; an aborted fetch rejects; a body that is in memory can be
\* read; the gate answers, at the latest by its queue timeout.  Neither the
\* upstream nor the client has to do anything.
Fairness ==
  /\ WF_vars(Early)
  /\ WF_vars(TtftFires) /\ WF_vars(DeadlineFires) /\ WF_vars(CooldownEnds)
  /\ WF_vars(WatchdogFires)
  /\ WF_vars(cause # "none" /\ Fails)
  /\ WF_vars(response.buffered /\ FirstChunk)

Spec == Init /\ [][Next]_vars
LiveSpec == Spec /\ Fairness

(***************************************************************************)
(* Properties.                                                             *)
(***************************************************************************)
\* Every field of the handler's context keeps its type.
ProxyTypeOK ==
  /\ cfg \in Config /\ pc \in Places
  /\ aborted \in BOOLEAN /\ row \in BOOLEAN /\ overrun \in BOOLEAN
  /\ updates \in Seq(Final) /\ incidents \subseteq IncidentTypes
  /\ permit \in {"none", "held", "released"} /\ releases \in Nat
  /\ watchdog \in BOOLEAN /\ late \in BOOLEAN /\ cooling \in BOOLEAN
  /\ attempt \in 1 .. 3
  /\ ttft \in {"off", "armed", "fired"}
  /\ deadline \in {"off", "armed", "fired"}
  /\ raced \in BOOLEAN /\ cause \in {"none", "client", "ttft", "deadline"}
  /\ response \in [status: Statuses, shape: Shapes, buffered: BOOLEAN]
  /\ pending \in {"none", "429", "success"} /\ verdicts \in Nat
  /\ stream \in {"none", "open", "broken", "ended"} /\ flushed \in BOOLEAN

\* A permit is "released exactly once" (CONTEXT.md): end of stream, abort,
\* deadline, watchdog and the finally block may all try, in any order.
ReleasedOnce == releases = IF permit = "released" THEN 1 ELSE 0

\* One final update per capture: none is written twice, and a request that is
\* over has written one.
UpdatedOnce ==
  /\ Len(updates) <= 1
  /\ pc = "over" /\ row => Len(updates) = 1

Forwarding ==
  \/ pc \in Fetching \cup {"cooldown"}
  \/ pc = "stream" /\ stream = "open" /\ cause = "none"

\* A request asks upstream only with a permit in its hand, also between its
\* retries.  Only the watchdog can take the permit away.
ForwardedWithPermit == Forwarding => permit = "held" \/ overrun \/ flushed

\* A permit is held exactly while it is needed (with the types of the context).
PermitDiscipline == ProxyTypeOK /\ ReleasedOnce /\ ForwardedWithPermit

\* Incidents explain the final status (ADR-0021): whatever is not a success has
\* one, but for the internal error 500; a success has none but those of a
\* client that left and of attempts that timed out, rewritten ones included.
Attributed ==
  updates # <<>> =>
    /\ updates[1] \notin {"ok", "500"} => incidents # {}
    /\ updates[1] = "ok" =>
         /\ incidents \subseteq {"ttft_timeout", "id_rewrite", "client_aborted"}
         /\ "id_rewrite" \in incidents => "ttft_timeout" \in incidents

\* The breaker hears at most once of a request, and never of an attempt that
\* was aborted.
BreakerToldOnce ==
  [][verdicts' # verdicts => verdicts' = 1 /\ cause = "none"]_vars

\* Every permit comes back, whatever upstream and client do.
PermitReturns == permit = "held" ~> permit = "released"

\* Every capture gets its final update, unless the watchdog fired while an
\* attempt was still waiting for its response.
CaptureSettles == row ~> updates # <<>> \/ overrun
=============================================================================
