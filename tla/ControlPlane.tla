---------------------------- MODULE ControlPlane ----------------------------
(***************************************************************************)
(* Who sets the limits: the wiring of src/src/index.ts between the usage   *)
(* client (usage/aggregator.ts, usage/reconciler.ts), config.json          *)
(* (config/file.ts, config/reload.ts), the running configuration, the gate *)
(* and the request limiter, with the routes of viewer.ts and the           *)
(* configuration tab of the dashboard that drive it.                       *)
(*                                                                         *)
(* A fetch is two steps: it is answered with what the upstream reports at  *)
(* that moment, and the code after the await runs later. A locked save and *)
(* the code after it are microtasks of one turn, one step here. The gate   *)
(* is reduced to its limits (its permits are in Gate) and the limiter to   *)
(* its limit (its window is in RateWindow).                                *)
(***************************************************************************)
EXTENDS Integers, FiniteSets

CONSTANTS
  Plan,        \* what /v1/usage may report
  RawConfigs,  \* the configuration files the program may start with
  DEFAULT_CONFIG, \* the defaults a reset writes
  RateValues,  \* rate_limit_requests the tab may set
  CapValues,   \* caps the tab may set
  Call,        \* concurrent calls of refreshLimits()
  MaxChanges,  \* bound on changes of the upstream
  MaxEdits,    \* bound on edits, saves and resets in the tab
  MaxFaults,   \* bound on failed fetches and failed writes
  MaxRefreshes \* bound on calls of refreshLimits()

None == 0
Unlimited == -1
Field == {"hard", "soft", "useHard", "rate", "reqUseHard", "never"}
IsConfig(c) == c = [f \in Field |-> c[f]]

ASSUME ControlAssumption ==
  /\ \A p \in Plan : /\ p.hard \in Nat /\ p.soft \in 0..p.hard /\ (p.hard = None <=> p.soft = None)
                     /\ p.req \in Nat /\ p.reqHard \in Nat
                     /\ p.low \in BOOLEAN /\ p.boxed \in BOOLEAN
  /\ \A r \in RawConfigs \cup {DEFAULT_CONFIG} : IsConfig(r)
  /\ {MaxChanges, MaxEdits, MaxFaults, MaxRefreshes} \subseteq Nat

VARIABLES
  up,       \* what the upstream reports now
  snap,     \* UmansUsageClient.snapshot, or NoSnap
  poll,     \* the answer the periodic refresh waits with, or NoSnap
  refresh,  \* the calls of refreshLimits()
  file,     \* config.json
  lastRaw,  \* lastRawConfig
  live,     \* the running ProxyConfig
  gate,     \* the limits of the gate
  limiter,  \* rateRef.current: its limit, or None
  lastRate, \* lastRateEffectiveLimit, or None
  tab,      \* the configuration tab
  spent     \* how much of each bound is used

vars == <<up, snap, poll, refresh, file, lastRaw, live, gate, limiter, lastRate, tab, spent>>

NoSnap == [hard |-> 0, soft |-> 0, req |-> 0, reqHard |-> 0, low |-> FALSE, boxed |-> FALSE]

ASSUME AnswersDiffer == NoSnap \notin Plan

NoCall == [pc |-> "idle", got |-> NoSnap]

-----------------------------------------------------------------------------
Least(a, b) == IF a < b THEN a ELSE b
AtLeast1(n) == IF n < 1 THEN 1 ELSE n

\* failSafeSnapshot(): what getSnapshot() returns before the first answer.
failSafeSnapshot == [hard |-> 1, soft |-> 1, req |-> None, reqHard |-> None,
                     low |-> TRUE, boxed |-> FALSE]
getSnapshot(s) == IF s = NoSnap THEN failSafeSnapshot ELSE s

\* buildSnapshot(): caps the upstream leaves out are those of the last snapshot,
\* or one. fetchConcurrencyLimits() takes one for them.
buildSnapshot(raw) ==
  IF raw.hard # None THEN raw
  ELSE [raw EXCEPT !.hard = AtLeast1(snap.hard), !.soft = AtLeast1(snap.soft)]

fetchConcurrencyLimits(raw) ==
  [raw EXCEPT !.hard = AtLeast1(raw.hard), !.soft = AtLeast1(raw.soft)]

\* The constructor of the gate.
NewGate(cfg) == [hard |-> cfg.hard, soft |-> cfg.soft,
                 limit |-> Least(cfg.soft, cfg.hard)]

\* resize(), setHardCap() and setSoftLimit() of the gate, without the waiters.
resize(g, n) == [g EXCEPT !.limit = AtLeast1(Least(n, g.hard))]
setHardCap(g, n) == [g EXCEPT !.hard = n, !.soft = Least(@, n), !.limit = Least(@, n)]
setSoftLimit(g, n) == [g EXCEPT !.soft = n]

\* The limit applyEffectiveLimit() asks for: one while the account is boxed for
\* anything but its request rate, one less while its priority is low.
EffectiveLimit(cfg, s) ==
  LET base == IF cfg.useHard THEN cfg.hard ELSE cfg.soft
  IN IF s.boxed THEN 1 ELSE IF s.low THEN AtLeast1(base - 1) ELSE base

applyEffectiveLimit(g, cfg, s) == resize(g, EffectiveLimit(cfg, s))

\* Mutant: the limit is computed before the configuration has the new caps.
CapsAppliedStale(cfg, g, s, hard, soft) ==
  [live |-> [cfg EXCEPT !.hard = hard, !.soft = soft],
   gate |-> applyEffectiveLimit(setSoftLimit(setHardCap(g, hard), soft), cfg, s)]

\* Caps from the upstream: into the running configuration and the gate.
CapsApplied(cfg, g, s, hard, soft) ==
  LET c == [cfg EXCEPT !.hard = hard, !.soft = soft]
  IN [live |-> c,
      gate |-> applyEffectiveLimit(setSoftLimit(setHardCap(g, hard), soft), c, s)]

\* The request cap a snapshot gives, None when it has none.
EffectiveRate(cfg, s) == IF cfg.reqUseHard THEN s.reqHard ELSE s.req

createRateLimiter(cfg, s) ==
  IF cfg.never \/ cfg.rate = Unlimited THEN None
  ELSE IF cfg.rate > 0 THEN cfg.rate ELSE EffectiveRate(cfg, s)

\* syncRateLimiter(): only a changed effective limit replaces the limiter.
syncRateLimiter(cfg, s) ==
  LET rate == EffectiveRate(cfg, s) IN
  IF cfg.rate = 0 /\ rate # lastRate
  THEN limiter' = createRateLimiter(cfg, s) /\ lastRate' = rate
  ELSE /\ limiter' = IF cfg.rate > 0 /\ limiter = None THEN createRateLimiter(cfg, s) ELSE limiter
       /\ UNCHANGED lastRate

-----------------------------------------------------------------------------
\* What starting the process makes of a file: loadConfig(), the gate and the
\* limiter without a snapshot, then the first poll and refreshLimits().
Started(raw) ==
  /\ lastRaw = raw /\ live = raw /\ gate = NewGate(raw)
  /\ limiter = createRateLimiter(raw, failSafeSnapshot) /\ lastRate = None
  /\ snap = NoSnap /\ poll = NoSnap

Init ==
  /\ up \in Plan /\ file \in RawConfigs
  /\ Started(file)
  /\ \E c \in Call : refresh = [k \in Call |-> IF k = c THEN [NoCall EXCEPT !.pc = "caps"] ELSE NoCall]
  /\ tab = [base |-> file, draft |-> file, pc |-> "idle", touched |-> {}]
  /\ spent = [changes |-> 0, edits |-> 0, faults |-> 0, refreshes |-> 1]

Spend(what) == spent' = [spent EXCEPT ![what] = @ + 1]

\* The account: its plan, its priority, its box.
UpstreamChanges ==
  /\ spent.changes < MaxChanges /\ Spend("changes")
  /\ up' \in Plan \ {up}
  /\ UNCHANGED <<snap, poll, refresh, file, lastRaw, live, gate, limiter, lastRate, tab>>

\* The timer calls refresh(), which does nothing while one is under way. The
\* answer has left the upstream.
PollAnswered ==
  /\ poll = NoSnap
  /\ poll' = up
  /\ UNCHANGED <<up, snap, refresh, file, lastRaw, live, gate, limiter, lastRate, tab, spent>>

\* The onChange listener of index.ts.
OnChange(s) ==
  LET a == CapsApplied(live, gate, s, s.hard, s.soft)
  IN live' = a.live /\ gate' = a.gate /\ syncRateLimiter(a.live, s)

\* Mutant: the listeners are told only of a snapshot that differs.
TellChanges(s) ==
  /\ snap' = s
  /\ IF s = snap THEN UNCHANGED <<live, gate, limiter, lastRate>> ELSE OnChange(s)

\* applySnapshot(): every snapshot is told to the listeners.
applySnapshot(s) == snap' = s /\ OnChange(s)

PollApplies ==
  /\ poll # NoSnap /\ poll' = NoSnap
  /\ applySnapshot(buildSnapshot(poll))
  /\ UNCHANGED <<up, refresh, file, lastRaw, tab, spent>>

\* applyFailedSnapshot(): the old snapshot without its low priority is told
\* again; without one nothing is.
PollFails ==
  /\ poll # NoSnap /\ poll' = NoSnap
  /\ spent.faults < MaxFaults /\ Spend("faults")
  /\ IF snap = NoSnap THEN UNCHANGED <<snap, live, gate, limiter, lastRate>>
     ELSE snap' = [snap EXCEPT !.low = FALSE] /\ OnChange([snap EXCEPT !.low = FALSE])
  /\ UNCHANGED <<up, refresh, file, lastRaw, tab>>

-----------------------------------------------------------------------------
\* saveConfigLocked(): the patch is merged into the file of that moment, or the
\* write fails.
saveConfigLocked(patch, ok) ==
  IF ok THEN /\ file' = [f \in Field |-> IF f \in DOMAIN patch THEN patch[f] ELSE file[f]]
             /\ UNCHANGED spent
  ELSE spent.faults < MaxFaults /\ Spend("faults") /\ UNCHANGED file

\* refreshLimits(): fetchLimitsFromSource() ...
RefreshStarts(c) ==
  /\ refresh[c].pc = "idle" /\ spent.refreshes < MaxRefreshes /\ Spend("refreshes")
  /\ refresh' = [refresh EXCEPT ![c].pc = "caps"]

RefreshAnswered(c) ==
  /\ refresh[c].pc \in {"caps", "requests"} /\ refresh[c].got = NoSnap
  /\ refresh' = [refresh EXCEPT ![c].got = up]
  /\ UNCHANGED <<up, snap, poll, file, lastRaw, live, gate, limiter, lastRate, tab, spent>>

\* ... applyLimitsFromSource(): the caps are saved (the answer of a failed save
\* is not looked at) and applied, and fetchRequestsLimit() is sent.
RefreshCaps(c) ==
  LET got == fetchConcurrencyLimits(refresh[c].got)
      a == CapsApplied(live, gate, getSnapshot(snap), got.hard, got.soft)
  IN /\ refresh[c].pc = "caps" /\ refresh[c].got # NoSnap
     /\ \E ok \in BOOLEAN : saveConfigLocked([hard |-> got.hard, soft |-> got.soft], ok)
     /\ live' = a.live /\ gate' = a.gate
     /\ refresh' = [refresh EXCEPT ![c] = [NoCall EXCEPT !.pc = "requests"]]
     /\ UNCHANGED <<up, snap, poll, lastRaw, limiter, lastRate, tab>>

\* ... and what the second answer says of the requests. An account without a
\* limit turns the automatic limiter off, in the file too; a window is reported
\* with a limit only.
RefreshRequests(c) ==
  LET got == refresh[c].got IN
  /\ refresh[c].pc = "requests" /\ got # NoSnap
  /\ refresh' = [refresh EXCEPT ![c] = NoCall]
  /\ IF live.rate = 0
     THEN IF got.req = None /\ got.reqHard = None
          THEN /\ file' = [file EXCEPT !.rate = Unlimited]
               /\ live' = [live EXCEPT !.rate = Unlimited]
               /\ limiter' = None /\ lastRate' = None
          ELSE /\ limiter' = createRateLimiter(live, got)
               /\ lastRate' = EffectiveRate(live, got)
               /\ UNCHANGED <<file, live>>
     ELSE /\ limiter' = IF live.rate > 0 /\ got.req # None THEN createRateLimiter(live, got)
                        ELSE limiter
          /\ UNCHANGED <<file, live, lastRate>>
  /\ UNCHANGED <<up, snap, poll, lastRaw, gate, tab, spent>>

\* Either fetch may fail.
RefreshFails(c) ==
  /\ refresh[c].pc \in {"caps", "requests"} /\ spent.faults < MaxFaults /\ Spend("faults")
  /\ refresh' = [refresh EXCEPT ![c] = NoCall]
  /\ UNCHANGED <<up, snap, poll, file, lastRaw, live, gate, limiter, lastRate, tab>>

-----------------------------------------------------------------------------
\* reloadConfig() with applyReloadToConfig(): the fields of the file that differ
\* from the file of the last reload are applied. The other options of the
\* gate are never applied: GATE_RECONFIG_FIELDS holds other names than the keys.
ReloadConfig(raw) ==
  LET applied == {f \in Field : raw[f] # lastRaw[f]}
      cfg == [f \in Field |-> IF f \in applied THEN raw[f] ELSE live[f]]
      g1 == IF "hard" \in applied THEN setHardCap(gate, cfg.hard) ELSE gate
      g2 == IF "soft" \in applied THEN setSoftLimit(g1, cfg.soft) ELSE g1
  IN /\ live' = cfg /\ lastRaw' = raw
     /\ gate' = IF applied \cap {"useHard", "hard", "soft"} = {} THEN g2
                ELSE applyEffectiveLimit(g2, cfg, getSnapshot(snap))
     /\ IF applied \cap {"rate", "reqUseHard", "never"} = {} THEN UNCHANGED <<limiter, lastRate>>
        ELSE limiter' = createRateLimiter(cfg, getSnapshot(snap)) /\ lastRate' = None

-----------------------------------------------------------------------------
\* The tab. A field is edited in the draft.
Offered(f) ==
  CASE f \in {"useHard", "reqUseHard", "never"} -> BOOLEAN
    [] f = "rate" -> RateValues
    [] OTHER -> CapValues

TabEdit ==
  /\ spent.edits < MaxEdits /\ Spend("edits")
  /\ \E f \in Field : \E v \in Offered(f) \ {tab.draft[f]} :
        tab' = [tab EXCEPT !.draft[f] = v, !.touched = @ \cup {f}]
  /\ UNCHANGED <<up, snap, poll, refresh, file, lastRaw, live, gate, limiter, lastRate>>

\* resetDraft()
TabReverts ==
  /\ tab.touched # {}
  /\ tab' = [tab EXCEPT !.draft = tab.base, !.touched = {}]
  /\ UNCHANGED <<up, snap, poll, refresh, file, lastRaw, live, gate, limiter, lastRate, spent>>

\* Mutant: the whole draft is sent.
DirtyAll == Field

\* dirtyKeys: what differs from the configuration last loaded.
Dirty == {f \in Field : tab.draft[f] # tab.base[f]}

\* The routes of viewer.ts: POST /api/config, /api/config/reset (the reload in
\* the same turn, then refreshLimits()) and /api/config/reload.
PostConfig(patch, ok) == saveConfigLocked(patch, ok)
resetConfig == file' = DEFAULT_CONFIG
PostReset(c) == resetConfig /\ ReloadConfig(DEFAULT_CONFIG) /\ RefreshStarts(c)
PostReload == ReloadConfig(file) /\ UNCHANGED file

\* handleSave(): the dirty keys are posted.
TabSaves ==
  /\ tab.pc = "idle" /\ Dirty # {}
  /\ \E ok \in BOOLEAN : /\ PostConfig([f \in Dirty |-> tab.draft[f]], ok)
                          /\ tab' = IF ok THEN [tab EXCEPT !.pc = "saved"] ELSE tab
  /\ UNCHANGED <<up, snap, poll, refresh, lastRaw, live, gate, limiter, lastRate>>

\* GET /api/config: the answer replaces base and draft, what was typed since the
\* save included. It follows a save and a reload.
TabLoads ==
  /\ tab.pc \in {"saved", "reloaded", "refreshed"}
  /\ tab' = [base |-> file, draft |-> file, touched |-> {},
             pc |-> IF tab.pc = "saved" THEN "apply" ELSE "idle"]
  /\ UNCHANGED <<up, snap, poll, refresh, file, lastRaw, live, gate, limiter, lastRate, spent>>

\* reloadFromDisk(), after the load that follows a save.
TabReloads ==
  /\ tab.pc = "apply" /\ PostReload
  /\ tab' = [tab EXCEPT !.pc = "reloaded"]
  /\ UNCHANGED <<up, snap, poll, refresh, spent>>

\* refreshFromSource() and resetToDefault().
TabRefreshes(c) ==
  /\ tab.pc = "idle" /\ RefreshStarts(c)
  /\ tab' = [tab EXCEPT !.pc = "waiting"]
  /\ UNCHANGED <<up, snap, poll, file, lastRaw, live, gate, limiter, lastRate>>

TabResets(c) ==
  /\ tab.pc = "idle" /\ PostReset(c)
  /\ tab' = [tab EXCEPT !.pc = "waiting"]
  /\ UNCHANGED <<up, snap, poll>>

\* The answer of the route, once its refreshLimits() is done.
TabAnswered ==
  /\ tab.pc = "waiting" /\ \A c \in Call : refresh[c].pc = "idle"
  /\ tab' = [tab EXCEPT !.pc = "refreshed"]
  /\ UNCHANGED <<up, snap, poll, refresh, file, lastRaw, live, gate, limiter, lastRate, spent>>

\* The process starts again from the file; the tab stays open.
Restart(c) ==
  /\ spent.faults < MaxFaults /\ Spend("faults")
  /\ lastRaw' = file /\ live' = file /\ gate' = NewGate(file)
  /\ limiter' = createRateLimiter(file, failSafeSnapshot) /\ lastRate' = None
  /\ snap' = NoSnap /\ poll' = NoSnap
  /\ refresh' = [k \in Call |-> IF k = c THEN [NoCall EXCEPT !.pc = "caps"] ELSE NoCall]
  /\ tab' = [tab EXCEPT !.pc = "idle"]
  /\ UNCHANGED <<up, file>>

Next ==
  \/ UpstreamChanges \/ PollAnswered \/ PollApplies \/ PollFails
  \/ \E c \in Call : \/ RefreshAnswered(c) \/ RefreshCaps(c) \/ RefreshRequests(c)
                      \/ RefreshFails(c)
                      \/ TabRefreshes(c) \/ TabResets(c) \/ Restart(c)
  \/ TabEdit \/ TabReverts \/ TabSaves \/ TabLoads \/ TabReloads \/ TabAnswered

\* The timer of UmansUsageClient never stops, and a fetch ends within its
\* timeout. No other action is promised to happen.
Spec == Init /\ [][Next]_vars /\ WF_vars(PollAnswered) /\ WF_vars(PollApplies)

-----------------------------------------------------------------------------
\* The gate runs with the caps the running configuration holds and with the
\* limit they and the last snapshot give, whoever wrote them last: a poll, a
\* late refresh, a reload or a failed poll (index.ts: applyEffectiveLimit is
\* called on each of these paths and reads config, not the snapshot).
GateAgrees ==
  /\ gate.hard = live.hard
  /\ snap # NoSnap => gate.limit = resize(gate, EffectiveLimit(live, snap)).limit

\* The request limiter is the one the running configuration asks for: none when
\* requests are never limited or unlimited, the configured number when there is
\* one, across reloads, polls and refreshes that overlap.
LimiterFollowsConfig ==
  /\ live.never \/ live.rate = Unlimited => limiter = None
  /\ live.rate > 0 /\ ~live.never => limiter = live.rate

\* Gate and limiter run with what the running configuration says.
LimitsAgree == GateAgrees /\ LimiterFollowsConfig

\* A save in the tab changes no field the user left alone: caps that a refresh
\* wrote to the file after the tab was loaded survive it.
NoClobber ==
  [][tab.pc = "idle" /\ tab'.pc = "saved" =>
       \A f \in Field : file'[f] # file[f] => f \in tab.touched]_vars

\* Once the upstream stays as it is and nobody edits, the gate ends up with the
\* limit the upstream gives, whatever stale caps a late refresh, a reload or a
\* restart put there.
CapsConverge ==
  <>[](/\ up.boxed => gate.limit = 1
       /\ up.hard # None =>
            /\ gate.hard = up.hard
            /\ gate.limit = Least(up.hard,
                 EffectiveLimit([live EXCEPT !.hard = up.hard, !.soft = up.soft], up)))

\* "... so a reload flag isn't needed to keep the limiter in sync with /v1/usage"
\* (syncRateLimiter, index.ts): the automatic limiter ends up with the limit the
\* upstream gives.
LimiterInSync ==
  <>[](live.rate = 0 /\ ~live.never => limiter = EffectiveRate(live, up))
=============================================================================
