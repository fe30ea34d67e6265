------------------------- MODULE ControlPlaneProofs -------------------------
(***************************************************************************)
(* Proofs about ControlPlane, for every plan, every configuration file,    *)
(* every value the tab offers and any number of overlapping refreshes.     *)
(***************************************************************************)
EXTENDS ControlPlane, TLAPS

\* The configurations have all fields and nothing else, and so do the gate's
\* limits, the calls and the tab. What the values are does not matter to the proofs.
CallsOK == refresh = [c \in Call |-> [pc |-> refresh[c].pc, got |-> refresh[c].got]]

ConfigsOK ==
  /\ IsConfig(file) /\ IsConfig(lastRaw) /\ IsConfig(live)
  /\ gate = [hard |-> gate.hard, soft |-> gate.soft, limit |-> gate.limit]
  /\ CallsOK

\* A field whose draft differs from what was loaded has been touched.
TabInv ==
  /\ tab = [base |-> tab.base, draft |-> tab.draft, pc |-> tab.pc, touched |-> tab.touched]
  /\ IsConfig(tab.base) /\ IsConfig(tab.draft)
  /\ \A f \in Field : tab.draft[f] # tab.base[f] => f \in tab.touched

\* The limit a running configuration and a snapshot give a gate with that cap.
LimitFor(cfg, s) == AtLeast1(Least(EffectiveLimit(cfg, s), cfg.hard))

IsGate(g) == g = [hard |-> g.hard, soft |-> g.soft, limit |-> g.limit]

ControlInv == ConfigsOK /\ TabInv /\ LimitsAgree

-----------------------------------------------------------------------------
\* applyEffectiveLimit() gives the gate the limit of the configuration whose
\* hard cap it holds.
LEMMA AppliedLimit ==
  ASSUME NEW g, IsGate(g), NEW c, NEW s, g.hard = c.hard
  PROVE  /\ IsGate(applyEffectiveLimit(g, c, s))
         /\ applyEffectiveLimit(g, c, s).hard = c.hard
         /\ applyEffectiveLimit(g, c, s).limit = LimitFor(c, s)
BY DEF IsGate, applyEffectiveLimit, resize, LimitFor

\* Setting the caps keeps a gate a gate and sets its hard cap.
LEMMA CapsSet ==
  ASSUME NEW g, IsGate(g), NEW n, NEW m
  PROVE  /\ IsGate(setHardCap(g, n)) /\ setHardCap(g, n).hard = n
         /\ IsGate(setSoftLimit(g, m)) /\ setSoftLimit(g, m).hard = g.hard
<1>1. setHardCap(g, n) = [hard |-> n, soft |-> Least(g.soft, n), limit |-> Least(g.limit, n)]
  <2> DEFINE x == Least(g.soft, n)
             y == Least(g.limit, n)
  <2>1. [g EXCEPT !.hard = n] = [hard |-> n, soft |-> g.soft, limit |-> g.limit]
    BY DEF IsGate
  <2>2. [[hard |-> n, soft |-> g.soft, limit |-> g.limit] EXCEPT !.soft = x]
        = [hard |-> n, soft |-> x, limit |-> g.limit]
    OBVIOUS
  <2>3. [[hard |-> n, soft |-> x, limit |-> g.limit] EXCEPT !.limit = y]
        = [hard |-> n, soft |-> x, limit |-> y]
    OBVIOUS
  <2>4. setHardCap(g, n) = [[[g EXCEPT !.hard = n] EXCEPT !.soft = x] EXCEPT !.limit = y]
    BY DEF setHardCap
  <2> QED
    BY <2>1, <2>2, <2>3, <2>4
<1>2. setSoftLimit(g, m) = [hard |-> g.hard, soft |-> m, limit |-> g.limit]
  BY DEF IsGate, setSoftLimit
<1> QED
  BY <1>1, <1>2 DEF IsGate

\* The caps of the upstream: only the caps of the configuration change, and the
\* gate agrees with the result.
LEMMA CapsAppliedAgree ==
  ASSUME NEW c, IsConfig(c), NEW g, IsGate(g), NEW s, NEW hard, NEW soft
  PROVE  LET a == CapsApplied(c, g, s, hard, soft) IN
         /\ IsConfig(a.live) /\ a.live.rate = c.rate /\ a.live.never = c.never
         /\ a.live.reqUseHard = c.reqUseHard
         /\ IsGate(a.gate) /\ a.gate.hard = a.live.hard
         /\ a.gate.limit = LimitFor(a.live, s)
<1> DEFINE d == [c EXCEPT !.hard = hard, !.soft = soft]
           h == setSoftLimit(setHardCap(g, hard), soft)
<1>1. IsConfig(d) /\ d.rate = c.rate /\ d.never = c.never /\ d.reqUseHard = c.reqUseHard
      /\ d.hard = hard
  BY DEF IsConfig, Field
<1>2. IsGate(h) /\ h.hard = hard
  <2>1. IsGate(setHardCap(g, hard)) /\ setHardCap(g, hard).hard = hard
    BY CapsSet
  <2> QED
    BY <2>1, CapsSet
<1>3. CapsApplied(c, g, s, hard, soft) = [live |-> d, gate |-> applyEffectiveLimit(h, d, s)]
  BY DEF CapsApplied
<1> HIDE DEF d, h
<1>4. /\ IsGate(applyEffectiveLimit(h, d, s))
      /\ applyEffectiveLimit(h, d, s).hard = d.hard
      /\ applyEffectiveLimit(h, d, s).limit = LimitFor(d, s)
  BY <1>1, <1>2, AppliedLimit
<1> QED
  BY <1>1, <1>3, <1>4

\* The limiter of a configuration follows it.
LEMMA CreatedFollows ==
  ASSUME NEW c, NEW s
  PROVE  /\ c.never \/ c.rate = Unlimited => createRateLimiter(c, s) = None
         /\ c.rate > 0 /\ ~c.never => createRateLimiter(c, s) = c.rate
BY DEF createRateLimiter, Unlimited

-----------------------------------------------------------------------------
\* Init establishes the invariant.
LEMMA ControlInit == Init => ControlInv
<1> SUFFICES ASSUME Init PROVE ControlInv
  OBVIOUS
<1>1. IsConfig(file) /\ file = lastRaw /\ live = file /\ gate = NewGate(file) /\ snap = NoSnap
      /\ limiter = createRateLimiter(file, failSafeSnapshot)
  BY ControlAssumption DEF Init, Started
<1>2. ConfigsOK
  <2>1. CallsOK
    BY DEF Init, CallsOK, NoCall
  <2> QED
    BY <1>1, <2>1 DEF ConfigsOK, NewGate
<1>3. TabInv
  BY <1>1 DEF Init, TabInv
<1>4. GateAgrees
  BY <1>1 DEF GateAgrees, NewGate
<1>5. LimiterFollowsConfig
  BY <1>1, CreatedFollows DEF LimiterFollowsConfig
<1> QED
  BY <1>2, <1>3, <1>4, <1>5 DEF ControlInv, LimitsAgree

-----------------------------------------------------------------------------
\* What the actions rely on.
LEMMA ControlFacts ==
  ASSUME ControlInv
  PROVE  /\ IsConfig(file) /\ IsConfig(lastRaw) /\ IsConfig(live) /\ IsGate(gate)
         /\ gate.hard = live.hard
         /\ snap # NoSnap => gate.limit = LimitFor(live, snap)
BY DEF ControlInv, ConfigsOK, IsGate, LimitsAgree, GateAgrees, LimitFor, resize

\* A gate with the limit of the new configuration and snapshot agrees with them.
LEMMA GateAgreesIf ==
  ASSUME IsGate(gate'), gate'.hard = live'.hard,
         snap' # NoSnap => gate'.limit = LimitFor(live', snap')
  PROVE  GateAgrees'
BY DEF GateAgrees, IsGate, LimitFor, resize

\* syncRateLimiter() with a configuration of the same rate keeps the limiter in
\* step: it only creates one where the configuration asks for one.
LEMMA SyncFollows ==
  ASSUME LimiterFollowsConfig, NEW c, c.rate = live.rate, c.never = live.never, NEW s,
         syncRateLimiter(c, s), live' = c
  PROVE  LimiterFollowsConfig'
<1>1. /\ c.never \/ c.rate = Unlimited => limiter = None
      /\ c.rate > 0 /\ ~c.never => limiter = c.rate
  BY DEF LimiterFollowsConfig
<1>2. limiter' = createRateLimiter(c, s) \/ limiter' = limiter
  BY DEF syncRateLimiter
<1>3. /\ c.never \/ c.rate = Unlimited => limiter' = None
      /\ c.rate > 0 /\ ~c.never => limiter' = c.rate
  BY <1>1, <1>2, CreatedFollows
<1> QED
  BY <1>3 DEF LimiterFollowsConfig

\* The listener of a snapshot: caps, limit and limiter.
LEMMA OnChangeKeeps ==
  ASSUME ControlInv, NEW s, snap' = s, OnChange(s)
  PROVE  LimitsAgree' /\ IsConfig(live') /\ IsGate(gate')
<1> DEFINE a == CapsApplied(live, gate, s, s.hard, s.soft)
<1>1. live' = a.live /\ gate' = a.gate /\ syncRateLimiter(a.live, s)
  BY DEF OnChange
<1>2. IsConfig(live) /\ IsGate(gate)
  BY ControlFacts
<1>3. /\ IsConfig(a.live) /\ a.live.rate = live.rate /\ a.live.never = live.never
      /\ IsGate(a.gate) /\ a.gate.hard = a.live.hard /\ a.gate.limit = LimitFor(a.live, s)
  BY <1>2, CapsAppliedAgree
<1> HIDE DEF a
<1>4. GateAgrees'
  BY <1>1, <1>3, GateAgreesIf
<1>5. LimiterFollowsConfig'
  <2>1. LimiterFollowsConfig
    BY DEF ControlInv, LimitsAgree
  <2> QED
    BY <1>1, <1>3, <2>1, SyncFollows
<1> QED
  BY <1>1, <1>3, <1>4, <1>5 DEF LimitsAgree

\* A reload: only the fields that changed in the file are applied, and the
\* limit and the limiter are computed anew whenever one of theirs is.
LEMMA ReloadKeeps ==
  ASSUME ControlInv, NEW raw, IsConfig(raw), ReloadConfig(raw), UNCHANGED snap
  PROVE  LimitsAgree' /\ IsConfig(live') /\ IsConfig(lastRaw') /\ IsGate(gate')
<1> DEFINE applied == {f \in Field : raw[f] # lastRaw[f]}
           cfg == [f \in Field |-> IF f \in applied THEN raw[f] ELSE live[f]]
           g1 == IF "hard" \in applied THEN setHardCap(gate, cfg.hard) ELSE gate
           g2 == IF "soft" \in applied THEN setSoftLimit(g1, cfg.soft) ELSE g1
<1>1. /\ live' = cfg /\ lastRaw' = raw
      /\ gate' = IF applied \cap {"useHard", "hard", "soft"} = {} THEN g2
                 ELSE applyEffectiveLimit(g2, cfg, getSnapshot(snap))
      /\ IF applied \cap {"rate", "reqUseHard", "never"} = {} THEN UNCHANGED <<limiter, lastRate>>
         ELSE limiter' = createRateLimiter(cfg, getSnapshot(snap)) /\ lastRate' = None
  BY DEF ReloadConfig
<1>2. /\ IsConfig(live) /\ IsGate(gate) /\ gate.hard = live.hard
      /\ snap # NoSnap => gate.limit = LimitFor(live, snap)
  BY ControlFacts
<1>3. IsConfig(cfg) /\ \A f \in Field \ applied : cfg[f] = live[f]
  BY DEF IsConfig
<1>4. IsGate(g2) /\ g2.hard = cfg.hard
  <2>1. IsGate(g1) /\ g1.hard = cfg.hard
    <3>1. CASE "hard" \in applied
      BY <1>2, <3>1, CapsSet
    <3>2. CASE "hard" \notin applied
      BY <1>2, <1>3, <3>2 DEF Field
    <3> QED
      BY <3>1, <3>2
  <2> HIDE DEF g1, cfg, applied
  <2>2. IsGate(setSoftLimit(g1, cfg.soft)) /\ setSoftLimit(g1, cfg.soft).hard = g1.hard
    BY <2>1, CapsSet
  <2> QED
    BY <2>1, <2>2
<1>5. IsGate(gate') /\ gate'.hard = live'.hard
      /\ (snap' # NoSnap => gate'.limit = LimitFor(live', snap'))
  <2>1. CASE applied \cap {"useHard", "hard", "soft"} = {}
    <3>1. /\ cfg["useHard"] = live["useHard"] /\ cfg["hard"] = live["hard"]
          /\ cfg["soft"] = live["soft"] /\ g2 = gate
      BY <1>3, <2>1 DEF Field
    <3>2. LimitFor(cfg, snap) = LimitFor(live, snap)
      BY <3>1 DEF LimitFor, EffectiveLimit
    <3> QED
      BY <1>1, <1>2, <1>4, <2>1, <3>1, <3>2
  <2>2. CASE applied \cap {"useHard", "hard", "soft"} # {}
    <3> HIDE DEF g2, cfg, applied
    <3>1. /\ IsGate(gate') /\ gate'.hard = cfg.hard
          /\ gate'.limit = LimitFor(cfg, getSnapshot(snap))
      BY <1>1, <1>4, <2>2, AppliedLimit
    <3> QED
      BY <1>1, <3>1 DEF getSnapshot
  <2> QED
    BY <2>1, <2>2
<1>6. LimiterFollowsConfig'
  <2>1. CASE applied \cap {"rate", "reqUseHard", "never"} = {}
    <3>1. cfg["rate"] = live["rate"] /\ cfg["never"] = live["never"]
      BY <1>3, <2>1 DEF Field
    <3>2. limiter' = limiter /\ LimiterFollowsConfig
      BY <1>1, <2>1 DEF ControlInv, LimitsAgree
    <3> HIDE DEF cfg
    <3> QED
      BY <1>1, <3>1, <3>2 DEF LimiterFollowsConfig
  <2>2. CASE applied \cap {"rate", "reqUseHard", "never"} # {}
    <3> HIDE DEF cfg, applied
    <3> QED
      BY <1>1, <2>2, CreatedFollows DEF LimiterFollowsConfig
  <2> QED
    BY <2>1, <2>2
<1> HIDE DEF cfg
<1> QED
  BY <1>1, <1>3, <1>5, <1>6, GateAgreesIf DEF LimitsAgree

-----------------------------------------------------------------------------
\* The tab: an edit touches the field it changes, and a load leaves no field
\* that differs.
LEMMA TabEditKeeps == TabInv /\ TabEdit => TabInv'
<1> SUFFICES ASSUME TabInv, NEW f \in Field, NEW v,
                    tab' = [tab EXCEPT !.draft[f] = v, !.touched = @ \cup {f}]
             PROVE  TabInv'
  BY DEF TabEdit
<1>1. tab = [base |-> tab.base, draft |-> tab.draft, pc |-> tab.pc, touched |-> tab.touched]
      /\ IsConfig(tab.draft) /\ IsConfig(tab.base)
  BY DEF TabInv
<1> DEFINE e == [tab.draft EXCEPT ![f] = v]
           u == tab.touched \cup {f}
<1>2. tab' = [[tab EXCEPT !.draft = e] EXCEPT !.touched = u]
  BY <1>1
<1>3. tab' = [base |-> tab.base, draft |-> [tab.draft EXCEPT ![f] = v], pc |-> tab.pc,
              touched |-> tab.touched \cup {f}]
  <2>1. [tab EXCEPT !.draft = e]
        = [base |-> tab.base, draft |-> e, pc |-> tab.pc, touched |-> tab.touched]
    BY <1>1
  <2>2. [[base |-> tab.base, draft |-> e, pc |-> tab.pc, touched |-> tab.touched]
            EXCEPT !.touched = u]
        = [base |-> tab.base, draft |-> e, pc |-> tab.pc, touched |-> u]
    OBVIOUS
  <2> QED
    BY <1>2, <2>1, <2>2
<1>4. IsConfig([tab.draft EXCEPT ![f] = v])
      /\ \A g \in Field : [tab.draft EXCEPT ![f] = v][g] = IF g = f THEN v ELSE tab.draft[g]
  BY <1>1 DEF IsConfig
<1>5. \A g \in Field : tab.draft[g] # tab.base[g] => g \in tab.touched
  BY DEF TabInv
<1> QED
  BY <1>1, <1>3, <1>4, <1>5 DEF TabInv

\* Sending the draft, and hearing of it, changes neither draft nor base.
LEMMA TabPcKeeps ==
  ASSUME TabInv, NEW p, tab' = [tab EXCEPT !.pc = p]
  PROVE  TabInv' /\ tab'.pc = p
<1>1. tab = [base |-> tab.base, draft |-> tab.draft, pc |-> tab.pc, touched |-> tab.touched]
  BY DEF TabInv
<1>2. \A b, d, q, t : tab = [base |-> b, draft |-> d, pc |-> q, touched |-> t]
         => tab' = [base |-> b, draft |-> d, pc |-> p, touched |-> t]
  OBVIOUS
<1>3. tab' = [base |-> tab.base, draft |-> tab.draft, pc |-> p, touched |-> tab.touched]
  BY <1>1, <1>2
<1> QED
  BY <1>3 DEF TabInv

\* Reverting: the draft is the base again and nothing is touched.
LEMMA TabRevertsKeeps == TabInv /\ TabReverts => TabInv'
<1> SUFFICES ASSUME TabInv, tab' = [tab EXCEPT !.draft = tab.base, !.touched = {}] PROVE TabInv'
  BY DEF TabReverts
<1>1. tab = [base |-> tab.base, draft |-> tab.draft, pc |-> tab.pc, touched |-> tab.touched]
  BY DEF TabInv
<1>2. [tab EXCEPT !.draft = tab.base]
        = [base |-> tab.base, draft |-> tab.base, pc |-> tab.pc, touched |-> tab.touched]
  BY <1>1
<1>3. tab' = [base |-> tab.base, draft |-> tab.base, pc |-> tab.pc, touched |-> {}]
  <2>1. [[base |-> tab.base, draft |-> tab.base, pc |-> tab.pc, touched |-> tab.touched]
            EXCEPT !.touched = {}]
        = [base |-> tab.base, draft |-> tab.base, pc |-> tab.pc, touched |-> {}]
    OBVIOUS
  <2> QED
    BY <1>2, <2>1
<1> QED
  BY <1>3 DEF TabInv

\* A fresh configuration is both draft and base.
LEMMA TabLoadsKeeps == IsConfig(file) /\ TabLoads => TabInv'
BY DEF TabLoads, TabInv

\* A write of the file leaves all fields there.
LEMMA SavedFile ==
  ASSUME IsConfig(file), NEW patch, NEW ok \in BOOLEAN, saveConfigLocked(patch, ok)
  PROVE  /\ IsConfig(file')
         /\ \A f \in Field : file'[f] # file[f] => f \in DOMAIN patch
BY DEF saveConfigLocked, IsConfig

-----------------------------------------------------------------------------
\* The limits agree still when none of what they relate changes.
LEMMA SameLimits ==
  ASSUME LimitsAgree, UNCHANGED <<snap, live, gate, limiter>>
  PROVE  LimitsAgree'
BY DEF LimitsAgree, GateAgrees, LimiterFollowsConfig

\* The answer of a poll, or its failure.
LEMMA PollKeeps ==
  ASSUME ControlInv, PollApplies \/ PollFails
  PROVE  ControlInv'
<1>1. UNCHANGED <<refresh, file, lastRaw, tab>>
  BY DEF PollApplies, PollFails
<1>2. LimitsAgree' /\ IsConfig(live') /\ IsGate(gate')
  <2>1. CASE PollApplies
    <3>1. snap' = buildSnapshot(poll) /\ OnChange(buildSnapshot(poll))
      BY <2>1 DEF PollApplies, applySnapshot
    <3> QED
      BY <3>1, OnChangeKeeps
  <2>2. CASE PollFails /\ snap = NoSnap
    <3>1. UNCHANGED <<snap, live, gate, limiter>>
      BY <2>2 DEF PollFails
    <3> QED
      BY <3>1, SameLimits DEF ControlInv, ConfigsOK, IsGate
  <2>3. CASE PollFails /\ snap # NoSnap
    <3> DEFINE s == [snap EXCEPT !.low = FALSE]
    <3>1. snap' = s /\ OnChange(s)
      BY <2>3 DEF PollFails
    <3> HIDE DEF s
    <3> QED
      BY <3>1, OnChangeKeeps
  <2> QED
    BY <2>1, <2>2, <2>3
<1> QED
  BY <1>1, <1>2 DEF ControlInv, ConfigsOK, CallsOK, TabInv, IsGate

\* The first answer of refreshLimits(): the caps are saved, or not, and applied.
LEMMA RefreshCapsKeeps ==
  ASSUME ControlInv, NEW c \in Call, RefreshCaps(c)
  PROVE  ControlInv'
<1> DEFINE got == fetchConcurrencyLimits(refresh[c].got)
           s == getSnapshot(snap)
           a == CapsApplied(live, gate, s, got.hard, got.soft)
<1>1. /\ live' = a.live /\ gate' = a.gate /\ UNCHANGED <<snap, lastRaw, limiter, tab>>
      /\ refresh' = [refresh EXCEPT ![c] = [NoCall EXCEPT !.pc = "requests"]]
  BY DEF RefreshCaps
<1>2. IsConfig(file')
  <2>1. PICK ok \in BOOLEAN : saveConfigLocked([hard |-> got.hard, soft |-> got.soft], ok)
    BY DEF RefreshCaps
  <2> QED
    BY <2>1, ControlFacts, SavedFile
<1>3. CallsOK'
  BY <1>1 DEF ControlInv, ConfigsOK, CallsOK, NoCall
<1>4. IsConfig(live) /\ IsGate(gate)
  BY ControlFacts
<1> HIDE DEF got, s
<1>5. /\ IsConfig(a.live) /\ a.live.rate = live.rate /\ a.live.never = live.never
      /\ IsGate(a.gate) /\ a.gate.hard = a.live.hard /\ a.gate.limit = LimitFor(a.live, s)
  BY <1>4, CapsAppliedAgree
<1> HIDE DEF a
<1>6. GateAgrees'
  <2>1. snap' # NoSnap => s = snap'
    BY <1>1 DEF s, getSnapshot
  <2> QED
    BY <1>1, <1>5, <2>1, GateAgreesIf
<1>7. LimiterFollowsConfig'
  BY <1>1, <1>5 DEF ControlInv, LimitsAgree, LimiterFollowsConfig
<1> QED
  BY <1>1, <1>2, <1>3, <1>5, <1>6, <1>7
  DEF ControlInv, ConfigsOK, CallsOK, TabInv, LimitsAgree, IsGate

\* The second answer: the limiter is replaced, or turned off with the rate.
LEMMA RefreshRequestsKeeps ==
  ASSUME ControlInv, NEW c \in Call, RefreshRequests(c)
  PROVE  ControlInv'
<1> DEFINE got == refresh[c].got
<1>1. /\ refresh' = [refresh EXCEPT ![c] = NoCall] /\ UNCHANGED <<snap, lastRaw, gate, tab>>
      /\ \/ /\ file' = [file EXCEPT !.rate = Unlimited] /\ live' = [live EXCEPT !.rate = Unlimited]
            /\ limiter' = None
         \/ UNCHANGED <<file, live>> /\ (limiter' = createRateLimiter(live, got) \/ limiter' = limiter)
  BY DEF RefreshRequests
<1>2. CallsOK'
  BY <1>1 DEF ControlInv, ConfigsOK, CallsOK, NoCall
<1>3. /\ IsConfig(file) /\ IsConfig(live) /\ gate.hard = live.hard /\ IsGate(gate)
      /\ snap # NoSnap => gate.limit = LimitFor(live, snap)
  BY ControlFacts
<1>4. CASE /\ file' = [file EXCEPT !.rate = Unlimited] /\ live' = [live EXCEPT !.rate = Unlimited]
           /\ limiter' = None
  <2>1. /\ IsConfig(file') /\ IsConfig(live') /\ live'.rate = Unlimited
        /\ live'.hard = live.hard /\ live'.soft = live.soft /\ live'.useHard = live.useHard
    BY <1>3, <1>4 DEF IsConfig, Field
  <2>2. LimitFor(live', snap) = LimitFor(live, snap)
    BY <2>1 DEF LimitFor, EffectiveLimit
  <2>3. GateAgrees'
    <3>1. gate'.hard = live'.hard /\ IsGate(gate')
      BY <1>1, <1>3, <2>1
    <3>2. snap' # NoSnap => gate'.limit = LimitFor(live', snap')
      BY <1>1, <1>3, <2>2
    <3> QED
      BY <3>1, <3>2, GateAgreesIf
  <2>4. LimiterFollowsConfig'
    BY <1>4, <2>1 DEF LimiterFollowsConfig, Unlimited
  <2> QED
    BY <1>1, <1>2, <2>1, <2>3, <2>4 DEF ControlInv, ConfigsOK, CallsOK, TabInv, LimitsAgree
<1>5. CASE UNCHANGED <<file, live>> /\ (limiter' = createRateLimiter(live, got) \/ limiter' = limiter)
  <2>1. LimiterFollowsConfig'
    <3>1. LimiterFollowsConfig
      BY DEF ControlInv, LimitsAgree
    <3> HIDE DEF got
    <3>2. /\ live.never \/ live.rate = Unlimited => createRateLimiter(live, got) = None
          /\ live.rate > 0 /\ ~live.never => createRateLimiter(live, got) = live.rate
      BY CreatedFollows
    <3> QED
      BY <1>5, <3>1, <3>2 DEF LimiterFollowsConfig
  <2>2. GateAgrees'
    BY <1>1, <1>5 DEF ControlInv, LimitsAgree, GateAgrees
  <2> QED
    BY <1>1, <1>2, <1>5, <2>1, <2>2 DEF ControlInv, ConfigsOK, CallsOK, TabInv, LimitsAgree
<1> QED
  BY <1>1, <1>4, <1>5

\* What the tab sends: a reset (with its reload) and a reload.
LEMMA TabAppliesKeeps ==
  ASSUME ControlInv, TabReloads \/ \E c \in Call : TabResets(c)
  PROVE  ControlInv'
<1>1. CASE TabReloads
  <2>1. /\ ReloadConfig(file) /\ UNCHANGED <<file, snap, refresh>>
        /\ tab' = [tab EXCEPT !.pc = "reloaded"]
    BY <1>1 DEF TabReloads, PostReload
  <2>2. LimitsAgree' /\ IsConfig(live') /\ IsConfig(lastRaw') /\ IsGate(gate')
    BY <2>1, ControlFacts, ReloadKeeps
  <2>3. TabInv'
    BY <2>1, TabPcKeeps DEF ControlInv
  <2> QED
    BY <2>1, <2>2, <2>3 DEF ControlInv, ConfigsOK, CallsOK, IsGate
<1>2. ASSUME NEW c \in Call, TabResets(c) PROVE ControlInv'
  <2>1. /\ file' = DEFAULT_CONFIG /\ ReloadConfig(DEFAULT_CONFIG) /\ UNCHANGED snap
        /\ refresh' = [refresh EXCEPT ![c].pc = "caps"]
        /\ tab' = [tab EXCEPT !.pc = "waiting"]
    BY <1>2 DEF TabResets, PostReset, resetConfig, RefreshStarts
  <2>2. IsConfig(DEFAULT_CONFIG)
    BY ControlAssumption
  <2>3. LimitsAgree' /\ IsConfig(live') /\ IsConfig(lastRaw') /\ IsGate(gate')
    BY <2>1, <2>2, ReloadKeeps
  <2>4. TabInv'
    BY <2>1, TabPcKeeps DEF ControlInv
  <2>5. CallsOK'
    BY <2>1 DEF ControlInv, ConfigsOK, CallsOK
  <2> QED
    BY <2>1, <2>2, <2>3, <2>4, <2>5 DEF ControlInv, ConfigsOK, CallsOK, IsGate
<1> QED
  BY <1>1, <1>2

\* The process starts again from the file.
LEMMA RestartKeeps ==
  ASSUME ControlInv, NEW c \in Call, Restart(c)
  PROVE  ControlInv'
<1>1. /\ lastRaw' = file /\ live' = file /\ gate' = NewGate(file) /\ file' = file
      /\ limiter' = createRateLimiter(file, failSafeSnapshot) /\ snap' = NoSnap
      /\ refresh' = [k \in Call |-> IF k = c THEN [NoCall EXCEPT !.pc = "caps"] ELSE NoCall]
      /\ tab' = [tab EXCEPT !.pc = "idle"]
  BY DEF Restart
<1>2. IsConfig(file)
  BY ControlFacts
<1>3. CallsOK'
  BY <1>1 DEF CallsOK, NoCall
<1>4. TabInv'
  BY <1>1, TabPcKeeps DEF ControlInv
<1>5. GateAgrees'
  BY <1>1 DEF GateAgrees, NewGate
<1>6. LimiterFollowsConfig'
  BY <1>1, CreatedFollows DEF LimiterFollowsConfig
<1>7. gate' = [hard |-> gate'.hard, soft |-> gate'.soft, limit |-> gate'.limit]
  BY <1>1 DEF NewGate
<1> QED
  BY <1>1, <1>2, <1>3, <1>4, <1>5, <1>6, <1>7 DEF ControlInv, ConfigsOK, CallsOK, LimitsAgree

\* The save of the tab writes the file only, and only what was touched.
LEMMA TabSavesKeeps ==
  ASSUME ControlInv, TabSaves
  PROVE  /\ ControlInv'
         /\ \A f \in Field : file'[f] # file[f] => f \in tab.touched
<1> DEFINE patch == [f \in Dirty |-> tab.draft[f]]
<1>1. PICK ok \in BOOLEAN : /\ saveConfigLocked(patch, ok)
                            /\ tab' = IF ok THEN [tab EXCEPT !.pc = "saved"] ELSE tab
  BY DEF TabSaves, PostConfig
<1>2. UNCHANGED <<snap, refresh, lastRaw, live, gate, limiter>>
  BY DEF TabSaves
<1>3. /\ IsConfig(file') /\ \A f \in Field : file'[f] # file[f] => f \in Dirty
  <2>1. DOMAIN patch = Dirty
    OBVIOUS
  <2> HIDE DEF patch
  <2>2. IsConfig(file') /\ \A f \in Field : file'[f] # file[f] => f \in DOMAIN patch
    BY <1>1, ControlFacts, SavedFile
  <2> QED
    BY <2>1, <2>2
<1>4. TabInv'
  BY <1>1, TabPcKeeps DEF ControlInv, TabInv
<1>5. LimitsAgree'
  BY <1>2, SameLimits DEF ControlInv
<1> QED
  BY <1>2, <1>3, <1>4, <1>5 DEF ControlInv, ConfigsOK, CallsOK, TabInv, Dirty

\* Every step keeps the invariant.
LEMMA ControlStep == ControlInv /\ [Next]_vars => ControlInv'
<1> SUFFICES ASSUME ControlInv, [Next]_vars PROVE ControlInv'
  OBVIOUS
<1>0. LimitsAgree /\ TabInv /\ ConfigsOK /\ CallsOK
  BY DEF ControlInv, ConfigsOK, CallsOK
<1>1. CASE UNCHANGED vars
  BY <1>0, <1>1, SameLimits DEF vars, ControlInv, ConfigsOK, CallsOK, TabInv
<1>2. CASE UpstreamChanges \/ PollAnswered
  <2>1. UNCHANGED <<snap, refresh, file, lastRaw, live, gate, limiter, tab>>
    BY <1>2 DEF UpstreamChanges, PollAnswered
  <2> QED
    BY <1>0, <2>1, SameLimits DEF ControlInv, ConfigsOK, CallsOK, TabInv
<1>3. CASE PollApplies \/ PollFails
  BY <1>3, PollKeeps
<1>4. ASSUME NEW c \in Call, RefreshAnswered(c) \/ RefreshFails(c) PROVE ControlInv'
  <2>1. /\ UNCHANGED <<snap, file, lastRaw, live, gate, limiter, tab>>
        /\ \/ refresh' = [refresh EXCEPT ![c].got = up]
           \/ refresh' = [refresh EXCEPT ![c] = NoCall]
    BY <1>4 DEF RefreshAnswered, RefreshFails
  <2>2. CallsOK'
    BY <1>0, <2>1 DEF CallsOK, NoCall
  <2> QED
    BY <1>0, <2>1, <2>2, SameLimits DEF ControlInv, ConfigsOK, CallsOK, TabInv
<1>5. ASSUME NEW c \in Call, RefreshCaps(c) PROVE ControlInv'
  BY <1>5, RefreshCapsKeeps
<1>6. ASSUME NEW c \in Call, RefreshRequests(c) PROVE ControlInv'
  BY <1>6, RefreshRequestsKeeps
<1>7. ASSUME NEW c \in Call, TabRefreshes(c) PROVE ControlInv'
  <2>1. /\ UNCHANGED <<snap, file, lastRaw, live, gate, limiter>>
        /\ refresh' = [refresh EXCEPT ![c].pc = "caps"]
        /\ tab' = [tab EXCEPT !.pc = "waiting"]
    BY <1>7 DEF TabRefreshes, RefreshStarts
  <2>2. CallsOK'
    BY <1>0, <2>1 DEF CallsOK
  <2>3. TabInv'
    BY <1>0, <2>1, TabPcKeeps
  <2> QED
    BY <1>0, <2>1, <2>2, <2>3, SameLimits DEF ControlInv, ConfigsOK, CallsOK
<1>8. CASE TabReloads \/ \E c \in Call : TabResets(c)
  BY <1>8, TabAppliesKeeps
<1>9. ASSUME NEW c \in Call, Restart(c) PROVE ControlInv'
  BY <1>9, RestartKeeps
<1>10. CASE TabEdit \/ TabReverts \/ TabLoads \/ TabAnswered
  <2>1. UNCHANGED <<snap, refresh, file, lastRaw, live, gate, limiter>>
    BY <1>10 DEF TabEdit, TabReverts, TabLoads, TabAnswered
  <2>2. TabInv'
    <3>1. CASE TabAnswered
      <4>1. tab' = [tab EXCEPT !.pc = "refreshed"]
        BY <3>1 DEF TabAnswered
      <4> QED
        BY <1>0, <4>1, TabPcKeeps
    <3> QED
      BY <1>0, <1>10, <3>1, TabEditKeeps, TabRevertsKeeps, TabLoadsKeeps DEF ConfigsOK, CallsOK
  <2> QED
    BY <1>0, <2>1, <2>2, SameLimits DEF ControlInv, ConfigsOK, CallsOK
<1>11. CASE TabSaves
  BY <1>11, TabSavesKeeps
<1> QED
  BY <1>1, <1>2, <1>3, <1>4, <1>5, <1>6, <1>7, <1>8, <1>9, <1>10, <1>11 DEF Next

-----------------------------------------------------------------------------
\* In every state the gate runs with the caps and the limit that the running
\* configuration and the last snapshot give, and the request limiter is the one
\* the running configuration asks for, whichever of a poll, an overlapping
\* refresh, a reload, a reset or a failed poll came last (index.ts:
\* applyEffectiveLimit, syncRateLimiter, applyLimitsFromSource).
THEOREM LimitsCorrect == Spec => []LimitsAgree
<1>1. ControlInv => LimitsAgree
  BY DEF ControlInv
<1> QED
  BY <1>1, ControlInit, ControlStep, PTL DEF Spec

\* A save in the tab never changes a field of config.json the user left alone,
\* whatever a refresh wrote there since the tab was loaded (handleSave,
\* dirtyKeys, saveConfigLocked).
THEOREM SavesClobberNothing == Spec => NoClobber
<1> DEFINE Kept == tab.pc = "idle" /\ tab'.pc = "saved" =>
                     \A f \in Field : file'[f] # file[f] => f \in tab.touched
<1>1. ControlInv /\ [Next]_vars => [Kept]_vars
  <2> SUFFICES ASSUME ControlInv, Next, tab.pc = "idle", tab'.pc = "saved"
               PROVE  \A f \in Field : file'[f] # file[f] => f \in tab.touched
    OBVIOUS
  <2>1. TabInv
    BY DEF ControlInv
  <2>2. CASE TabSaves
    BY <2>2, TabSavesKeeps
  <2>3. CASE tab' = tab
    BY <2>3
  <2>4. ASSUME NEW p, p # "saved", tab' = [tab EXCEPT !.pc = p] PROVE FALSE
    BY <2>1, <2>4, TabPcKeeps
  <2>5. CASE TabEdit
    <3>1. PICK f \in Field : \E v \in Offered(f) \ {tab.draft[f]} :
            tab' = [tab EXCEPT !.draft[f] = v, !.touched = @ \cup {f}]
      BY <2>5 DEF TabEdit
    <3> QED
      BY <2>1, <3>1 DEF TabInv
  <2>6. CASE TabReverts
    BY <2>1, <2>6 DEF TabReverts, TabInv
  <2>7. CASE TabLoads
    BY <2>7 DEF TabLoads
  <2>8. CASE TabReloads \/ TabAnswered \/ \E c \in Call : TabRefreshes(c) \/ TabResets(c) \/ Restart(c)
    BY <2>4, <2>8 DEF TabReloads, TabAnswered, TabRefreshes, TabResets, Restart
  <2>9. CASE \/ UpstreamChanges \/ PollAnswered \/ PollApplies \/ PollFails
             \/ \E c \in Call : \/ RefreshAnswered(c) \/ RefreshCaps(c) \/ RefreshRequests(c)
                                \/ RefreshFails(c)
    <3>1. tab' = tab
      BY <2>9 DEF UpstreamChanges, PollAnswered, PollApplies, PollFails, RefreshAnswered,
                  RefreshCaps, RefreshRequests, RefreshFails
    <3> QED
      BY <2>3, <3>1
  <2> QED
    BY <2>2, <2>5, <2>6, <2>7, <2>8, <2>9 DEF Next
<1> QED
  BY <1>1, ControlInit, ControlStep, PTL DEF Spec, NoClobber
=============================================================================
