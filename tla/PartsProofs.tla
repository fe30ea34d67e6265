----------------------------- MODULE PartsProofs -----------------------------
(***************************************************************************)
(* Proofs about small parts that MCParts checks in one run: the state      *)
(* machines of Economics, RewriteIds, UsageEvents, UsageHistory and Feed,  *)
(* and the request bodies of Stamping.                                     *)
(***************************************************************************)
EXTENDS Economics, RewriteIds, UsageEvents, UsageHistory, Stamping, Feed, SequenceLemmas,
        FiniteSetTheorems, TLAPS

(***************************************************************************)
(* Economics, for all models, days, seeds, prices and numbers of requests. *)
(***************************************************************************)
Usage == [req: Nat, in: Int, cr: Int, cost: Int, known: {0, 1}]

EconTypeOK ==
  /\ \A m \in Models : /\ pricing[m].in \in Int /\ pricing[m].cr \in Int
                       /\ pricing[m].known \in {-1, 0, 1}
  /\ daily \in [Days -> [Models -> Usage]]
  /\ unpriced \in [Days -> [Models -> Nat]]
  /\ pc \in {"down", "backfill", "up"}
  /\ mode \in Mode

\* A row without requests has none at no price, and while captures are accounted
\* no model with a price has any: the backfill came before the first of them.
\* The second part fails when a second connection accounts captures between the
\* two transactions, or when the backfill does, hence the condition.
PricedInv ==
  ~mode.useWorker /\ ~mode.txFails =>
    \A d \in Days, m \in Models :
      /\ daily[d][m].known = 1 => unpriced[d][m] = 0
      /\ daily[d][m].req = 0 => unpriced[d][m] = 0
      /\ pc = "up" /\ HasPricing(m) => unpriced[d][m] = 0

EconInv == EconTypeOK /\ PricedInv

\* accountCapturesUsage().
LEMMA AccountStep ==
  ASSUME EconInv, NEW d \in Days, NEW m \in Models, NEW u \in Usages, Account(d, m, u)
  PROVE  EconInv'
<1> DEFINE r == daily[d][m]
           p == pricing[m]
<1>1. /\ pc = "up" \/ (pc = "backfill" /\ mode.useWorker)
      /\ daily' = [daily EXCEPT ![d][m] = Accounted(@, u, pricing[m])]
      /\ unpriced' = [unpriced EXCEPT ![d][m] = IF HasPricing(m) THEN @ ELSE @ + 1]
      /\ UNCHANGED <<pricing, pc, mode>>
  BY DEF Account
<1>2. r \in Usage /\ p.in \in Int /\ p.cr \in Int /\ u.in \in Nat /\ u.cr \in Nat
      /\ unpriced[d][m] \in Nat /\ p.known \in {-1, 0, 1}
  BY EconomicsAssumption DEF EconInv, EconTypeOK
<1>3. /\ Accounted(r, u, p) \in Usage /\ Accounted(r, u, p).req # 0
      /\ Accounted(r, u, p).known = 1 <=> p.known = 1
  <2>1. u.in * p.in \in Int /\ u.cr * p.cr \in Int
    BY <1>2
  <2> QED
    BY <1>2, <2>1 DEF Accounted, Usage
<1>4. EconTypeOK'
  <2>1. daily' \in [Days -> [Models -> Usage]]
    BY <1>1, <1>3 DEF EconInv, EconTypeOK
  <2>2. unpriced' \in [Days -> [Models -> Nat]]
    BY <1>1, <1>2 DEF EconInv, EconTypeOK
  <2> QED
    BY <1>1, <2>1, <2>2 DEF EconInv, EconTypeOK
<1>5. PricedInv'
  <2> SUFFICES ASSUME ~mode'.useWorker, ~mode'.txFails, NEW e \in Days, NEW n \in Models
               PROVE  /\ daily'[e][n].known = 1 => unpriced'[e][n] = 0
                      /\ daily'[e][n].req = 0 => unpriced'[e][n] = 0
                      /\ pc' = "up" /\ HasPricing(n)' => unpriced'[e][n] = 0
    BY DEF PricedInv
  <2>1. pc = "up" /\ (HasPricing(n)' <=> HasPricing(n))
    BY <1>1 DEF HasPricing
  <2>2. /\ daily[e][n].known = 1 => unpriced[e][n] = 0
        /\ daily[e][n].req = 0 => unpriced[e][n] = 0
        /\ HasPricing(n) => unpriced[e][n] = 0
    BY <1>1, <2>1 DEF EconInv, PricedInv
  <2>3. CASE e = d /\ n = m
    <3>1. daily'[e][n] = Accounted(r, u, p)
          /\ unpriced'[e][n] = IF HasPricing(m) THEN unpriced[d][m] ELSE unpriced[d][m] + 1
      BY <1>1, <2>3 DEF EconInv, EconTypeOK
    <3>2. p.known = 1 => HasPricing(m)
      BY <1>2 DEF HasPricing
    <3> QED
      BY <1>3, <2>1, <2>2, <2>3, <3>1, <3>2
  <2>4. CASE ~(e = d /\ n = m)
    <3>1. daily'[e][n] = daily[e][n] /\ unpriced'[e][n] = unpriced[e][n]
      BY <1>1, <2>4 DEF EconInv, EconTypeOK
    <3> QED
      BY <2>1, <2>2, <3>1
  <2> QED
    BY <2>3, <2>4
<1> QED
  BY <1>4, <1>5 DEF EconInv

\* The first transaction of syncPricing(), and the seed.
LEMMA PricesStep == ASSUME EconInv, SyncPrices \/ Open PROVE EconInv'
<1>1. pc' = "backfill" /\ UNCHANGED <<daily, unpriced, mode>>
  BY DEF SyncPrices, Open, AfterOpen
<1>2. \A m \in Models : /\ pricing'[m].in \in Int /\ pricing'[m].cr \in Int
                        /\ pricing'[m].known \in {-1, 0, 1}
  <2>1. CASE SyncPrices
    <3>1. PICK L \in SUBSET Models, got \in [Models -> ApiPrices] :
            pricing' = [m \in Models |-> IF m \in L THEN Synced(pricing[m], got[m])
                                         ELSE pricing[m]]
      BY <2>1 DEF SyncPrices
    <3>2. ASSUME NEW m \in Models
          PROVE  LET s == Synced(pricing[m], got[m])
                 IN s.in \in Int /\ s.cr \in Int /\ s.known = 1
      <4>0. \A x \in ApiPrices : x \in Int
        <5>1. ApiPrices \subseteq Nat
          BY EconomicsAssumption, Zenon
        <5> QED
          BY ONLY <5>1
      <4>1. got[m] \in Int
        BY <4>0, Zenon
      <4>2. EstimatedCacheRead(got[m]) \in Int
        BY <4>1 DEF EstimatedCacheRead
      <4>3. pricing[m].cr \in Int
        BY DEF EconInv, EconTypeOK
      <4> QED
        BY <4>1, <4>2, <4>3 DEF Synced
    <3> QED
      BY <3>1, <3>2 DEF EconInv, EconTypeOK
  <2>2. CASE Open
    <3>1. pricing' = pricing \/
          pricing' = [m \in Models |-> IF m \in DOMAIN Seed THEN Seed[m] ELSE pricing[m]]
      BY <2>2 DEF Open
    <3> QED
      BY <3>1, EconomicsAssumption DEF EconInv, EconTypeOK
  <2> QED
    BY <2>1, <2>2
<1>3. EconTypeOK'
  BY <1>1, <1>2 DEF EconInv, EconTypeOK
<1>4. PricedInv'
  BY <1>1 DEF EconInv, PricedInv
<1> QED
  BY <1>3, <1>4 DEF EconInv

\* backfillUnpricedDailyUsage().
LEMMA BackfillStep == ASSUME EconInv, Backfill PROVE EconInv'
<1>1. /\ daily' = [d \in Days |-> [m \in Models |->
           IF ToBackfill(daily[d][m], m) THEN Recomputed(daily[d][m], pricing[m])
           ELSE daily[d][m]]]
      /\ unpriced' = [d \in Days |-> [m \in Models |->
           IF ToBackfill(daily[d][m], m) THEN 0 ELSE unpriced[d][m]]]
      /\ pc' = "up" /\ UNCHANGED <<pricing, mode>>
  BY DEF Backfill
<1>2. ASSUME NEW d \in Days, NEW m \in Models
      PROVE  /\ daily[d][m] \in Usage /\ Recomputed(daily[d][m], pricing[m]) \in Usage
             /\ Recomputed(daily[d][m], pricing[m]).req = daily[d][m].req
             /\ unpriced[d][m] \in Nat
  <2>1. /\ daily[d][m] \in Usage /\ pricing[m].in \in Int /\ pricing[m].cr \in Int
        /\ unpriced[d][m] \in Nat
    BY DEF EconInv, EconTypeOK
  <2>2. daily[d][m].in * pricing[m].in + daily[d][m].cr * pricing[m].cr \in Int
    BY <2>1 DEF Usage
  <2> QED
    BY <2>1, <2>2 DEF Recomputed, Usage
<1>3. EconTypeOK'
  <2>1. daily' \in [Days -> [Models -> Usage]]
    BY <1>1, <1>2
  <2>2. unpriced' \in [Days -> [Models -> Nat]]
    BY <1>1, <1>2
  <2> QED
    BY <1>1, <2>1, <2>2 DEF EconInv, EconTypeOK
<1>4. PricedInv'
  <2> SUFFICES ASSUME ~mode'.useWorker, ~mode'.txFails, NEW d \in Days, NEW m \in Models
               PROVE  /\ daily'[d][m].known = 1 => unpriced'[d][m] = 0
                      /\ daily'[d][m].req = 0 => unpriced'[d][m] = 0
                      /\ pc' = "up" /\ HasPricing(m)' => unpriced'[d][m] = 0
    BY DEF PricedInv
  <2>1. HasPricing(m)' <=> HasPricing(m)
    BY <1>1 DEF HasPricing
  <2>2. /\ daily[d][m].known = 1 => unpriced[d][m] = 0
        /\ daily[d][m].req = 0 => unpriced[d][m] = 0
    BY <1>1 DEF EconInv, PricedInv
  <2>3. CASE ToBackfill(daily[d][m], m)
    BY <1>1, <2>3
  <2>4. CASE ~ToBackfill(daily[d][m], m)
    <3>1. daily'[d][m] = daily[d][m] /\ unpriced'[d][m] = unpriced[d][m]
      BY <1>1, <2>4
    <3>2. HasPricing(m) => daily[d][m].known = 1 \/ daily[d][m].req = 0
      BY <1>2, <2>4 DEF ToBackfill, Usage
    <3> QED
      BY <2>1, <2>2, <3>1, <3>2
  <2> QED
    BY <2>3, <2>4
<1> QED
  BY <1>3, <1>4 DEF EconInv

\* Requests that were accumulated at no price are corrected before their row
\* counts as priced, whenever the process stops and starts between the two
\* transactions of syncPricing(), as long as one connection accounts captures
\* and the backfill does not fail.
THEOREM PricedRows == EconInit /\ [][EconNext]_econVars => []KnownIsPriced
<1>1. EconInit => EconInv
  <2> SUFFICES ASSUME EconInit PROVE EconInv
    OBVIOUS
  <2>1. NoUsage \in Usage /\ NoUsage.known = 0
    BY DEF NoUsage, Usage
  <2>2. EconTypeOK
    BY <2>1, EconomicsAssumption DEF EconInit, EconTypeOK, NoPricing
  <2>3. PricedInv
    BY DEF EconInit, PricedInv
  <2> QED
    BY <2>2, <2>3 DEF EconInv
<1>2. EconInv /\ [EconNext]_econVars => EconInv'
  <2> SUFFICES ASSUME EconInv, [EconNext]_econVars PROVE EconInv'
    OBVIOUS
  <2>1. CASE BackfillFails
    <3>1. mode.txFails /\ mode' = mode /\ pc' = "up" /\ UNCHANGED <<pricing, daily, unpriced>>
      BY <2>1 DEF BackfillFails
    <3> QED
      BY <3>1 DEF EconInv, EconTypeOK, PricedInv
  <2>2. CASE Stop
    <3>1. pc' = "down" /\ UNCHANGED <<pricing, daily, unpriced, mode>>
      BY <2>2 DEF Stop
    <3> QED
      BY <3>1 DEF EconInv, EconTypeOK, PricedInv
  <2>3. CASE UNCHANGED econVars
    BY <2>3 DEF EconInv, EconTypeOK, PricedInv, HasPricing, econVars
  <2> QED
    BY <2>1, <2>2, <2>3, AccountStep, PricesStep, BackfillStep DEF EconNext
<1>3. EconInv => KnownIsPriced
  BY DEF EconInv, PricedInv, KnownIsPriced, RowsPriced
<1> QED
  BY <1>1, <1>2, <1>3, PTL

(***************************************************************************)
(* RewriteIds, for every number of concurrent requests, every set of ids   *)
(* and every order of retries, answers and expiries.                       *)
(***************************************************************************)
Session == [salt: Nat, version: Nat, count: Nat, expires: Nat]
Renamed == [orig: ToolId \cup {SessionId}, salt: Nat, version: Nat]

RewriteTypeOK ==
  /\ row \in Session /\ mappings \subseteq Renamed
  /\ calls \in [Request -> [ids: SUBSET Renamed, version: Nat]]
  /\ salts \in Nat /\ clock \in Nat
  /\ row # NoRow => row.version > 0

\* The mappings of a session row s.
BelongTo(maps, s) ==
  /\ \A m \in maps : m.version <= s.version /\ (m.version = s.version => m.salt = s.salt)
  /\ \A m, n \in maps : m.orig = n.orig /\ m.version = n.version => m = n

RewriteInv ==
  /\ RewriteTypeOK
  /\ mappings # {} => row # NoRow
  /\ BelongTo(mappings, row)
  /\ \A r \in Request : \A m, n \in calls[r].ids :
        m.salt = n.salt /\ m.version = calls[r].version

\* getOrCreateSession() returns a session whose mappings belong to it.
LEMMA GotSession ==
  ASSUME RewriteInv
  PROVE  /\ GotOrCreated.row \in Session /\ GotOrCreated.row.version > 0
         /\ GotOrCreated.maps \subseteq Renamed /\ BelongTo(GotOrCreated.maps, GotOrCreated.row)
         /\ GotOrCreated.salts \in Nat
<1>1. /\ row \in Session /\ mappings \subseteq Renamed /\ salts \in Nat /\ clock \in Nat
      /\ Ttl \in Nat /\ BelongTo(mappings, row) /\ (row # NoRow => row.version > 0)
  BY RewriteAssumption DEF RewriteInv, RewriteTypeOK
<1>2. CASE Alive
  <2>1. GotOrCreated = [row |-> [row EXCEPT !.count = @ + 1], maps |-> mappings, salts |-> salts]
        /\ row # NoRow
    BY <1>2 DEF GotOrCreated, Recorded, Alive
  <2>2. /\ GotOrCreated.row \in Session /\ GotOrCreated.row.version = row.version
        /\ GotOrCreated.row.salt = row.salt
    BY <1>1, <2>1 DEF Session
  <2> QED
    BY <1>1, <2>1, <2>2 DEF BelongTo
<1>3. CASE ~Alive
  <2>1. GotOrCreated = [row |-> [salt |-> salts + 1, version |-> 1, count |-> 1,
                                 expires |-> clock + Ttl],
                        maps |-> {}, salts |-> salts + 1]
    BY <1>3 DEF GotOrCreated, Recorded
  <2> QED
    BY <1>1, <2>1 DEF BelongTo, Session
<1> QED
  BY <1>2, <1>3

\* escalate(): the mappings of the old versions still belong to the session.
LEMMA EscalatedSession ==
  ASSUME NEW row0 \in Session, row0.version > 0, NEW maps0 \in SUBSET Renamed, NEW salts0 \in Nat,
         BelongTo(maps0, row0), NEW g, g = [row |-> row0, maps |-> maps0, salts |-> salts0]
  PROVE  /\ Escalated(g).row \in Session /\ Escalated(g).row.version > 0
         /\ Escalated(g).maps = maps0 /\ BelongTo(maps0, Escalated(g).row)
         /\ Escalated(g).salts \in Nat
<1> DEFINE next == [g.row EXCEPT !.salt = g.salts + 1, !.version = @ + 1]
<1>0. g.row = row0 /\ g.maps = maps0 /\ g.salts = salts0
  OBVIOUS
<1>1. Escalated(g).row = next /\ Escalated(g).maps = maps0 /\ Escalated(g).salts = salts0 + 1
  BY <1>0 DEF Escalated
<1>2. /\ Escalated(g).row \in Session /\ Escalated(g).row.version = row0.version + 1
      /\ Escalated(g).row.salt = salts0 + 1 /\ row0.version \in Nat
  <2>1. row0.version \in Nat /\ row0.version + 1 \in Nat /\ salts0 + 1 \in Nat
    BY DEF Session
  <2>2. next \in Session /\ next.version = row0.version + 1 /\ next.salt = salts0 + 1
    BY <1>0, <2>1 DEF Session
  <2> QED
    BY <1>1, <2>1, <2>2
<1>3. \A m \in maps0 : m.version \in Nat
  BY DEF Renamed
<1>4. BelongTo(maps0, Escalated(g).row)
  <2>1. \A m \in maps0 : m.version <= row0.version /\ m.version # row0.version + 1
                         /\ m.version <= row0.version + 1
    BY <1>2, <1>3 DEF BelongTo
  <2> QED
    BY <1>2, <2>1 DEF BelongTo
<1> QED
  BY <1>1, <1>2, <1>4

\* What a retry sends is renamed with the salt and under the version of its
\* session, and the mappings it adds belong to that session.
LEMMA RewrittenIds ==
  ASSUME NEW s \in Session, NEW maps \in SUBSET Renamed, BelongTo(maps, s),
         NEW ids \in SUBSET ToolId
  PROVE  /\ Rewritten(ids, s, maps) \subseteq Renamed
         /\ \A m \in Rewritten(ids, s, maps) : m.salt = s.salt /\ m.version = s.version
         /\ BelongTo(maps \cup Rewritten(ids, s, maps), s)
<1>1. ASSUME NEW id \in ids \cup {SessionId}
      PROVE  LET m == Mapping(id, s, maps)
             IN /\ m \in Renamed /\ m.orig = id /\ m.salt = s.salt /\ m.version = s.version
                /\ \A n \in maps : n.orig = id /\ n.version = s.version => n = m
  <2> DEFINE known == {m \in maps : m.orig = id /\ m.version = s.version}
  <2>1. CASE known = {}
    <3>1. Mapping(id, s, maps) = [orig |-> id, salt |-> s.salt, version |-> s.version]
      BY <2>1 DEF Mapping, deterministicRewrite
    <3>2. \A n \in maps : ~(n.orig = id /\ n.version = s.version)
      BY <2>1
    <3> QED
      BY <3>1, <3>2 DEF Renamed, Session
  <2>2. CASE known # {}
    <3>1. Mapping(id, s, maps) = CHOOSE m \in known : TRUE
      BY <2>2 DEF Mapping
    <3>2. Mapping(id, s, maps) \in known
      BY <2>2, <3>1
    <3> QED
      BY <3>2 DEF BelongTo
  <2> QED
    BY <2>1, <2>2
<1> DEFINE sent == Rewritten(ids, s, maps)
<1>2. \A m \in sent : \E id \in ids \cup {SessionId} : m = Mapping(id, s, maps)
  BY DEF Rewritten
<1> HIDE DEF sent
<1>3. ASSUME NEW m \in sent
      PROVE  /\ m \in Renamed /\ m.salt = s.salt /\ m.version = s.version
             /\ \A n \in maps \cup sent : n.orig = m.orig /\ n.version = m.version => n = m
  <2>1. PICK id \in ids \cup {SessionId} : m = Mapping(id, s, maps)
    BY <1>2
  <2>2. /\ m \in Renamed /\ m.orig = id /\ m.salt = s.salt /\ m.version = s.version
        /\ \A n \in maps : n.orig = id /\ n.version = s.version => n = m
    BY <1>1, <2>1
  <2>3. ASSUME NEW n \in sent, n.orig = m.orig PROVE n = m
    <3>1. PICK other \in ids \cup {SessionId} : n = Mapping(other, s, maps)
      BY <1>2
    <3>2. n.orig = other
      BY <1>1, <3>1
    <3> QED
      BY <2>1, <2>2, <2>3, <3>1, <3>2
  <2> QED
    BY <2>2, <2>3
<1>4. BelongTo(maps \cup sent, s)
  <2>1. \A m \in maps \cup sent : m.version <= s.version /\ (m.version = s.version => m.salt = s.salt)
    <3>1. s.version \in Nat
      BY DEF Session
    <3> QED
      BY <1>3, <3>1 DEF BelongTo
  <2>2. \A m, n \in maps \cup sent : m.orig = n.orig /\ m.version = n.version => m = n
    BY <1>3 DEF BelongTo
  <2> QED
    BY <2>1, <2>2 DEF BelongTo
<1> QED
  BY <1>3, <1>4 DEF sent

\* attemptRewriteRetry() up to its fetch.
LEMMA RetryStep ==
  ASSUME RewriteInv, NEW r \in Request, NEW ids \in SUBSET ToolId, NEW force \in BOOLEAN,
         Retry(r, ids, force)
  PROVE  RewriteInv'
<1> DEFINE got == GotOrCreated
           s == IF force \/ shouldEscalate(got.row.count) THEN Escalated(got) ELSE got
           sent == Rewritten(ids, s.row, s.maps)
<1>1. /\ row' = s.row /\ salts' = s.salts /\ mappings' = s.maps \cup sent
      /\ calls' = [calls EXCEPT ![r] = [ids |-> sent, version |-> s.row.version]]
      /\ clock' = clock
  BY DEF Retry
<1>2. /\ got.row \in Session /\ got.row.version > 0
      /\ got.maps \subseteq Renamed /\ BelongTo(got.maps, got.row) /\ got.salts \in Nat
      /\ got = [row |-> got.row, maps |-> got.maps, salts |-> got.salts]
  <2>1. got = [row |-> got.row, maps |-> got.maps, salts |-> got.salts]
    BY DEF GotOrCreated
  <2> QED
    BY <2>1, GotSession
<1> HIDE DEF got
<1>3. /\ s.row \in Session /\ s.row.version > 0 /\ s.maps \in SUBSET Renamed
      /\ BelongTo(s.maps, s.row) /\ s.salts \in Nat
  <2>1. CASE force \/ shouldEscalate(got.row.count)
    <3>1. s = Escalated(got)
      BY <2>1
    <3> QED
      BY <1>2, <3>1, EscalatedSession
  <2>2. CASE ~(force \/ shouldEscalate(got.row.count))
    <3>1. s = got
      BY <2>2
    <3> QED
      BY <1>2, <3>1
  <2> QED
    BY <2>1, <2>2
<1> HIDE DEF s
<1>4. /\ sent \subseteq Renamed /\ \A m \in sent : m.salt = s.row.salt /\ m.version = s.row.version
      /\ BelongTo(s.maps \cup sent, s.row)
  BY <1>3, RewrittenIds
<1> HIDE DEF sent
<1>5. row' # NoRow
  BY <1>1, <1>3 DEF NoRow
<1>6. calls \in [Request -> [ids: SUBSET Renamed, version: Nat]]
  BY DEF RewriteInv, RewriteTypeOK
<1>7. calls' \in [Request -> [ids: SUBSET Renamed, version: Nat]]
  <2>1. s.row.version \in Nat
    BY <1>3 DEF Session
  <2> QED
    BY <1>1, <1>4, <1>6, <2>1
<1>8. RewriteTypeOK'
  BY <1>1, <1>3, <1>4, <1>7 DEF RewriteInv, RewriteTypeOK
<1>9. ASSUME NEW q \in Request, NEW m \in calls'[q].ids, NEW n \in calls'[q].ids
      PROVE  m.salt = n.salt /\ m.version = calls'[q].version
  <2>1. CASE q = r
    <3>1. calls'[q].ids = sent /\ calls'[q].version = s.row.version
      BY <1>1, <1>6, <2>1
    <3> QED
      BY <1>4, <3>1
  <2>2. CASE q # r
    <3>1. calls'[q] = calls[q]
      BY <1>1, <1>6, <2>2
    <3> QED
      BY <3>1 DEF RewriteInv
  <2> QED
    BY <2>1, <2>2
<1> QED
  BY <1>1, <1>4, <1>5, <1>8, <1>9 DEF RewriteInv

\* The end of a retry, and an expiry: the session stays as it is, or is cleared
\* with its mappings.
LEMMA EndStep ==
  ASSUME RewriteInv,
         \/ \E r \in Request : RetrySucceeds(r) \/ RetryFails(r)
         \/ Prune \/ Tick \/ UNCHANGED rewriteVars
  PROVE  RewriteInv'
<1>1. /\ UNCHANGED <<row, mappings>> \/ (row' = NoRow /\ mappings' = {})
      /\ calls' = calls \/ \E r \in Request : calls' = [calls EXCEPT ![r] = NoCall]
      /\ salts' = salts /\ (clock' = clock \/ clock' = clock + 1)
  BY DEF RetrySucceeds, RetryFails, Prune, Tick, Cleared, rewriteVars
<1>2. row' \in Session /\ mappings' \subseteq Renamed /\ (row' # NoRow => row'.version > 0)
      /\ (mappings' # {} => row' # NoRow) /\ BelongTo(mappings', row')
  <2>1. NoRow \in Session
    BY DEF NoRow, Session
  <2> QED
    BY <1>1, <2>1 DEF RewriteInv, RewriteTypeOK, BelongTo
<1>3. /\ calls' \in [Request -> [ids: SUBSET Renamed, version: Nat]]
      /\ \A q \in Request : \A m, n \in calls'[q].ids :
            m.salt = n.salt /\ m.version = calls'[q].version
  <2>1. CASE calls' = calls
    BY <2>1 DEF RewriteInv, RewriteTypeOK
  <2>2. ASSUME NEW r \in Request, calls' = [calls EXCEPT ![r] = NoCall]
        PROVE  <1>3!1 /\ <1>3!2
    <3>1. NoCall \in [ids: SUBSET Renamed, version: Nat] /\ NoCall.ids = {}
      BY DEF NoCall
    <3> QED
      BY <2>2, <3>1 DEF RewriteInv, RewriteTypeOK
  <2> QED
    BY <1>1, <2>1, <2>2
<1>4. RewriteTypeOK'
  BY <1>1, <1>2, <1>3 DEF RewriteInv, RewriteTypeOK
<1> QED
  BY <1>2, <1>3, <1>4 DEF RewriteInv, BelongTo

\* A retry never reuses a mapping of an earlier life of its session, of another
\* version or of a request that was overtaken; the ids of a request are renamed
\* with one salt, and no mapping outlives its session.
THEOREM FreshMappings == RewriteInit /\ [][RewriteNext]_rewriteVars => []MappingsFresh
<1>1. RewriteInit => RewriteInv
  <2> SUFFICES ASSUME RewriteInit PROVE RewriteInv
    OBVIOUS
  <2>1. NoRow \in Session /\ NoCall \in [ids: SUBSET Renamed, version: Nat] /\ NoCall.ids = {}
    BY DEF NoRow, NoCall, Session
  <2> QED
    BY <2>1 DEF RewriteInit, RewriteInv, RewriteTypeOK, BelongTo
<1>2. RewriteInv /\ [RewriteNext]_rewriteVars => RewriteInv'
  BY RetryStep, EndStep DEF RewriteNext
<1>3. RewriteInv => MappingsFresh
  BY DEF RewriteInv, BelongTo, MappingsFresh
<1> QED
  BY <1>1, <1>2, <1>3, PTL

(***************************************************************************)
(* UsageEvents, for all tuples and any number of rows.                     *)
(***************************************************************************)
EventRow == [kind: TupleKind, transition: {"onset", "morph", "resolved"},
             tuple: Nat, prev: Nat]

\* Among the rows before i, b is the last one of kind k; 0 if there is none.
LastBefore(es, k, i, b) ==
  /\ b \in 0 .. i - 1
  /\ b # 0 => es[b].kind = k
  /\ \A j \in 1 .. i - 1 : es[j].kind = k => j <= b

\* A row closes the row of its kind just before it or none; an onset comes where
\* the row before it, if this process wrote it, was a return to the default.
Linked(es, i) ==
  \E b \in 0 .. i - 1 :
    /\ LastBefore(es, es[i].kind, i, b)
    /\ es[i].prev = IF es[i].transition = "onset" THEN 0 ELSE b
    /\ b > born => (es[i].transition = "onset" <=> es[b].tuple = Default)

\* The last row of a kind, if this process wrote it, has the tuple last seen.
UpToDate(es, seen) ==
  \A k \in TupleKind : \A b \in 0 .. Len(es) :
    LastBefore(es, k, Len(es) + 1, b) /\ b > born => es[b].tuple = seen[k]

Chained(es, seen) ==
  /\ es \in Seq(EventRow)
  /\ \A i \in 1 .. Len(es) : Linked(es, i)
  /\ UpToDate(es, seen)

EventsInv ==
  /\ born \in 0 .. Len(events)
  /\ last \in [TupleKind -> Int]
  /\ \/ \A k \in TupleKind : last[k] \in Nat
     \/ \A k \in TupleKind : last[k] = Unseen /\ born = Len(events)
  /\ Chained(events, last)

\* The greatest of some row numbers, as Max chooses it.
LEMMA GreatestRow ==
  ASSUME NEW S, NEW b \in S, b \in Nat, \A i \in S : i \in Nat /\ i <= b
  PROVE  Max(S) = b
<1>1. \A y \in S : b >= y
  OBVIOUS
<1>2. Max(S) \in S /\ \A y \in S : Max(S) >= y
  BY <1>1 DEF Max
<1>3. Max(S) \in Nat /\ Max(S) <= b /\ Max(S) >= b
  BY <1>2
<1> QED
  BY <1>3

\* There is a last row of a kind, or none.
LEMMA LastBeforeExists ==
  ASSUME NEW es \in Seq(EventRow), NEW k, NEW i \in 1 .. Len(es) + 1
  PROVE  \E b \in 0 .. i - 1 : LastBefore(es, k, i, b)
<1> DEFINE S == {j \in 1 .. i - 1 : es[j].kind = k}
<1>1. CASE S = {}
  <2>1. 0 \in 0 .. i - 1 /\ \A j \in 1 .. i - 1 : es[j].kind # k
    BY <1>1
  <2> QED
    BY <2>1 DEF LastBefore
<1>2. CASE S # {}
  <2>1. S \in SUBSET (1 .. i - 1) /\ i - 1 \in Nat
    OBVIOUS
  <2>2. PICK b \in S : \A j \in S : j <= b
    <3> HIDE DEF S
    <3> QED
      BY <1>2, <2>1, LastPosition
  <2> QED
    BY <2>2 DEF LastBefore
<1> QED
  BY <1>1, <1>2

\* ... and it is what Before() finds.
LEMMA BeforeIsLast ==
  ASSUME events \in Seq(EventRow), NEW k, NEW i \in 1 .. Len(events), NEW b \in 0 .. i - 1,
         LastBefore(events, k, i, b)
  PROVE  Before(k, i) = b
<1> DEFINE S == {0} \cup {j \in DOMAIN events : j < i /\ events[j].kind = k}
<1>1. b \in S /\ b \in Nat
  BY DEF LastBefore
<1>2. \A j \in S : j \in Nat /\ j <= b
  BY DEF LastBefore
<1> HIDE DEF S
<1>3. Max(S) = b
  BY <1>1, <1>2, GreatestRow
<1> QED
  BY <1>3 DEF Before, S

\* getOpenEventForTuple() finds the last row of a kind, since a row only ever
\* points at one that had no later row of its kind.
LEMMA OpenIsLast ==
  ASSUME NEW es \in Seq(EventRow), \A i \in 1 .. Len(es) : Linked(es, i),
         NEW k, NEW b \in 0 .. Len(es), LastBefore(es, k, Len(es) + 1, b)
  PROVE  getOpenEventForTuple(es, k) = b
<1> DEFINE S == {0} \cup {i \in DOMAIN es : es[i].kind = k /\ \A j \in DOMAIN es : es[j].prev # i}
<1>1. ASSUME NEW j \in 1 .. Len(es), b # 0, es[j].prev = b PROVE FALSE
  <2>1. PICK c \in 0 .. j - 1 : /\ LastBefore(es, es[j].kind, j, c)
                                /\ es[j].prev = IF es[j].transition = "onset" THEN 0 ELSE c
    BY DEF Linked
  <2>2. c = b /\ es[b].kind = k /\ es[b].kind = es[j].kind /\ b < j
    BY <1>1, <2>1 DEF LastBefore
  <2> QED
    BY <2>2 DEF LastBefore
<1>2. b \in S /\ b \in Nat
  BY <1>1 DEF LastBefore
<1>3. \A i \in S : i \in Nat /\ i <= b
  BY DEF LastBefore
<1> HIDE DEF S
<1>4. Max(S) = b
  BY <1>2, <1>3, GreatestRow
<1> QED
  BY <1>4 DEF getOpenEventForTuple, S

\* An emission keeps the chain, and up to date with the tuple it is about.
LEMMA EmissionChains ==
  ASSUME NEW es, NEW seen, Chained(es, seen), born \in 0 .. Len(es),
         NEW k \in TupleKind, seen \in [TupleKind -> Nat], NEW current \in Nat
  PROVE  /\ Chained(Emitted(es, k, seen[k], current), [seen EXCEPT ![k] = current])
         /\ Len(Emitted(es, k, seen[k], current)) >= Len(es)
<1>1. es \in Seq(EventRow) /\ Len(es) \in Nat /\ seen[k] \in Nat
  BY DEF Chained
<1>2. PICK b \in 0 .. Len(es) : LastBefore(es, k, Len(es) + 1, b)
  <2>1. Len(es) + 1 \in 1 .. Len(es) + 1 /\ (Len(es) + 1) - 1 = Len(es)
    BY <1>1
  <2>2. \E b \in 0 .. (Len(es) + 1) - 1 : LastBefore(es, k, Len(es) + 1, b)
    BY <1>1, <2>1, LastBeforeExists
  <2> QED
    BY <2>1, <2>2
<1>3. getOpenEventForTuple(es, k) = b
  BY <1>1, <1>2, OpenIsLast DEF Chained
<1> DEFINE n == Len(es)
           transition == Transition(seen[k], current)
           r == [kind |-> k, transition |-> transition, tuple |-> current,
                 prev |-> IF transition = "onset" THEN 0 ELSE b]
           after == Append(es, r)
<1>4. Emitted(es, k, seen[k], current) = after
  BY <1>3 DEF Emitted, recordEvent
<1>5. /\ transition \in {"onset", "morph", "resolved"}
      /\ transition = "onset" <=> seen[k] = Default
  BY DEF Transition
<1>6. r \in EventRow
  BY <1>2, <1>5 DEF EventRow
<1>7. /\ r.kind = k /\ r.transition = transition /\ r.tuple = current
      /\ r.prev = IF transition = "onset" THEN 0 ELSE b
  OBVIOUS
<1> HIDE DEF r, transition
<1>8. /\ after \in Seq(EventRow) /\ Len(after) = n + 1 /\ n \in Nat
      /\ \A i \in 1 .. n : after[i] = es[i]
      /\ after[n + 1] = r
  BY <1>1, <1>6
<1> HIDE DEF n, after
<1>9. \A i \in 1 .. n + 1 : \A kind, c : LastBefore(after, kind, i, c) <=> LastBefore(es, kind, i, c)
  BY <1>8 DEF LastBefore
<1>10. ASSUME NEW i \in 1 .. n PROVE Linked(after, i)
  <2>1. Linked(es, i)
    BY DEF Chained, n
  <2>2. PICK c \in 0 .. i - 1 :
          /\ LastBefore(es, es[i].kind, i, c)
          /\ es[i].prev = IF es[i].transition = "onset" THEN 0 ELSE c
          /\ c > born => (es[i].transition = "onset" <=> es[c].tuple = Default)
    BY <2>1 DEF Linked
  <2>3. after[i] = es[i] /\ (c > born => after[c] = es[c])
    BY <1>8
  <2>4. LastBefore(after, after[i].kind, i, c)
    BY <1>8, <1>9, <2>2, <2>3
  <2> QED
    BY <2>2, <2>3, <2>4 DEF Linked
<1>11. b > born => es[b].tuple = seen[k] /\ after[b] = es[b]
  BY <1>2, <1>8 DEF Chained, UpToDate, n
<1>12. Linked(after, n + 1)
  <2>1. b \in 0 .. (n + 1) - 1 /\ LastBefore(after, after[n + 1].kind, n + 1, b)
    BY <1>2, <1>7, <1>8, <1>9 DEF n
  <2> QED
    BY <1>5, <1>7, <1>8, <1>11, <2>1 DEF Linked
<1>13. ASSUME NEW h \in TupleKind, NEW c \in 0 .. n + 1, LastBefore(after, h, n + 2, c), c > born
       PROVE  after[c].tuple = [seen EXCEPT ![k] = current][h]
  <2>1. CASE h = k
    <3>1. c = n + 1
      BY <1>7, <1>8, <1>13, <2>1 DEF LastBefore
    <3> QED
      BY <1>7, <1>8, <2>1, <3>1
  <2>2. CASE h # k
    <3>1. c # n + 1 /\ c \in 0 .. n
      BY <1>7, <1>8, <1>13, <2>2 DEF LastBefore
    <3>2. LastBefore(es, h, n + 1, c)
      BY <1>8, <1>13, <3>1 DEF LastBefore
    <3>3. es[c].tuple = seen[h] /\ after[c] = es[c]
      BY <1>8, <1>13, <3>1, <3>2 DEF Chained, UpToDate, n
    <3> QED
      BY <2>2, <3>3
  <2> QED
    BY <2>1, <2>2
<1>14. (n + 1) + 1 = n + 2
  BY <1>8
<1>15. UpToDate(after, [seen EXCEPT ![k] = current])
  BY <1>8, <1>13, <1>14 DEF UpToDate
<1>16. Chained(after, [seen EXCEPT ![k] = current])
  BY <1>8, <1>10, <1>12, <1>15 DEF Chained
<1> QED
  BY <1>4, <1>8, <1>16 DEF n

\* A snapshot, of which each write may fail.
LEMMA SnapshotChains ==
  ASSUME EventsInv, NEW t \in [TupleKind -> Nat], NEW fails, EventSnapshot(t, fails)
  PROVE  EventsInv'
<1> DEFINE Writes(k) == last[k] # t[k] /\ ~(fails = k)
           first == Writes("priority")
           second == Writes("service_mode") /\ ~(fails = "priority" /\ last["priority"] # t["priority"])
           after1 == IF first THEN Emitted(events, "priority", last["priority"], t["priority"]) ELSE events
           seen1 == IF first THEN [last EXCEPT !["priority"] = t["priority"]] ELSE last
<1>1. born' = born /\ born \in 0 .. Len(events) /\ Chained(events, last)
  BY DEF EventSnapshot, EventsInv
<1>2. CASE Unseen \in {last[k] : k \in TupleKind}
  <2>1. last' = t /\ events' = events
    BY <1>2 DEF EventSnapshot
  <2>2. born = Len(events)
    BY <1>2 DEF EventsInv, Unseen
  <2>3. UpToDate(events, t)
    BY <2>2 DEF UpToDate
  <2>4. Chained(events, t)
    BY <1>1, <2>3 DEF Chained
  <2>5. Chained(events, last)'
    BY <1>1, <2>1, <2>4 DEF Chained, UpToDate, Linked
  <2> QED
    BY <1>1, <2>1, <2>5 DEF EventsInv
<1>3. CASE Unseen \notin {last[k] : k \in TupleKind}
  <2>1. last \in [TupleKind -> Nat] /\ "priority" \in TupleKind /\ "service_mode" \in TupleKind
    BY <1>3 DEF EventsInv, TupleKind
  <2>2. /\ events' = IF second THEN Emitted(after1, "service_mode", last["service_mode"], t["service_mode"])
                     ELSE after1
        /\ last' = [k \in TupleKind |->
                      IF (k = "priority" /\ first) \/ (k = "service_mode" /\ second)
                      THEN t[k] ELSE last[k]]
    BY <1>3 DEF EventSnapshot
  <2>3. /\ Chained(after1, seen1) /\ seen1 \in [TupleKind -> Nat] /\ Len(after1) >= Len(events)
        /\ Len(after1) \in Nat
    <3>1. CASE first
      <4>1. t["priority"] \in Nat
        BY <2>1
      <4>2. /\ Chained(Emitted(events, "priority", last["priority"], t["priority"]),
                       [last EXCEPT !["priority"] = t["priority"]])
            /\ Len(Emitted(events, "priority", last["priority"], t["priority"])) >= Len(events)
        BY <1>1, <2>1, <4>1, EmissionChains
      <4> QED
        BY <2>1, <3>1, <4>1, <4>2 DEF Chained
    <3>2. CASE ~first
      BY <1>1, <2>1, <3>2 DEF Chained
    <3> QED
      BY <3>1, <3>2
  <2>4. born \in 0 .. Len(after1) /\ seen1["service_mode"] = last["service_mode"]
    <3>1. seen1["service_mode"] = last["service_mode"]
      BY <2>1
    <3>2. Len(events) \in Nat
      BY <1>1 DEF Chained
    <3> HIDE DEF after1, seen1
    <3> QED
      BY <1>1, <2>3, <3>1, <3>2
  <2>5. last' = IF second THEN [seen1 EXCEPT !["service_mode"] = t["service_mode"]] ELSE seen1
    <3>1. TupleKind = {"priority", "service_mode"}
      BY DEF TupleKind
    <3> QED
      BY <2>1, <2>2, <3>1
  <2> HIDE DEF after1, seen1, first, second
  <2>6. /\ Chained(events', last') /\ last' \in [TupleKind -> Nat] /\ born \in 0 .. Len(events')
    <3>1. CASE second
      <4>1. t["service_mode"] \in Nat
        BY <2>1
      <4>2. /\ Chained(Emitted(after1, "service_mode", seen1["service_mode"], t["service_mode"]),
                       [seen1 EXCEPT !["service_mode"] = t["service_mode"]])
            /\ Len(Emitted(after1, "service_mode", seen1["service_mode"], t["service_mode"])) >= Len(after1)
        BY <2>1, <2>3, <2>4, <4>1, EmissionChains
      <4>3. /\ events' = Emitted(after1, "service_mode", seen1["service_mode"], t["service_mode"])
            /\ last' = [seen1 EXCEPT !["service_mode"] = t["service_mode"]]
        BY <2>2, <2>4, <2>5, <3>1
      <4>4. Len(events') \in Nat /\ Chained(events', last') /\ Len(events') >= Len(after1)
        BY <4>2, <4>3 DEF Chained
      <4>5. last' \in [TupleKind -> Nat]
        BY <2>3, <4>1, <4>3
      <4> QED
        BY <2>3, <2>4, <4>4, <4>5
    <3>2. CASE ~second
      BY <2>2, <2>3, <2>4, <2>5, <3>2
    <3> QED
      BY <3>1, <3>2
  <2>7. Chained(events, last)'
    BY <1>1, <2>6 DEF Chained, UpToDate, Linked
  <2> QED
    BY <1>1, <2>6, <2>7 DEF EventsInv
<1> QED
  BY <1>2, <1>3

\* EventsInv holds initially ...
LEMMA InitEvents == EventsInit => EventsInv
<1> SUFFICES ASSUME EventsInit PROVE EventsInv
  OBVIOUS
<1>1. events = <<>> /\ born = 0 /\ last = [k \in TupleKind |-> Unseen] /\ Len(<<>>) = 0
  BY DEF EventsInit
<1>2. <<>> \in Seq(EventRow)
  BY EmptyEntries
<1> QED
  BY <1>1, <1>2 DEF EventsInv, Chained, UpToDate, Unseen

\* ... and every step preserves it.
LEMMA NextEvents == EventsInv /\ [EventsNext]_eventVars => EventsInv'
<1> SUFFICES ASSUME EventsInv, [EventsNext]_eventVars PROVE EventsInv'
  OBVIOUS
<1>1. ASSUME NEW t \in [TupleKind -> UNION {Tuple(k) : k \in TupleKind}], NEW fails,
             \A k \in TupleKind : t[k] \in Tuple(k), EventSnapshot(t, fails)
      PROVE  EventsInv'
  <2>1. \A k \in TupleKind : Tuple(k) \subseteq Nat
    BY EventsAssumption DEF Tuple, Default
  <2>2. t \in [TupleKind -> Nat]
    BY <1>1, <2>1
  <2> QED
    BY <1>1, <2>2, SnapshotChains
<1>2. CASE EventRestart
  <2>1. events' = events /\ born' = Len(events) /\ last' = [k \in TupleKind |-> Unseen]
    BY <1>2 DEF EventRestart
  <2>2. events \in Seq(EventRow) /\ born \in 0 .. Len(events) /\ Len(events) \in Nat
    BY DEF EventsInv, Chained
  <2>3. ASSUME NEW i \in 1 .. Len(events) PROVE Linked(events, i)'
    <3>1. Linked(events, i)
      BY DEF EventsInv, Chained
    <3>2. PICK b \in 0 .. i - 1 :
            /\ LastBefore(events, events[i].kind, i, b)
            /\ events[i].prev = IF events[i].transition = "onset" THEN 0 ELSE b
      BY <3>1 DEF Linked
    <3>3. LastBefore(events, events[i].kind, i, b)' /\ ~(b > born')
      BY <2>1, <2>2, <3>2 DEF LastBefore
    <3> QED
      BY <2>1, <3>2, <3>3 DEF Linked
  <2>4. UpToDate(events, last)'
    BY <2>1, <2>2 DEF UpToDate
  <2>5. Chained(events, last)'
    BY <2>1, <2>2, <2>3, <2>4 DEF Chained
  <2> QED
    BY <2>1, <2>2, <2>5 DEF EventsInv, Unseen
<1>3. CASE UNCHANGED eventVars
  BY <1>3 DEF eventVars, EventsInv, Chained, UpToDate, Linked, LastBefore
<1> QED
  BY <1>1, <1>2, <1>3 DEF EventsNext

\* The invariant gives the chain as the property states it.
LEMMA ChainFollows == EventsInv => EventsChain
<1> SUFFICES ASSUME EventsInv PROVE EventsChain
  OBVIOUS
<1>1. /\ events \in Seq(EventRow) /\ Len(events) \in Nat /\ DOMAIN events = 1 .. Len(events)
      /\ born \in Nat /\ \A i \in 1 .. Len(events) : events[i].kind \in TupleKind
  <2>1. events \in Seq(EventRow) /\ born \in 0 .. Len(events)
    BY DEF EventsInv, Chained
  <2>2. \A i \in 1 .. Len(events) : events[i] \in EventRow
    BY <2>1
  <2>3. \A e \in EventRow : e.kind \in TupleKind
    BY DEF EventRow
  <2> QED
    BY <2>1, <2>2, <2>3
<1>2. ASSUME NEW k \in TupleKind, Own(k) # {} PROVE events[Max(Own(k))].tuple = last[k]
  <2>1. PICK b \in 0 .. Len(events) : LastBefore(events, k, Len(events) + 1, b)
    BY <1>1, LastBeforeExists
  <2>2. b \in Own(k) /\ b \in Nat /\ \A i \in Own(k) : i \in Nat /\ i <= b
    BY <1>1, <1>2, <2>1 DEF Own, LastBefore
  <2>3. Max(Own(k)) = b
    BY <2>2, GreatestRow
  <2> QED
    BY <2>1, <2>2, <2>3 DEF EventsInv, Chained, UpToDate, Own
<1>3. ASSUME NEW i \in 1 .. Len(events)
      PROVE  LET e == events[i]
                 b == Before(e.kind, i)
             IN  /\ e.prev = IF e.transition = "onset" THEN 0 ELSE b
                 /\ b > born => (e.transition = "onset" <=> events[b].tuple = Default)
                 /\ LastBefore(events, e.kind, i, b)
  <2>1. PICK b \in 0 .. i - 1 :
          /\ LastBefore(events, events[i].kind, i, b)
          /\ events[i].prev = IF events[i].transition = "onset" THEN 0 ELSE b
          /\ b > born => (events[i].transition = "onset" <=> events[b].tuple = Default)
    BY DEF EventsInv, Chained, Linked
  <2>2. Before(events[i].kind, i) = b
    BY <1>1, <2>1, BeforeIsLast
  <2> QED
    BY <2>1, <2>2
<1>4. ASSUME NEW i \in 1 .. Len(events), NEW j \in 1 .. Len(events), i < j,
             events[i].prev # 0, events[i].prev = events[j].prev
      PROVE  FALSE
  <2>1. /\ LastBefore(events, events[i].kind, i, events[i].prev)
        /\ LastBefore(events, events[j].kind, j, events[j].prev)
    BY <1>3, <1>4
  <2>2. events[i].kind = events[j].kind
    BY <1>4, <2>1 DEF LastBefore
  <2> QED
    BY <1>4, <2>1, <2>2 DEF LastBefore
<1>5. \A i, j \in DOMAIN events : i # j /\ events[i].prev # 0 => events[i].prev # events[j].prev
  <2> SUFFICES ASSUME NEW i \in 1 .. Len(events), NEW j \in 1 .. Len(events), i # j,
                      events[i].prev # 0, events[i].prev = events[j].prev
               PROVE  FALSE
    BY <1>1
  <2>1. i < j \/ j < i
    OBVIOUS
  <2> QED
    BY <1>4, <2>1
<1>6. \A k \in TupleKind : \A i \in Own(k) :
        LET e == events[i]
            b == Before(k, i)
        IN  /\ e.transition # "onset" => e.prev = b
            /\ b > born => (e.transition = "onset" <=> events[b].tuple = Default)
  BY <1>1, <1>3 DEF Own
<1> QED
  BY <1>2, <1>5, <1>6 DEF EventsChain

\* The table of events tells the history of both tuples without a hole, and no
\* row is closed twice, whichever writes fail and however often the process is
\* restarted (emitPriorityEvent(), getOpenEventForTuple()).
THEOREM EventsAreChained == EventsInit /\ [][EventsNext]_eventVars => []EventsChain
  BY InitEvents, NextEvents, ChainFollows, PTL

(***************************************************************************)
(* UsageHistory, for every length of a day and every retention.            *)
(***************************************************************************)
\* Monotony of the product, which the provers need to be told.
LEMMA ProductMonotone == \A a, b \in Int, n \in Nat : a <= b => a * n <= b * n
  OBVIOUS

\* A tick is in its day.
LEMMA DayBounds ==
  ASSUME NEW t \in Nat
  PROVE  /\ dayUtcOf(t) \in Nat
         /\ dayUtcOf(t) * DayLen <= t
         /\ t < (dayUtcOf(t) + 1) * DayLen
  BY HistoryAssumption, SMT DEF dayUtcOf

\* The ids of a day's samples.
Ids(d) == {s.id : s \in getSampleRange(d)}
DayRow == [kind: {"none", "missing", "some"}, counted: SUBSET Nat]

HistoryTypeOK ==
  /\ now \in 0 .. MaxTicks /\ retention \in Nat \ {0} /\ raised \in BOOLEAN /\ written \in Nat
  /\ \A s \in samples : s.id \in Nat /\ s.at \in 0 .. now
  /\ dailyRows \in [Day -> DayRow]
  /\ recorded \in [Day -> SUBSET Nat]

\* No row and no sample is invented; and what was recorded of a day within the
\* retention is there, unless the retention was shorter before.
HistoryInv ==
  /\ HistoryTypeOK
  /\ \A d \in Day : Ids(d) \subseteq recorded[d] /\ dailyRows[d].counted \subseteq recorded[d]
  /\ ~raised => \A d \in Day : d >= retentionCutoffDay => recorded[d] \subseteq Ids(d)

\* A time that has come is on one of the days.
LEMMA DayOfTime ==
  ASSUME NEW t \in 0 .. MaxTicks, NEW u \in 0 .. t
  PROVE  dayUtcOf(t) \in Day /\ dayUtcOf(u) \in 0 .. dayUtcOf(t)
<1>1. /\ MaxTicks \in Nat /\ DayLen \in Nat \ {0} /\ t \in Nat /\ u \in Nat
      /\ u <= t /\ t <= MaxTicks
  BY HistoryAssumption
<1>2. \A a, b \in Nat : a <= b => dayUtcOf(a) <= dayUtcOf(b)
  <2> TAKE a, b \in Nat
  <2> HAVE a <= b
  <2>1. /\ dayUtcOf(a) \in Nat /\ dayUtcOf(b) \in Nat
        /\ dayUtcOf(a) * DayLen <= a /\ b < (dayUtcOf(b) + 1) * DayLen
    BY DayBounds
  <2>2. \A x, y \in Nat : y + 1 <= x => (y + 1) * DayLen <= x * DayLen
    BY <1>1, ProductMonotone
  <2>3. \A x, n \in Nat : x * n \in Int
    OBVIOUS
  <2>4. ~(dayUtcOf(b) + 1 <= dayUtcOf(a))
    BY <1>1, <2>1, <2>2, <2>3
  <2> QED
    BY <2>1, <2>4
<1> QED
  BY <1>1, <1>2, DayBounds DEF Day

\* A day within the retention begins after the cutoff.
LEMMA RecentDay ==
  ASSUME HistoryTypeOK, NEW d \in Nat, d >= retentionCutoffDay
  PROVE  RetentionCutoff < utcMidnightMs(d)
<1>1. now \in Nat /\ retention \in Nat /\ DayLen \in Nat /\ Today \in Nat
  BY HistoryAssumption, DayBounds DEF HistoryTypeOK, Today
<1>2. now < (Today + 1) * DayLen
  BY <1>1, DayBounds DEF Today
<1>3. (Today + 1) * DayLen <= (d + retention) * DayLen
  BY <1>1, ProductMonotone DEF retentionCutoffDay
<1>4. (d + retention) * DayLen = d * DayLen + retention * DayLen
  BY <1>1
<1>5. d * DayLen \in Int /\ retention * DayLen \in Int /\ (Today + 1) * DayLen \in Int
  BY <1>1
<1>6. now - retention * DayLen < d * DayLen
  BY <1>1, <1>2, <1>3, <1>4, <1>5
<1> QED
  BY <1>6 DEF RetentionCutoff, utcMidnightMs

\* Neither deleteSamplesInRange() nor pruneOldSamples() takes a sample of it.
LEMMA RecentKept ==
  ASSUME HistoryTypeOK, NEW days, NEW s \in samples, dayUtcOf(s.at) >= retentionCutoffDay
  PROVE  s \in KeptBy(days) /\ s \in pruneOldSamples(KeptBy(days))
<1>1. s.at \in Nat /\ now \in Nat /\ dayUtcOf(s.at) \in Nat
  BY HistoryAssumption, DayBounds DEF HistoryTypeOK
<1>2. RetentionCutoff < utcMidnightMs(dayUtcOf(s.at))
  BY <1>1, RecentDay
<1>3. utcMidnightMs(dayUtcOf(s.at)) <= s.at
  BY <1>1, DayBounds DEF utcMidnightMs
<1>4. \A n \in Nat : n * DayLen \in Int
  BY HistoryAssumption
<1>5. retention \in Nat
  BY DEF HistoryTypeOK
<1>6. RetentionCutoff \in Int /\ utcMidnightMs(dayUtcOf(s.at)) \in Int
  BY <1>1, <1>4, <1>5 DEF RetentionCutoff, utcMidnightMs
<1>7. RetentionCutoff <= s.at /\ ~(utcMidnightMs(dayUtcOf(s.at)) < RetentionCutoff)
  BY <1>1, <1>2, <1>3, <1>6
<1>8. s \in KeptBy(days)
  BY <1>7 DEF KeptBy, deleteSamplesInRange
<1> QED
  BY <1>7, <1>8 DEF pruneOldSamples, deleteSamplesOlderThan

\* What upsertDailyRow() leaves in the table.
LEMMA DownsampledRows ==
  ASSUME HistoryTypeOK, NEW days
  PROVE  Downsampled(days) =
           [d \in Day |-> IF d \in days THEN computeDailyRow(d) ELSE dailyRows[d]]
  BY DEF Downsampled, upsertDailyRow

\* A recomputed row counts the day's samples.
LEMMA RecomputedRow ==
  ASSUME HistoryTypeOK, NEW d
  PROVE  computeDailyRow(d) \in DayRow /\ computeDailyRow(d).counted = Ids(d)
<1>1. Ids(d) \in SUBSET Nat
  BY DEF HistoryTypeOK, Ids, getSampleRange
<1> QED
  BY <1>1 DEF computeDailyRow, Ids, DayRow

\* Rows are recomputed and old samples deleted.
LEMMA DownsamplingKeeps ==
  ASSUME HistoryInv, NEW days, NEW gone, dailyRows' = Downsampled(days),
         samples' \in {samples, KeptBy(gone), pruneOldSamples(KeptBy(gone))},
         UNCHANGED <<now, retention, raised, recorded, written>>
  PROVE  HistoryInv'
<1>1. HistoryTypeOK /\ Today' = Today /\ retentionCutoffDay' = retentionCutoffDay
  BY DEF HistoryInv, Today, retentionCutoffDay, dayUtcOf
<1>2. samples' \subseteq samples
  BY DEF KeptBy, deleteSamplesInRange, pruneOldSamples, deleteSamplesOlderThan
<1>3. \A s \in samples : dayUtcOf(s.at) >= retentionCutoffDay => s \in samples'
  BY <1>1, RecentKept
<1>4. \A d \in Day : Ids(d)' \subseteq Ids(d)
  BY <1>2 DEF Ids, getSampleRange
<1>5. \A d \in Day : d >= retentionCutoffDay => Ids(d) \subseteq Ids(d)'
  BY <1>3 DEF Ids, getSampleRange
<1>6. \A d \in Day : dailyRows'[d] = IF d \in days THEN computeDailyRow(d) ELSE dailyRows[d]
  BY <1>1, DownsampledRows
<1>7. dailyRows' \in [Day -> DayRow]
  BY <1>1, DownsampledRows, RecomputedRow DEF HistoryTypeOK
<1>8. HistoryTypeOK'
  BY <1>1, <1>2, <1>7 DEF HistoryTypeOK
<1>9. \A d \in Day : dailyRows'[d].counted \subseteq recorded[d]
  BY <1>1, <1>6, RecomputedRow DEF HistoryInv
<1> QED
  BY <1>1, <1>4, <1>5, <1>8, <1>9 DEF HistoryInv

\* Steps that touch neither samples nor rows, let time pass or change the
\* retention: what was within it stays so unless it grows.
LEMMA TimeKeeps ==
  ASSUME HistoryInv, UNCHANGED store, now' \in now .. MaxTicks,
         \/ retention' = retention /\ raised' = raised
         \/ /\ retention' \in Nat \ {0} /\ now' = now
            /\ raised' = (raised \/ retention' > retention)
  PROVE  HistoryInv'
<1>1. /\ HistoryTypeOK /\ samples' = samples /\ dailyRows' = dailyRows
      /\ recorded' = recorded /\ written' = written
  BY DEF HistoryInv, store
<1>2. now \in Nat /\ now' \in Nat /\ now \in 0 .. now' /\ now' \in 0 .. MaxTicks
  BY <1>1, HistoryAssumption DEF HistoryTypeOK
<1>3. Today \in Nat /\ Today' \in Nat /\ Today <= Today'
  BY <1>2, DayOfTime DEF Today, Day, dayUtcOf
<1>4. raised' \in BOOLEAN /\ (raised => raised')
  BY <1>1 DEF HistoryTypeOK
<1>5. ~raised' => retention' <= retention
  <2>1. retention \in Nat /\ retention' \in Nat
    BY <1>1 DEF HistoryTypeOK
  <2>2. ~raised' => retention' = retention \/ ~(retention' > retention)
    OBVIOUS
  <2> QED
    BY <2>1, <2>2
<1>6. ~raised' => retentionCutoffDay <= retentionCutoffDay'
  BY <1>1, <1>3, <1>5 DEF retentionCutoffDay, HistoryTypeOK
<1>7. retention' \in Nat \ {0} /\ \A s \in samples' : s.id \in Nat /\ s.at \in 0 .. now'
  BY <1>1, <1>2 DEF HistoryTypeOK
<1>8. HistoryTypeOK'
  BY <1>1, <1>2, <1>4, <1>7 DEF HistoryTypeOK
<1>9. \A d : Ids(d)' = Ids(d)
  BY <1>1 DEF Ids, getSampleRange
<1>10. retentionCutoffDay \in Int /\ retentionCutoffDay' \in Int /\ Day \subseteq Int
  BY <1>1, <1>3, <1>7 DEF retentionCutoffDay, HistoryTypeOK, Day
<1>11. ~raised' => \A d \in Day : d >= retentionCutoffDay' => recorded[d] \subseteq Ids(d)
  BY <1>4, <1>6, <1>10 DEF HistoryInv
<1> QED
  BY <1>1, <1>8, <1>9, <1>11 DEF HistoryInv

\* A snapshot that is written is recorded for its day.
LEMMA SnapshotKeeps ==
  ASSUME HistoryInv, NEW a, NEW load, NEW fails, Snapshot(a, load, fails)
  PROVE  HistoryInv'
<1>1. HistoryTypeOK /\ UNCHANGED <<now, retention, raised>>
  BY DEF HistoryInv, Snapshot
<1>2. CASE UNCHANGED store
  <2>1. now' \in now .. MaxTicks
    BY <1>1 DEF HistoryTypeOK
  <2> QED
    BY <1>1, <1>2, <2>1, TimeKeeps
<1>3. CASE ~UNCHANGED store
  <2> DEFINE id == written + 1
  <2>1. PICK key : /\ samples' = samples \cup {[id |-> id, at |-> now, key |-> key]}
                   /\ written' = id
                   /\ recorded' = [recorded EXCEPT ![Today] = @ \cup {id}]
                   /\ dailyRows' = dailyRows
    BY <1>3 DEF Snapshot
  <2>2. /\ Today \in Day /\ Today' = Today /\ retentionCutoffDay' = retentionCutoffDay
        /\ id \in Nat /\ now \in Nat
    BY <1>1, DayOfTime DEF HistoryTypeOK, Today, retentionCutoffDay, dayUtcOf
  <2>3. \A d \in Day : Ids(d)' = IF d = Today THEN Ids(d) \cup {id} ELSE Ids(d)
    <3>1. /\ [id |-> id, at |-> now, key |-> key].id = id
          /\ [id |-> id, at |-> now, key |-> key].at = now
      OBVIOUS
    <3> DEFINE new == [id |-> id, at |-> now, key |-> key]
    <3> HIDE DEF new, id
    <3>2. new.id = written + 1 /\ dayUtcOf(new.at) = Today /\ samples' = samples \cup {new}
      BY <2>1, <3>1 DEF new, id, Today
    <3>3. \A d : getSampleRange(d)' = getSampleRange(d) \cup {s \in {new} : d = Today}
      BY <3>2 DEF getSampleRange
    <3> QED
      BY <3>2, <3>3 DEF Ids, id
  <2>4. \A d \in Day : recorded'[d] = IF d = Today THEN recorded[d] \cup {id} ELSE recorded[d]
    BY <1>1, <2>1, <2>2 DEF HistoryTypeOK
  <2>5. recorded' \in [Day -> SUBSET Nat]
    BY <1>1, <2>1, <2>2 DEF HistoryTypeOK
  <2>6. \A s \in samples' : s.id \in Nat /\ s.at \in 0 .. now
    BY <1>1, <2>1, <2>2 DEF HistoryTypeOK
  <2>7. HistoryTypeOK'
    BY <1>1, <2>1, <2>2, <2>5, <2>6 DEF HistoryTypeOK
  <2>8. \A d \in Day : Ids(d)' \subseteq recorded'[d] /\ dailyRows'[d].counted \subseteq recorded'[d]
    BY <2>1, <2>3, <2>4 DEF HistoryInv
  <2>9. ~raised => \A d \in Day : d >= retentionCutoffDay => recorded'[d] \subseteq Ids(d)'
    BY <2>3, <2>4 DEF HistoryInv
  <2> QED
    BY <1>1, <2>2, <2>7, <2>8, <2>9 DEF HistoryInv
<1> QED
  BY <1>2, <1>3

\* HistoryInv holds initially ...
LEMMA InitHistory == HistoryInit => HistoryInv
<1> SUFFICES ASSUME HistoryInit PROVE HistoryInv
  OBVIOUS
<1>1. /\ now = 0 /\ samples = {} /\ written = 0 /\ raised = FALSE
      /\ dailyRows = [d \in Day |-> NoDailyRow] /\ recorded = [d \in Day |-> {}]
      /\ retention \in Nat \ {0}
  BY HistoryAssumption DEF HistoryInit
<1>2. NoDailyRow \in DayRow /\ NoDailyRow.counted = {} /\ raised \in BOOLEAN
  BY <1>1 DEF NoDailyRow, DayRow
<1>3. HistoryTypeOK
  BY <1>1, <1>2, HistoryAssumption DEF HistoryTypeOK
<1>4. \A d \in Day : dailyRows[d].counted = {} /\ recorded[d] = {} /\ Ids(d) = {}
  BY <1>1, <1>2 DEF Ids, getSampleRange
<1> QED
  BY <1>3, <1>4 DEF HistoryInv

\* ... and every step preserves it.
LEMMA NextHistory == HistoryInv /\ [HistoryNext]_historyVars => HistoryInv'
<1> SUFFICES ASSUME HistoryInv, [HistoryNext]_historyVars PROVE HistoryInv'
  OBVIOUS
<1>1. HistoryTypeOK /\ now \in now .. MaxTicks
  BY DEF HistoryInv, HistoryTypeOK
<1>2. ASSUME NEW stop \in StopDay, MidnightTimer(stop) PROVE HistoryInv'
  <2>1. /\ dailyRows' = Downsampled(JobDays(stop))
        /\ samples' \in {samples, KeptBy(JobDays(stop)), pruneOldSamples(KeptBy(JobDays(stop)))}
        /\ UNCHANGED <<now, retention, raised, recorded, written>>
    BY <1>2 DEF MidnightTimer, runDailyDownsample
  <2> QED
    BY <2>1, DownsamplingKeeps
<1>3. ASSUME NEW stop \in StopDay, ProcessStarts(stop) PROVE HistoryInv'
  <2>1. /\ dailyRows' = Downsampled(JobDays(stop) \cup {Today})
        /\ samples' \in {samples, KeptBy(JobDays(stop)), pruneOldSamples(KeptBy(JobDays(stop)))}
        /\ UNCHANGED <<now, retention, raised, recorded, written>>
    BY <1>3 DEF ProcessStarts
  <2> QED
    BY <2>1, DownsamplingKeeps
<1>4. CASE refreshTodayDaily
  <2>1. /\ dailyRows' = Downsampled({Today})
        /\ samples' \in {samples, KeptBy({}), pruneOldSamples(KeptBy({}))}
        /\ UNCHANGED <<now, retention, raised, recorded, written>>
    BY <1>4 DEF refreshTodayDaily
  <2> QED
    BY <2>1, DownsamplingKeeps
<1>5. ASSUME NEW from \in Day, NEW to \in Day, Downsample(from, to) PROVE HistoryInv'
  <2>1. /\ dailyRows' = Downsampled(from .. to)
        /\ samples' \in {samples, KeptBy(from .. to), pruneOldSamples(KeptBy(from .. to))}
        /\ UNCHANGED <<now, retention, raised, recorded, written>>
    BY <1>5 DEF Downsample
  <2> QED
    BY <2>1, DownsamplingKeeps
<1>6. ASSUME NEW a, NEW load, NEW fails, Snapshot(a, load, fails) PROVE HistoryInv'
  BY <1>6, SnapshotKeeps
<1>7. ASSUME NEW r \in Retentions, SetRetention(r) PROVE HistoryInv'
  <2>1. /\ UNCHANGED store /\ now' = now /\ retention' \in Nat \ {0}
        /\ raised' = (raised \/ retention' > retention)
    BY <1>7, HistoryAssumption DEF SetRetention
  <2>2. now' \in now .. MaxTicks
    BY <1>1, <2>1
  <2> QED
    BY <2>1, <2>2, TimeKeeps
<1>8. CASE HistoryTick
  <2>1. UNCHANGED store /\ now' = now + 1 /\ now < MaxTicks /\ UNCHANGED <<retention, raised>>
    BY <1>8 DEF HistoryTick
  <2>2. now' \in now .. MaxTicks
    BY <1>1, <2>1, HistoryAssumption DEF HistoryTypeOK
  <2> QED
    BY <2>1, <2>2, TimeKeeps
<1>9. ASSUME \/ \E load \in 1 .. MaxLoad : StatsChange(load)
             \/ SnapshotFailed \/ ProcessExits \/ UNCHANGED historyVars
      PROVE  HistoryInv'
  <2>1. UNCHANGED store /\ UNCHANGED <<now, retention, raised>>
    BY <1>9 DEF StatsChange, SnapshotFailed, ProcessExits, historyVars, store
  <2> QED
    BY <1>1, <2>1, TimeKeeps
<1> QED
  BY <1>2, <1>3, <1>4, <1>5, <1>6, <1>7, <1>8, <1>9 DEF HistoryNext

\* Recomputing rows of days within the retention, or ones that had none, loses
\* nothing.
LEMMA JobKeepsRows ==
  ASSUME HistoryInv, ~raised, NEW stop \in StopDay, NEW days,
         days = JobDays(stop) \/ days = JobDays(stop) \cup {Today},
         dailyRows' = Downsampled(days)
  PROVE  /\ RowsKept
         /\ JobEnds(stop) => \A d \in Day \cap (retentionCutoffDay .. Today) :
                                dailyRows'[d].counted = recorded[d]
<1>1. HistoryTypeOK /\ now \in 0 .. MaxTicks
  BY DEF HistoryInv, HistoryTypeOK
<1>2. /\ Today \in Day /\ Today \in Nat /\ retentionCutoffDay \in Int
      /\ retentionCutoffDay <= Today
  BY <1>1, DayOfTime DEF Today, retentionCutoffDay, HistoryTypeOK, Day
<1>3. \A d \in Day : dailyRows'[d] = IF d \in days THEN computeDailyRow(d) ELSE dailyRows[d]
  BY <1>1, DownsampledRows
<1>4. ASSUME NEW d \in Day, d >= retentionCutoffDay PROVE Ids(d) = recorded[d]
  BY <1>4 DEF HistoryInv
<1>5. ASSUME NEW d \in Day \cap days PROVE dailyRows[d].counted \subseteq Ids(d)
  <2>1. \/ dailyRows[d] = NoDailyRow
        \/ d \in retentionCutoffDay .. Today
    BY <1>2 DEF JobDays
  <2>2. CASE dailyRows[d] = NoDailyRow
    BY <2>2 DEF NoDailyRow
  <2>3. CASE d \in retentionCutoffDay .. Today
    <3>1. Ids(d) = recorded[d]
      BY <1>2, <1>4, <2>3
    <3> QED
      BY <3>1 DEF HistoryInv
  <2> QED
    BY <2>1, <2>2, <2>3
<1>6. RowsKept
  BY <1>1, <1>3, <1>5, RecomputedRow DEF RowsKept
<1>7. ASSUME JobEnds(stop), NEW d \in Day \cap (retentionCutoffDay .. Today)
      PROVE  dailyRows'[d].counted = recorded[d]
  <2>1. d \in days
    <3>1. stop > Today
      BY <1>7 DEF JobEnds
    <3>2. d \in JobDays(stop)
      BY <1>2, <1>7, <3>1 DEF JobDays, Day, StopDay
    <3> QED
      BY <3>2
  <2>2. Ids(d) = recorded[d]
    BY <1>2, <1>4, <1>7
  <2> QED
    BY <1>1, <1>3, <1>7, <2>1, <2>2, RecomputedRow
<1> QED
  BY <1>6, <1>7

\* As long as the retention was not raised, runDailyDownsample() takes nothing
\* out of a row, wherever it stops; and when it ends, the rows of the days within
\* the retention have all that was recorded of them.
THEOREM JobsHeal == HistorySpec => JobHeals
<1> DEFINE Heals ==
             \A stop \in StopDay :
               (MidnightTimer(stop) \/ ProcessStarts(stop)) /\ ~raised =>
                 /\ RowsKept
                 /\ JobEnds(stop) =>
                      \A d \in Day \cap (retentionCutoffDay..Today) :
                         dailyRows'[d].counted = recorded[d]
<1>1. HistoryInv => Heals
  <2> SUFFICES ASSUME HistoryInv, NEW stop \in StopDay,
                      MidnightTimer(stop) \/ ProcessStarts(stop), ~raised
               PROVE  /\ RowsKept
                      /\ JobEnds(stop) =>
                           \A d \in Day \cap (retentionCutoffDay..Today) :
                              dailyRows'[d].counted = recorded[d]
    OBVIOUS
  <2>1. PICK days : /\ days = JobDays(stop) \/ days = JobDays(stop) \cup {Today}
                    /\ dailyRows' = Downsampled(days)
    BY DEF MidnightTimer, runDailyDownsample, ProcessStarts
  <2> QED
    BY <2>1, JobKeepsRows
<1>2. HistoryInv /\ [HistoryNext]_historyVars => [Heals]_historyVars
  BY <1>1
<1>3. HistorySpec => []HistoryInv
  BY InitHistory, NextHistory, PTL DEF HistorySpec
<1> QED
  BY <1>2, <1>3, PTL DEF HistorySpec, JobHeals

(***************************************************************************)
(* Stamping, for every body, policy, rule and setting of the switches.     *)
(***************************************************************************)

\* What the steps are given: a context, and a body.
Shape == Thinking \ {"absent", "off"}
StampPolicy ==
  [max_tokens: Int, effort: Effort \ {"absent", "none"}, top_k: BOOLEAN, canDisable: BOOLEAN, shape: Shape]
StampRule ==
  [name: Seq(STRING), star: BOOLEAN, anthropic: Shape \cup {"none"}, openai: Shape \cup {"none"},
   extra: BOOLEAN, veto: BOOLEAN, force: BOOLEAN]
StampContext ==
  [openai: BOOLEAN, claudeCode: BOOLEAN, reasoning: BOOLEAN, stripOmo: BOOLEAN,
   policy: StampPolicy, rule: StampRule]
Block == [text: BOOLEAN, omo: BOOLEAN, bp: {"none", "bare", "ttl"}]
Message == [user: BOOLEAN, blocks: Seq(Block)]
Body ==
  [thinking: Thinking, reasoning_effort: Effort, output_config: Effort, max_tokens: Int,
   temperature: {"absent", "half", "one"}, top_k: {"absent", "mine", "twenty"},
   context_management: BOOLEAN, stream: BOOLEAN, include_usage: BOOLEAN, extra: BOOLEAN, system: Seq(Block), messages: Seq(Message)]

\* Two bodies with the same contents, and two that differ in them alone.
SameContents(a, b) == a.system = b.system /\ a.messages = b.messages
SameFields(a, b) ==
  /\ a.thinking = b.thinking /\ a.reasoning_effort = b.reasoning_effort
  /\ a.output_config = b.output_config /\ a.max_tokens = b.max_tokens
  /\ a.temperature = b.temperature /\ a.top_k = b.top_k
  /\ a.context_management = b.context_management /\ a.stream = b.stream
  /\ a.include_usage = b.include_usage /\ a.extra = b.extra

\* stampThinking() and the step around it.
LEMMA ThinkingStep ==
  ASSUME NEW c \in StampContext, NEW b \in Body, Anthropic(c)
  PROVE  LET s == AnthropicBodyStep(c, b)
             on == isThinkingEnabled(b.thinking)
             force == b.thinking # "absent" /\ (on \/ ~c.policy.canDisable)
         IN /\ s \in Body /\ SameContents(s, b)
            /\ s.thinking = IF force THEN c.policy.shape ELSE b.thinking
            /\ s.max_tokens = IF on THEN c.policy.max_tokens ELSE b.max_tokens
            /\ s.output_config = IF force THEN c.policy.effort ELSE b.output_config
            /\ s.reasoning_effort = "absent"
            /\ s.temperature = b.temperature /\ s.top_k = b.top_k
            /\ s.context_management = b.context_management
<1>1. c.policy \in StampPolicy
  BY DEF StampContext
<1>2. c.policy.shape \in Shape /\ c.policy.max_tokens \in Int /\ c.policy.effort \in Effort
  BY <1>1 DEF StampPolicy
<1> DEFINE limited == IF isThinkingEnabled(b.thinking)
                      THEN [b EXCEPT !.max_tokens = c.policy.max_tokens] ELSE b
           force == b.thinking # "absent" /\ (isThinkingEnabled(b.thinking) \/ ~c.policy.canDisable)
           forced == IF force THEN [limited EXCEPT !.thinking = c.policy.shape] ELSE limited
           full == IF isThinkingEnabled(forced.thinking)
                   THEN [forced EXCEPT !.output_config = c.policy.effort] ELSE forced
<1>3. /\ limited \in Body /\ SameContents(limited, b)
      /\ limited.thinking = b.thinking /\ limited.output_config = b.output_config
      /\ limited.max_tokens = IF isThinkingEnabled(b.thinking) THEN c.policy.max_tokens ELSE b.max_tokens
      /\ limited.temperature = b.temperature /\ limited.top_k = b.top_k
      /\ limited.context_management = b.context_management
  BY <1>2 DEF Body, SameContents
<1> HIDE DEF limited
<1>4. /\ forced \in Body /\ SameContents(forced, b)
      /\ forced.thinking = IF force THEN c.policy.shape ELSE b.thinking
      /\ forced.output_config = b.output_config
      /\ forced.max_tokens = limited.max_tokens
      /\ forced.temperature = b.temperature /\ forced.top_k = b.top_k
      /\ forced.context_management = b.context_management
  BY <1>2, <1>3 DEF Body, SameContents, Shape
<1> HIDE DEF forced
<1>5. /\ full \in Body /\ SameContents(full, b)
      /\ full.thinking = forced.thinking /\ full.max_tokens = forced.max_tokens
      /\ full.output_config = IF isThinkingEnabled(forced.thinking) THEN c.policy.effort ELSE b.output_config
      /\ full.temperature = b.temperature /\ full.top_k = b.top_k
      /\ full.context_management = b.context_management
  BY <1>2, <1>4 DEF Body, SameContents
<1>6. isThinkingEnabled(forced.thinking) <=> force
  BY <1>2, <1>4 DEF isThinkingEnabled, Shape, Body, Thinking
<1>7. AnthropicBodyStep(c, b) = [full EXCEPT !.reasoning_effort = "absent"]
  BY DEF AnthropicBodyStep, stampThinking, limited, forced, isThinkingDisabled, isThinkingEnabled
<1> HIDE DEF full, force
<1>8. AnthropicBodyStep(c, b) \in Body /\ SameContents(AnthropicBodyStep(c, b), b)
  BY <1>5, <1>7 DEF Body, SameContents, Effort
<1> QED
  BY <1>3, <1>4, <1>5, <1>6, <1>7, <1>8 DEF Body, force

\* The rule of the model, where thinking revived on the Anthropic route brings
\* its fields with it.
LEMMA RuleStep ==
  ASSUME NEW c \in StampContext, NEW b \in Body
  PROVE  LET s == PerModelRuleStep(c, b)
             on == isThinkingEnabled(b.thinking)
             shape == IF c.openai THEN c.rule.openai ELSE c.rule.anthropic
         IN /\ s \in Body /\ SameContents(s, b)
            /\ s.thinking = b.thinking \/ (s.thinking = shape /\ shape \in Shape)
            /\ \/ s.max_tokens = b.max_tokens /\ s.output_config = b.output_config
               \/ /\ ~c.openai /\ ~on /\ s.thinking \in Shape
                  /\ s.max_tokens = c.policy.max_tokens /\ s.output_config = c.policy.effort
            /\ (~c.openai /\ ~on /\ s.thinking \in Shape) =>
                 s.max_tokens = c.policy.max_tokens /\ s.output_config = c.policy.effort
            /\ s.thinking # b.thinking /\ b.thinking = "off" =>
                 (IF c.openai THEN ~isReasoningEffortDisabled(b.reasoning_effort) ELSE ~c.policy.canDisable)
            /\ s.thinking # b.thinking /\ b.thinking = "absent" /\ c.openai =>
                 b.reasoning_effort # "none"
            /\ s.reasoning_effort = b.reasoning_effort
            /\ s.temperature = b.temperature /\ s.top_k = b.top_k
            /\ s.context_management = b.context_management
            /\ s.stream = b.stream /\ s.include_usage = b.include_usage
            /\ c.rule = NoRule => s = b
<1>1. c.policy \in StampPolicy /\ c.rule \in StampRule
  BY DEF StampContext
<1>2. /\ c.policy.max_tokens \in Int /\ c.policy.effort \in Effort
      /\ c.rule.anthropic \in Shape \cup {"none"} /\ c.rule.openai \in Shape \cup {"none"}
  BY <1>1 DEF StampPolicy, StampRule
<1> DEFINE on == isThinkingEnabled(b.thinking)
           shape == IF c.openai THEN c.rule.openai ELSE c.rule.anthropic
           silent == b.thinking = "absent" /\ (c.openai => b.reasoning_effort = "absent")
           applies == \/ on
                      \/ c.openai /\ ~isReasoningEffortDisabled(b.reasoning_effort)
                      \/ ~c.openai /\ ~c.policy.canDisable
                      \/ c.rule.force /\ silent
           plain == [b EXCEPT !.thinking = shape]
           limited == [plain EXCEPT !.max_tokens = c.policy.max_tokens]
           full == [limited EXCEPT !.output_config = c.policy.effort]
           shaped == IF shape = "none" \/ ~applies THEN b ELSE IF c.openai \/ on THEN plain ELSE full
           s == IF c.rule = NoRule THEN b
                ELSE IF c.rule.extra THEN [shaped EXCEPT !.extra = TRUE] ELSE shaped
<1>3. PerModelRuleStep(c, b) = s
  BY DEF PerModelRuleStep
<1>4. shape \in Shape \cup {"none"} /\ Shape \subseteq Thinking /\ "none" \notin Shape
  BY <1>2 DEF Shape, Thinking
<1>5. shape # "none" => plain \in Body
  BY <1>4 DEF Body
<1>6. /\ SameContents(plain, b) /\ plain.thinking = shape
      /\ plain.max_tokens = b.max_tokens /\ plain.output_config = b.output_config
      /\ plain.reasoning_effort = b.reasoning_effort /\ plain.temperature = b.temperature
      /\ plain.top_k = b.top_k /\ plain.context_management = b.context_management
      /\ plain.stream = b.stream /\ plain.include_usage = b.include_usage
  BY DEF Body, SameContents
<1> HIDE DEF plain, shape
<1>7. shape # "none" =>
        /\ full \in Body /\ SameContents(full, b) /\ full.thinking = shape
        /\ full.max_tokens = c.policy.max_tokens /\ full.output_config = c.policy.effort
        /\ full.reasoning_effort = b.reasoning_effort /\ full.temperature = b.temperature
        /\ full.top_k = b.top_k /\ full.context_management = b.context_management
        /\ full.stream = b.stream /\ full.include_usage = b.include_usage
  <2> SUFFICES ASSUME shape # "none"
               PROVE  /\ full \in Body /\ SameContents(full, b) /\ full.thinking = shape
                      /\ full.max_tokens = c.policy.max_tokens /\ full.output_config = c.policy.effort
                      /\ full.reasoning_effort = b.reasoning_effort /\ full.temperature = b.temperature
                      /\ full.top_k = b.top_k /\ full.context_management = b.context_management
                      /\ full.stream = b.stream /\ full.include_usage = b.include_usage
    OBVIOUS
  <2>1. plain \in Body
    BY <1>5
  <2>2. limited \in Body /\ SameContents(limited, b) /\ limited.thinking = shape
        /\ limited.max_tokens = c.policy.max_tokens
        /\ limited.reasoning_effort = b.reasoning_effort /\ limited.temperature = b.temperature
        /\ limited.top_k = b.top_k /\ limited.context_management = b.context_management
        /\ limited.stream = b.stream /\ limited.include_usage = b.include_usage
    BY <1>2, <1>6, <2>1 DEF Body, SameContents
  <2> HIDE DEF limited
  <2> QED
    BY <1>2, <2>2 DEF Body, SameContents
<1> HIDE DEF full
<1>8. on <=> b.thinking \in Shape
  BY DEF Shape, isThinkingEnabled, Body
<1>9. shaped \in Body
  BY <1>5, <1>7
<1> DEFINE full2 == [shaped EXCEPT !.extra = TRUE]
           Same(x, y) == /\ SameContents(x, y) /\ x.thinking = y.thinking /\ x.max_tokens = y.max_tokens
                         /\ x.output_config = y.output_config /\ x.reasoning_effort = y.reasoning_effort
                         /\ x.temperature = y.temperature /\ x.top_k = y.top_k
                         /\ x.context_management = y.context_management
                         /\ x.stream = y.stream /\ x.include_usage = y.include_usage
<1>10. full2 \in Body /\ Same(full2, shaped)
  <2> HIDE DEF shaped
  <2> QED
    BY <1>9 DEF Body, SameContents
<1>11. CASE c.rule = NoRule
  <2>1. s = b
    BY <1>11
  <2>2. SameContents(b, b)
    BY DEF SameContents
  <2> HIDE DEF s
  <2> QED
    BY <1>3, <1>8, <1>11, <2>1, <2>2
<1>12. CASE c.rule # NoRule
  <2>1. s \in Body /\ Same(s, shaped)
    <3>1. Same(shaped, shaped)
      BY DEF SameContents
    <3>2. s = IF c.rule.extra THEN full2 ELSE shaped
      BY <1>12
    <3> HIDE DEF s, full2, shaped
    <3>3. CASE c.rule.extra
      BY <1>10, <3>2, <3>3
    <3>4. CASE ~c.rule.extra
      BY <1>9, <3>1, <3>2, <3>4
    <3> QED
      BY <3>3, <3>4
  <2> HIDE DEF s, full2
  <2>2. CASE shape = "none" \/ ~applies
    <3>1. shaped = b
      BY <2>2
    <3>2. s.thinking = b.thinking /\ s.max_tokens = b.max_tokens /\ s.output_config = b.output_config
      BY <2>1, <3>1
    <3> HIDE DEF shaped, applies
    <3> QED
      BY <1>3, <1>8, <1>12, <2>1, <3>1, <3>2
  <2>3. CASE shape # "none" /\ applies /\ (c.openai \/ on)
    <3>1. shaped = plain
      BY <2>3
    <3> HIDE DEF shaped
    <3>2. s.thinking = shape /\ s.max_tokens = b.max_tokens /\ s.output_config = b.output_config
      BY <1>6, <2>1, <3>1
    <3> QED
      BY <1>3, <1>4, <1>6, <1>8, <1>12, <2>1, <2>3, <3>1, <3>2 DEF SameContents, shape, isReasoningEffortDisabled, isThinkingEnabled
  <2>4. CASE shape # "none" /\ applies /\ ~(c.openai \/ on)
    <3>1. shaped = full
      BY <2>4
    <3> HIDE DEF shaped
    <3>2. /\ s.thinking = shape /\ s.max_tokens = c.policy.max_tokens /\ s.output_config = c.policy.effort
      BY <1>7, <2>1, <2>4, <3>1
    <3> QED
      BY <1>3, <1>4, <1>7, <1>8, <1>12, <2>1, <2>4, <3>1, <3>2 DEF SameContents, shape, isThinkingEnabled
  <2> QED
    BY <2>2, <2>3, <2>4
<1> QED
  BY <1>11, <1>12

\* The steps that set one field.
LEMMA ContextStep ==
  ASSUME NEW c \in StampContext, NEW b \in Body
  PROVE  LET s == ContextManagementStep(c, b) IN
         /\ s \in Body /\ SameContents(s, b)
         /\ s.context_management = (b.context_management \/ (Anthropic(c) /\ isThinkingEnabled(b.thinking)))
         /\ s.thinking = b.thinking /\ s.reasoning_effort = b.reasoning_effort
         /\ s.output_config = b.output_config /\ s.max_tokens = b.max_tokens
         /\ s.temperature = b.temperature /\ s.top_k = b.top_k
         /\ s.stream = b.stream /\ s.include_usage = b.include_usage
         /\ ~Anthropic(c) => s = b
<1>1. CASE Anthropic(c) /\ isThinkingEnabled(b.thinking)
  <2> DEFINE s == [b EXCEPT !.context_management = TRUE]
  <2>1. /\ s \in Body /\ SameContents(s, b) /\ s.context_management = TRUE
        /\ s.thinking = b.thinking /\ s.reasoning_effort = b.reasoning_effort
        /\ s.output_config = b.output_config /\ s.max_tokens = b.max_tokens
        /\ s.temperature = b.temperature /\ s.top_k = b.top_k
        /\ s.stream = b.stream /\ s.include_usage = b.include_usage
    BY DEF Body, SameContents
  <2>2. ContextManagementStep(c, b) = s
    BY <1>1 DEF ContextManagementStep
  <2> HIDE DEF s
  <2> QED
    BY <1>1, <2>1, <2>2
<1>2. CASE ~(Anthropic(c) /\ isThinkingEnabled(b.thinking))
  <2>1. ContextManagementStep(c, b) = b /\ SameContents(b, b) /\ b.context_management \in BOOLEAN
    BY <1>2 DEF ContextManagementStep, SameContents, Body
  <2> QED
    BY <1>2, <2>1
<1> QED
  BY <1>1, <1>2

\* A stream of the OpenAI route reports its usage.
LEMMA StreamUsageStep ==
  ASSUME NEW c \in StampContext, NEW b \in Body
  PROVE  LET s == OpenAiStreamUsageStep(c, b) IN
         /\ s \in Body /\ SameContents(s, b)
         /\ s.thinking = b.thinking /\ s.reasoning_effort = b.reasoning_effort
         /\ s.output_config = b.output_config /\ s.max_tokens = b.max_tokens
         /\ s.temperature = b.temperature /\ s.top_k = b.top_k
         /\ s.context_management = b.context_management
         /\ (OpenAi(c) /\ b.stream) => s.include_usage
         /\ ~OpenAi(c) => s = b
<1>1. CASE OpenAi(c) /\ b.stream
  <2> DEFINE s == [b EXCEPT !.include_usage = TRUE]
  <2>1. /\ s \in Body /\ SameContents(s, b) /\ s.include_usage = TRUE
        /\ s.thinking = b.thinking /\ s.reasoning_effort = b.reasoning_effort
        /\ s.output_config = b.output_config /\ s.max_tokens = b.max_tokens
        /\ s.temperature = b.temperature /\ s.top_k = b.top_k
        /\ s.context_management = b.context_management
    BY DEF Body, SameContents
  <2>2. OpenAiStreamUsageStep(c, b) = s
    BY <1>1 DEF OpenAiStreamUsageStep
  <2> HIDE DEF s
  <2> QED
    BY <1>1, <2>1, <2>2
<1>2. CASE ~(OpenAi(c) /\ b.stream)
  <2>1. OpenAiStreamUsageStep(c, b) = b /\ SameContents(b, b)
    BY <1>2 DEF OpenAiStreamUsageStep, SameContents
  <2> QED
    BY <1>2, <2>1
<1> QED
  BY <1>1, <1>2

\* top_k is filled in for the models that take it.
LEMMA TopKSet ==
  ASSUME NEW c \in StampContext, NEW b \in Body
  PROVE  LET s == TopKStep(c, b) IN
         /\ s \in Body /\ SameContents(s, b)
         /\ s.thinking = b.thinking /\ s.reasoning_effort = b.reasoning_effort
         /\ s.output_config = b.output_config /\ s.max_tokens = b.max_tokens
         /\ s.temperature = b.temperature /\ s.context_management = b.context_management
         /\ s.include_usage = b.include_usage
         /\ Anthropic(c) =>
              IF isThinkingEnabled(b.thinking) THEN c.policy.top_k => s.top_k # "absent"
              ELSE s.top_k = b.top_k
         /\ (~Anthropic(c) /\ ~OpenAi(c)) => s = b
<1> DEFINE sets == /\ Anthropic(c) \/ OpenAi(c)
                   /\ c.policy.top_k
                   /\ IF c.openai THEN b.reasoning_effort # "absent" ELSE isThinkingEnabled(b.thinking)
                   /\ b.top_k = "absent"
<1>1. CASE sets
  <2> DEFINE s == [b EXCEPT !.top_k = "twenty"]
  <2>1. /\ s \in Body /\ SameContents(s, b) /\ s.top_k = "twenty"
        /\ s.thinking = b.thinking /\ s.reasoning_effort = b.reasoning_effort
        /\ s.output_config = b.output_config /\ s.max_tokens = b.max_tokens
        /\ s.temperature = b.temperature /\ s.context_management = b.context_management
        /\ s.include_usage = b.include_usage
    BY DEF Body, SameContents
  <2>2. TopKStep(c, b) = s
    BY <1>1 DEF TopKStep
  <2> HIDE DEF s
  <2> QED
    BY <1>1, <2>1, <2>2 DEF Anthropic
<1>2. CASE ~sets
  <2>1. TopKStep(c, b) = b /\ SameContents(b, b)
    BY <1>2 DEF TopKStep, SameContents
  <2> QED
    BY <1>2, <2>1 DEF Anthropic
<1> QED
  BY <1>1, <1>2

\* The temperature goes with thinking.
LEMMA TemperatureSet ==
  ASSUME NEW c \in StampContext, NEW b \in Body
  PROVE  LET s == TemperatureStep(c, b) IN
         /\ s \in Body /\ SameContents(s, b)
         /\ s.thinking = b.thinking /\ s.reasoning_effort = b.reasoning_effort
         /\ s.output_config = b.output_config /\ s.max_tokens = b.max_tokens
         /\ s.top_k = b.top_k /\ s.context_management = b.context_management
         /\ s.temperature = IF Anthropic(c) /\ isThinkingEnabled(b.thinking) THEN "one" ELSE b.temperature
         /\ ~Anthropic(c) => s = b
<1>1. CASE Anthropic(c) /\ isThinkingEnabled(b.thinking)
  <2> DEFINE s == [b EXCEPT !.temperature = "one"]
  <2>1. /\ s \in Body /\ SameContents(s, b) /\ s.temperature = "one"
        /\ s.thinking = b.thinking /\ s.reasoning_effort = b.reasoning_effort
        /\ s.output_config = b.output_config /\ s.max_tokens = b.max_tokens
        /\ s.top_k = b.top_k /\ s.context_management = b.context_management
    BY DEF Body, SameContents
  <2>2. TemperatureStep(c, b) = s
    BY <1>1 DEF TemperatureStep
  <2> HIDE DEF s
  <2> QED
    BY <1>1, <2>1, <2>2
<1>2. CASE ~(Anthropic(c) /\ isThinkingEnabled(b.thinking))
  <2>1. TemperatureStep(c, b) = b /\ SameContents(b, b)
    BY <1>2 DEF TemperatureStep, SameContents
  <2> QED
    BY <1>2, <2>1
<1> QED
  BY <1>1, <1>2

\* stampReasoning().
LEMMA ReasoningStep ==
  ASSUME NEW c \in StampContext, NEW b \in Body
  PROVE  LET s == OpenAiReasoningStep(c, b) IN
         /\ s \in Body /\ SameContents(s, b)
         /\ s.thinking = b.thinking /\ s.stream = b.stream /\ s.include_usage = b.include_usage
         /\ s.top_k = b.top_k
         /\ s.reasoning_effort # b.reasoning_effort =>
              /\ s.reasoning_effort = c.policy.effort /\ s.temperature = "one"
              /\ s.output_config = "absent" /\ ~s.context_management /\ ~c.rule.veto
              /\ ~(b.reasoning_effort = "none" /\ c.policy.canDisable)
         /\ ~OpenAi(c) => s = b
<1>1. c.policy.effort \in Effort
  BY DEF StampContext, StampPolicy
<1> DEFINE veto == c.rule.veto
           active == IF veto THEN isThinkingEnabled(b.thinking)
                     ELSE IF b.reasoning_effort = "absent" THEN isThinkingEnabled(b.thinking)
                     ELSE ~(isReasoningEffortDisabled(b.reasoning_effort) /\ c.policy.canDisable)
           effort == IF veto THEN b.reasoning_effort ELSE c.policy.effort
           s == [b EXCEPT !.reasoning_effort = effort, !.output_config = "absent",
                          !.context_management = FALSE, !.temperature = "one"]
<1>2. CASE OpenAi(c) /\ active
  <2>1. OpenAiReasoningStep(c, b) = s
    BY <1>2 DEF OpenAiReasoningStep, stampReasoning
  <2>2. effort \in Effort
    BY <1>1 DEF Body
  <2>3. (effort # b.reasoning_effort) => effort = c.policy.effort /\ ~veto /\ ~(b.reasoning_effort = "none" /\ c.policy.canDisable)
    BY <1>2 DEF isReasoningEffortDisabled
  <2> HIDE DEF effort, active
  <2>4. /\ s \in Body /\ SameContents(s, b)
        /\ s.thinking = b.thinking /\ s.stream = b.stream /\ s.include_usage = b.include_usage
        /\ s.top_k = b.top_k
        /\ s.reasoning_effort = effort /\ s.output_config = "absent" /\ s.temperature = "one"
        /\ s.context_management = FALSE
    BY <2>2 DEF Body, SameContents, Effort
  <2> HIDE DEF s
  <2> QED
    BY <1>2, <2>1, <2>3, <2>4
<1>3. CASE ~(OpenAi(c) /\ active)
  <2>1. OpenAiReasoningStep(c, b) = b /\ SameContents(b, b)
    BY <1>3 DEF OpenAiReasoningStep, stampReasoning, SameContents
  <2> HIDE DEF active
  <2> QED
    BY <2>1
<1> QED
  BY <1>2, <1>3

\* The blocks that stay, in their order: each has a position of its own, and if
\* the last block stays it stays last.
LEMMA Staying ==
  ASSUME NEW blocks \in Seq(Block)
  PROVE  LET r == WithoutReminder(blocks)
             n == Len(blocks) IN
         /\ r \in Seq(Block)
         /\ \A m \in 1 .. Len(r) : \E k \in 1 .. n :
              r[m] = blocks[k] /\ ~blocks[k].omo /\ (k = n => m = Len(r))
         /\ (blocks # <<>> /\ ~blocks[n].omo) => r # <<>> /\ r[Len(r)] = blocks[n]
<1> DEFINE staying == {k \in DOMAIN blocks : ~blocks[k].omo}
           size == Cardinality(staying)
           upto(k) == {j \in staying : j <= k}
           rank == [k \in staying |-> Cardinality(upto(k))]
           nth(m) == CHOOSE k \in staying : Cardinality(upto(k)) = m
           r == [m \in 1 .. size |-> blocks[nth(m)]]
           n == Len(blocks)
<1>1. n \in Nat /\ DOMAIN blocks = 1 .. n /\ \A k \in 1 .. n : blocks[k] \in Block
  OBVIOUS
<1>2. WithoutReminder(blocks) = r
  BY DEF WithoutReminder
<1>3. staying \subseteq 1 .. n /\ IsFiniteSet(staying) /\ size \in Nat
  <2>1. staying \in SUBSET (1 .. n)
    BY <1>1
  <2>2. IsFiniteSet(1 .. n)
    BY <1>1, FS_Interval
  <2> HIDE DEF staying
  <2> QED
    BY <2>1, <2>2, FS_Subset, FS_CardinalityType
<1>4. \A k \in staying : /\ upto(k) \in SUBSET staying /\ IsFiniteSet(upto(k))
                         /\ Cardinality(upto(k)) \in 1 .. size
  <2> SUFFICES ASSUME NEW k \in staying
               PROVE  /\ upto(k) \in SUBSET staying /\ IsFiniteSet(upto(k))
                      /\ Cardinality(upto(k)) \in 1 .. size
    OBVIOUS
  <2>1. upto(k) \in SUBSET staying /\ k \in upto(k)
    BY <1>3
  <2> HIDE DEF upto, staying
  <2>2. IsFiniteSet(upto(k)) /\ Cardinality(upto(k)) <= size /\ Cardinality(upto(k)) \in Nat
    BY <1>3, <2>1, FS_Subset, FS_CardinalityType
  <2>3. Cardinality(upto(k)) # 0
    BY <2>1, <2>2, FS_EmptySet
  <2> QED
    BY <1>3, <2>1, <2>2, <2>3
<1>5. \A j, k \in staying : j < k => Cardinality(upto(j)) < Cardinality(upto(k))
  <2> SUFFICES ASSUME NEW j \in staying, NEW k \in staying, j < k
               PROVE  Cardinality(upto(j)) < Cardinality(upto(k))
    OBVIOUS
  <2>1. upto(j) \in SUBSET upto(k) /\ k \in upto(k) /\ k \notin upto(j)
    BY <1>3
  <2> HIDE DEF upto, staying
  <2>2. IsFiniteSet(upto(k)) /\ Cardinality(upto(k)) \in Nat /\ Cardinality(upto(j)) \in Nat
    BY <1>4, <1>3
  <2>3. Cardinality(upto(j)) <= Cardinality(upto(k)) /\ Cardinality(upto(j)) # Cardinality(upto(k))
    BY <2>1, <2>2, FS_Subset
  <2> QED
    BY <2>2, <2>3
<1>6. rank \in Injection(staying, 1 .. size)
  <2>1. rank \in [staying -> 1 .. size]
    <3> HIDE DEF upto, staying
    <3> QED
      BY <1>4
  <2>2. ASSUME NEW j \in staying, NEW k \in staying, rank[j] = rank[k] PROVE j = k
    <3>1. j \in Nat /\ k \in Nat
      BY <1>1, <1>3
    <3>2. rank[j] = Cardinality(upto(j)) /\ rank[k] = Cardinality(upto(k))
      OBVIOUS
    <3>3. rank[j] \in 1 .. size /\ rank[k] \in 1 .. size
      BY <2>1
    <3>4. rank[j] \in Int /\ rank[k] \in Int
      BY <1>3, <3>3
    <3> HIDE DEF rank, upto, staying, size
    <3>5. j < k => rank[j] < rank[k]
      BY <1>5, <3>2
    <3>6. k < j => rank[k] < rank[j]
      BY <1>5, <3>2
    <3> QED
      BY <2>2, <3>1, <3>4, <3>5, <3>6
  <2> HIDE DEF rank, staying
  <2> QED
    BY <2>1, <2>2 DEF Injection, IsInjective
<1>7. rank \in Surjection(staying, 1 .. size)
  <2>1. IsFiniteSet(1 .. size) /\ Cardinality(1 .. size) = size
    BY <1>3, FS_Interval
  <2> HIDE DEF rank, staying
  <2> QED
    BY <1>3, <1>6, <2>1, FS_Injection
<1>8. \A m \in 1 .. size : nth(m) \in staying /\ Cardinality(upto(nth(m))) = m
  <2> SUFFICES ASSUME NEW m \in 1 .. size PROVE nth(m) \in staying /\ Cardinality(upto(nth(m))) = m
    OBVIOUS
  <2>1. PICK k \in staying : rank[k] = m
    <3> HIDE DEF rank, staying
    <3> QED
      BY <1>7 DEF Surjection
  <2>2. \E j \in staying : Cardinality(upto(j)) = m
    BY <2>1
  <2> HIDE DEF upto, staying
  <2> QED
    BY <2>2
<1>9. r \in Seq(Block) /\ Len(r) = size
  <2>1. \A m \in 1 .. size : nth(m) \in 1 .. n
    <3> HIDE DEF nth, staying, upto
    <3> QED
      BY <1>3, <1>8
  <2>2. \A m \in 1 .. size : blocks[nth(m)] \in Block
    <3> HIDE DEF nth
    <3> QED
      BY <1>1, <2>1
  <2> HIDE DEF nth, size
  <2> QED
    BY <1>3, <2>2
<1>10. \A m \in 1 .. size : r[m] = blocks[nth(m)]
  OBVIOUS
<1>11. \A k \in staying : k = n => Cardinality(upto(k)) = size
  <2> SUFFICES ASSUME n \in staying PROVE Cardinality(upto(n)) = size
    OBVIOUS
  <2>1. upto(n) = staying
    BY <1>3, <1>1
  <2> QED
    BY <2>1
<1>12. \A k \in staying : k \in 1 .. n /\ ~blocks[k].omo
  BY <1>1
<1> HIDE DEF r
<1>13. ASSUME NEW m \in 1 .. Len(r)
       PROVE  \E k \in 1 .. n : r[m] = blocks[k] /\ ~blocks[k].omo /\ (k = n => m = Len(r))
  <2> DEFINE k == nth(m)
  <2>1. k \in staying /\ Cardinality(upto(k)) = m /\ r[m] = blocks[k]
    <3> HIDE DEF nth, staying, upto
    <3> QED
      BY <1>8, <1>9, <1>10
  <2> HIDE DEF k, staying, upto
  <2> QED
    BY <1>9, <1>11, <1>12, <2>1
<1>14. ASSUME blocks # <<>>, ~blocks[n].omo
       PROVE  r # <<>> /\ r[Len(r)] = blocks[n]
  <2>1. n \in staying
    BY <1>1, <1>14
  <2>2. Cardinality(upto(n)) = size /\ size \in 1 .. size
    <3> HIDE DEF staying, upto
    <3> QED
      BY <1>3, <1>4, <1>11, <2>1
  <2>3. nth(size) = n
    <3> DEFINE k == nth(size)
    <3>1. k \in staying /\ Cardinality(upto(k)) = size
      <4> HIDE DEF nth, staying, upto
      <4> QED
        BY <1>8, <2>2
    <3>2. rank[k] = rank[n]
      BY <2>1, <2>2, <3>1
    <3> HIDE DEF k, rank, staying
    <3>3. k = n
      BY <1>6, <2>1, <3>1, <3>2 DEF Injection, IsInjective
    <3> QED
      BY <3>3 DEF k
  <2>4. r[size] = blocks[nth(size)]
    <3> HIDE DEF nth, size
    <3> QED
      BY <1>10, <2>2
  <2>5. r # <<>>
    BY <1>9, <2>2
  <2> QED
    BY <1>9, <2>3, <2>4, <2>5
<1> HIDE DEF staying, rank, nth
<1> QED
  BY <1>2, <1>9, <1>13, <1>14

\* Layout B: breakpoints on the tip of b, and on the first block of the system.
LaidOut(s, b) ==
  /\ Len(s.messages) = Len(b.messages)
  /\ \A i \in 1 .. Len(b.messages) :
       /\ Len(s.messages[i].blocks) = Len(b.messages[i].blocks)
       /\ \A k \in 1 .. Len(b.messages[i].blocks) :
            /\ hasBreakpoint(s.messages[i].blocks[k]) <=> (i = LastUser(b.messages) /\ k = Len(b.messages[i].blocks))
            /\ s.messages[i].blocks[k].omo = b.messages[i].blocks[k].omo
  /\ \A k \in 1 .. Len(s.system) : hasBreakpoint(s.system[k]) => k = 1

\* Every breakpoint has its ttl.
WithTtl(blocks) == \A k \in 1 .. Len(blocks) : blocks[k].bp \in {"none", "ttl"}
AllWithTtl(s) == WithTtl(s.system) /\ \A i \in 1 .. Len(s.messages) : WithTtl(s.messages[i].blocks)

\* What is done to one block.
LEMMA OneBlock ==
  ASSUME NEW k \in Block
  PROVE  /\ WithBreakpoint(k) \in Block /\ WithoutBreakpoint(k) \in Block /\ [k EXCEPT !.bp = "ttl"] \in Block
         /\ hasBreakpoint(WithBreakpoint(k)) /\ ~hasBreakpoint(WithoutBreakpoint(k))
         /\ WithBreakpoint(k).omo = k.omo /\ WithoutBreakpoint(k).omo = k.omo
         /\ [k EXCEPT !.bp = "ttl"].omo = k.omo /\ [k EXCEPT !.bp = "ttl"].bp = "ttl"
         /\ k.bp = "ttl" => [k EXCEPT !.bp = "ttl"] = k
  BY DEF Block, WithBreakpoint, WithoutBreakpoint, hasBreakpoint

\* restampBreakpoints().
LEMMA RestampStep ==
  ASSUME NEW c \in StampContext, NEW b \in Body, Anthropic(c)
  PROVE  LET s == RestampBreakpointsStep(c, b) IN
         s \in Body /\ SameFields(s, b) /\ (b.messages # <<>> => LaidOut(s, b))
<1> DEFINE ms == b.messages
           tip == LastUser(ms)
           blocks(i) == ms[i].blocks
           nb(i) == [k \in DOMAIN blocks(i) |-> IF i = tip /\ k = Len(blocks(i))
                                                THEN WithBreakpoint(blocks(i)[k])
                                                ELSE WithoutBreakpoint(blocks(i)[k])]
           nm == [i \in DOMAIN ms |-> [ms[i] EXCEPT !.blocks = nb(i)]]
           sys == [k \in DOMAIN b.system |->
                     IF k > 1 THEN WithoutBreakpoint(b.system[k])
                     ELSE IF b.system[k].text THEN WithBreakpoint(b.system[k]) ELSE b.system[k]]
           s1 == [b EXCEPT !.messages = nm]
           s2 == [s1 EXCEPT !.system = sys]
<1>1. /\ ms \in Seq(Message) /\ b.system \in Seq(Block)
      /\ Len(ms) \in Nat /\ Len(b.system) \in Nat
      /\ DOMAIN ms = 1 .. Len(ms) /\ DOMAIN b.system = 1 .. Len(b.system)
      /\ \A i \in 1 .. Len(ms) : ms[i] \in Message
      /\ \A k \in 1 .. Len(b.system) : b.system[k] \in Block
  BY DEF Body
<1>2. \A i \in 1 .. Len(ms) : /\ blocks(i) \in Seq(Block) /\ Len(blocks(i)) \in Nat
                              /\ DOMAIN blocks(i) = 1 .. Len(blocks(i))
                              /\ \A k \in 1 .. Len(blocks(i)) : blocks(i)[k] \in Block
  <2> SUFFICES ASSUME NEW i \in 1 .. Len(ms)
               PROVE  /\ blocks(i) \in Seq(Block) /\ Len(blocks(i)) \in Nat
                      /\ DOMAIN blocks(i) = 1 .. Len(blocks(i))
                      /\ \A k \in 1 .. Len(blocks(i)) : blocks(i)[k] \in Block
    OBVIOUS
  <2>1. blocks(i) \in Seq(Block)
    BY <1>1 DEF Message
  <2> HIDE DEF blocks
  <2> QED
    BY <2>1
<1>3. CASE ms = <<>>
  BY <1>3 DEF RestampBreakpointsStep, restampBreakpoints, SameFields
<1>4. CASE ms # <<>>
  <2>1. RestampBreakpointsStep(c, b) = [b EXCEPT !.messages = nm, !.system = sys]
    BY <1>4 DEF RestampBreakpointsStep, restampBreakpoints
  <2>2. ASSUME NEW i \in 1 .. Len(ms)
        PROVE  /\ nb(i) \in Seq(Block) /\ Len(nb(i)) = Len(blocks(i))
               /\ \A k \in 1 .. Len(blocks(i)) :
                    /\ hasBreakpoint(nb(i)[k]) <=> (i = tip /\ k = Len(blocks(i)))
                    /\ nb(i)[k].omo = blocks(i)[k].omo
               /\ nm[i] \in Message /\ nm[i].blocks = nb(i)
    <3> HIDE DEF blocks, tip
    <3>1. \A k \in 1 .. Len(blocks(i)) :
             /\ nb(i)[k] \in Block
             /\ hasBreakpoint(nb(i)[k]) <=> (i = tip /\ k = Len(blocks(i)))
             /\ nb(i)[k].omo = blocks(i)[k].omo
      BY <1>2, OneBlock
    <3>2. DOMAIN nb(i) = 1 .. Len(blocks(i)) /\ nb(i) = [k \in 1 .. Len(blocks(i)) |-> nb(i)[k]]
      BY <1>2
    <3> HIDE DEF nb
    <3>3. nb(i) \in Seq(Block) /\ Len(nb(i)) = Len(blocks(i))
      BY <1>2, <3>1, <3>2
    <3>4. nm[i] = [ms[i] EXCEPT !.blocks = nb(i)] /\ ms[i] \in Message
      BY <1>1
    <3> HIDE DEF nm, ms
    <3>5. nm[i] \in Message /\ nm[i].blocks = nb(i)
      BY <3>3, <3>4 DEF Message
    <3> QED
      BY <3>1, <3>3, <3>5
  <2>3. nm \in Seq(Message) /\ Len(nm) = Len(ms)
    <3>1. nm = [i \in 1 .. Len(ms) |-> nm[i]]
      BY <1>1
    <3> HIDE DEF nm, nb, blocks, ms
    <3> QED
      BY <1>1, <2>2, <3>1
  <2>4. /\ sys \in Seq(Block) /\ Len(sys) = Len(b.system)
        /\ \A k \in 1 .. Len(sys) : hasBreakpoint(sys[k]) => k = 1
    <3>1. \A k \in 1 .. Len(b.system) : sys[k] \in Block /\ (hasBreakpoint(sys[k]) => k = 1)
      <4> SUFFICES ASSUME NEW k \in 1 .. Len(b.system)
                   PROVE  sys[k] \in Block /\ (hasBreakpoint(sys[k]) => k = 1)
        OBVIOUS
      <4> DEFINE x == b.system[k]
      <4>1. x \in Block /\ k \in DOMAIN b.system /\ (~(k > 1) => k = 1)
        BY <1>1
      <4>2. sys[k] = IF k > 1 THEN WithoutBreakpoint(x) ELSE IF x.text THEN WithBreakpoint(x) ELSE x
        BY <4>1
      <4> HIDE DEF sys, x
      <4> QED
        BY <4>1, <4>2, OneBlock
    <3>2. sys = [k \in 1 .. Len(b.system) |-> sys[k]]
      BY <1>1
    <3> DEFINE m == Len(b.system)
    <3>3. sys \in Seq(Block) /\ Len(sys) = Len(b.system)
      <4>1. m \in Nat /\ sys = [k \in 1 .. m |-> sys[k]] /\ \A k \in 1 .. m : sys[k] \in Block
        BY <1>1, <3>1, <3>2
      <4> HIDE DEF sys, m
      <4>2. sys \in Seq(Block) /\ Len(sys) = m
        BY <4>1
      <4> QED
        BY <4>2 DEF m
    <3> HIDE DEF sys
    <3> QED
      BY <3>1, <3>3
  <2> HIDE DEF nm, sys
  <2>5. s1 \in Body /\ SameFields(s1, b) /\ s1.messages = nm /\ s1.system = b.system
    BY <2>3 DEF Body, SameFields
  <2>6. [b EXCEPT !.messages = nm, !.system = sys] = s2
    BY DEF Body
  <2> HIDE DEF s1
  <2>7. s2 \in Body /\ SameFields(s2, s1) /\ s2.messages = nm /\ s2.system = sys
    BY <2>4, <2>5 DEF Body, SameFields
  <2>8. SameFields(s2, b)
    BY <2>5, <2>7 DEF SameFields
  <2> HIDE DEF s2
  <2>9. LaidOut(s2, b)
    <3> HIDE DEF nb
    <3> QED
      BY <2>2, <2>3, <2>4, <2>7 DEF LaidOut
  <2> QED
    BY <2>1, <2>6, <2>7, <2>8, <2>9
<1> QED
  BY <1>3, <1>4

\* stampCacheTtl() of a sequence of blocks.
Stamped(blocks) ==
  [k \in DOMAIN blocks |->
     IF hasBreakpoint(blocks[k]) THEN [blocks[k] EXCEPT !.bp = "ttl"] ELSE blocks[k]]

\* Every breakpoint of a list of blocks gets its ttl.
LEMMA TtlBlocks ==
  ASSUME NEW blocks \in Seq(Block)
  PROVE  /\ Stamped(blocks) \in Seq(Block) /\ Len(Stamped(blocks)) = Len(blocks) /\ WithTtl(Stamped(blocks))
         /\ \A k \in 1 .. Len(blocks) :
              /\ hasBreakpoint(Stamped(blocks)[k]) <=> hasBreakpoint(blocks[k])
              /\ Stamped(blocks)[k].omo = blocks[k].omo
         /\ WithTtl(blocks) => Stamped(blocks) = blocks
<1> DEFINE n == Len(blocks)
           t == Stamped(blocks)
<1>1. n \in Nat /\ DOMAIN blocks = 1 .. n /\ \A k \in 1 .. n : blocks[k] \in Block
  OBVIOUS
<1>2. t = [k \in 1 .. n |-> t[k]]
  BY <1>1 DEF Stamped
<1>3. \A k \in 1 .. n :
        t[k] = IF hasBreakpoint(blocks[k]) THEN [blocks[k] EXCEPT !.bp = "ttl"] ELSE blocks[k]
  BY <1>1 DEF Stamped
<1> HIDE DEF t
<1>4. ASSUME NEW k \in 1 .. n
      PROVE  /\ t[k] \in Block /\ t[k].bp \in {"none", "ttl"} /\ t[k].omo = blocks[k].omo
             /\ hasBreakpoint(t[k]) <=> hasBreakpoint(blocks[k])
             /\ blocks[k].bp \in {"none", "ttl"} => t[k] = blocks[k]
  <2> DEFINE x == blocks[k]
  <2>1. x \in Block /\ t[k] = IF hasBreakpoint(x) THEN [x EXCEPT !.bp = "ttl"] ELSE x
    BY <1>1, <1>3
  <2> HIDE DEF x
  <2>2. /\ t[k] \in Block /\ t[k].bp \in {"none", "ttl"} /\ t[k].omo = x.omo
        /\ hasBreakpoint(t[k]) <=> hasBreakpoint(x)
        /\ x.bp \in {"none", "ttl"} => t[k] = x
    BY <2>1, OneBlock DEF hasBreakpoint
  <2> QED
    BY <2>2 DEF x
<1>5. t \in Seq(Block) /\ Len(t) = n
  <2> HIDE DEF n
  <2> QED
    BY <1>1, <1>2, <1>4
<1>6. WithTtl(t)
  BY <1>4, <1>5 DEF WithTtl
<1>7. WithTtl(blocks) => t = blocks
  <2> SUFFICES ASSUME WithTtl(blocks) PROVE t = blocks
    OBVIOUS
  <2>1. \A k \in 1 .. n : t[k] = blocks[k]
    BY <1>4 DEF WithTtl
  <2>2. t = [k \in 1 .. n |-> blocks[k]] /\ blocks = [k \in 1 .. n |-> blocks[k]]
    BY <1>1, <1>2, <2>1
  <2> QED
    BY <2>2
<1>8. \A k \in 1 .. n : /\ hasBreakpoint(t[k]) <=> hasBreakpoint(blocks[k])
                        /\ t[k].omo = blocks[k].omo
  BY <1>4
<1> QED
  BY <1>5, <1>6, <1>7, <1>8 DEF t

\* stampCacheTtl() of a body: once is enough.
LEMMA TtlStep ==
  ASSUME NEW b \in Body
  PROVE  /\ stampCacheTtl(b) \in Body /\ SameFields(stampCacheTtl(b), b) /\ AllWithTtl(stampCacheTtl(b))
         /\ \A b0 \in Body : LaidOut(b, b0) => LaidOut(stampCacheTtl(b), b0)
         /\ AllWithTtl(b) => stampCacheTtl(b) = b
<1> DEFINE ms == b.messages
           nm == [i \in DOMAIN ms |-> [ms[i] EXCEPT !.blocks = Stamped(ms[i].blocks)]]
           sys == Stamped(b.system)
           s1 == [b EXCEPT !.system = sys]
           s2 == [s1 EXCEPT !.messages = nm]
<1>1. /\ ms \in Seq(Message) /\ b.system \in Seq(Block) /\ Len(ms) \in Nat
      /\ DOMAIN ms = 1 .. Len(ms)
      /\ \A i \in 1 .. Len(ms) : ms[i] \in Message /\ ms[i].blocks \in Seq(Block)
  <2>1. ms \in Seq(Message) /\ b.system \in Seq(Block)
    BY DEF Body
  <2> HIDE DEF ms
  <2>2. \A m \in Message : m.blocks \in Seq(Block)
    BY DEF Message
  <2> QED
    BY <2>1, <2>2
<1>2. stampCacheTtl(b) = [b EXCEPT !.system = sys, !.messages = nm]
  BY DEF stampCacheTtl, Stamped
<1>3. ASSUME NEW i \in 1 .. Len(ms)
      PROVE  /\ nm[i] \in Message /\ nm[i].blocks = Stamped(ms[i].blocks)
             /\ WithTtl(ms[i].blocks) => nm[i] = ms[i]
  <2> DEFINE x == ms[i]
             y == Stamped(x.blocks)
  <2>1. nm[i] = [x EXCEPT !.blocks = y] /\ x \in Message
    BY <1>1
  <2>2. y \in Seq(Block) /\ (WithTtl(x.blocks) => y = x.blocks)
    BY <1>1, TtlBlocks
  <2>3. nm[i] \in Message /\ nm[i].blocks = y /\ (WithTtl(x.blocks) => nm[i] = x)
    <3> HIDE DEF nm, x, y
    <3> QED
      BY <2>1, <2>2 DEF Message
  <2> HIDE DEF nm
  <2> QED
    BY <2>3
<1>4. nm = [i \in 1 .. Len(ms) |-> nm[i]]
  BY <1>1
<1>5. nm \in Seq(Message) /\ Len(nm) = Len(ms)
  <2> DEFINE n == Len(ms)
  <2>1. n \in Nat /\ nm = [i \in 1 .. n |-> nm[i]] /\ \A i \in 1 .. n : nm[i] \in Message
    BY <1>1, <1>3, <1>4
  <2> HIDE DEF n, nm
  <2>2. nm \in Seq(Message) /\ Len(nm) = n
    BY <2>1
  <2> QED
    BY <2>2 DEF n
<1>6. sys \in Seq(Block) /\ Len(sys) = Len(b.system) /\ WithTtl(sys)
      /\ (\A k \in 1 .. Len(b.system) : hasBreakpoint(sys[k]) <=> hasBreakpoint(b.system[k]))
      /\ (WithTtl(b.system) => sys = b.system)
  BY <1>1, TtlBlocks
<1> HIDE DEF nm, sys
<1>7. s1 \in Body /\ SameFields(s1, b) /\ s1.messages = ms /\ s1.system = sys
  BY <1>6 DEF Body, SameFields
<1>8. [b EXCEPT !.system = sys, !.messages = nm] = s2
  BY DEF Body
<1> HIDE DEF s1
<1>9. s2 \in Body /\ SameFields(s2, s1) /\ s2.messages = nm /\ s2.system = sys
  BY <1>5, <1>7 DEF Body, SameFields
<1>10. SameFields(s2, b)
  BY <1>7, <1>9 DEF SameFields
<1>11. AllWithTtl(s2)
  <2>1. \A i \in 1 .. Len(nm) : WithTtl(nm[i].blocks)
    BY <1>1, <1>3, <1>5, TtlBlocks
  <2> QED
    BY <1>6, <1>9, <2>1 DEF AllWithTtl
<1>12. ASSUME NEW b0 \in Body, LaidOut(b, b0) PROVE LaidOut(s2, b0)
  <2>1. Len(s2.messages) = Len(b0.messages) /\ Len(ms) = Len(b0.messages)
    BY <1>5, <1>9, <1>12 DEF LaidOut
  <2>2. ASSUME NEW i \in 1 .. Len(b0.messages)
        PROVE  /\ Len(s2.messages[i].blocks) = Len(b0.messages[i].blocks)
               /\ \A k \in 1 .. Len(b0.messages[i].blocks) :
                    /\ hasBreakpoint(s2.messages[i].blocks[k])
                         <=> (i = LastUser(b0.messages) /\ k = Len(b0.messages[i].blocks))
                    /\ s2.messages[i].blocks[k].omo = b0.messages[i].blocks[k].omo
    <3> DEFINE x == ms[i].blocks
    <3>1. s2.messages[i].blocks = Stamped(x) /\ x \in Seq(Block)
      BY <1>1, <1>3, <1>9, <2>1
    <3>2. /\ Len(Stamped(x)) = Len(x)
          /\ \A k \in 1 .. Len(x) : /\ hasBreakpoint(Stamped(x)[k]) <=> hasBreakpoint(x[k])
                                    /\ Stamped(x)[k].omo = x[k].omo
      BY <3>1, TtlBlocks
    <3>3. /\ Len(x) = Len(b0.messages[i].blocks)
          /\ \A k \in 1 .. Len(b0.messages[i].blocks) :
               /\ hasBreakpoint(x[k]) <=> (i = LastUser(b0.messages) /\ k = Len(b0.messages[i].blocks))
               /\ x[k].omo = b0.messages[i].blocks[k].omo
      BY <1>12 DEF LaidOut
    <3> HIDE DEF x
    <3> QED
      BY <3>1, <3>2, <3>3
  <2>3. \A k \in 1 .. Len(s2.system) : hasBreakpoint(s2.system[k]) => k = 1
    BY <1>6, <1>9, <1>12 DEF LaidOut
  <2> QED
    BY <2>1, <2>2, <2>3 DEF LaidOut
<1>13. AllWithTtl(b) => s2 = b
  <2> SUFFICES ASSUME AllWithTtl(b) PROVE s2 = b
    OBVIOUS
  <2>1. sys = b.system
    BY <1>6 DEF AllWithTtl
  <2>2. \A i \in 1 .. Len(ms) : nm[i] = ms[i]
    BY <1>3 DEF AllWithTtl
  <2>3. nm = ms
    <3> DEFINE n == Len(ms)
    <3>1. nm = [i \in 1 .. n |-> nm[i]]
      BY <1>4
    <3>2. ms = [i \in 1 .. n |-> ms[i]]
      <4>1. ms \in Seq(Message)
        BY <1>1
      <4> HIDE DEF ms
      <4> QED
        BY <4>1
    <3> HIDE DEF ms
    <3> QED
      BY <2>2, <3>1, <3>2
  <2>4. s2.system = b.system /\ s2.messages = b.messages
    BY <1>9, <2>1, <2>3
  <2> HIDE DEF s2, ms
  <2> QED
    BY <1>9, <1>10, <2>4 DEF Body, SameFields
<1> HIDE DEF s2
<1> QED
  BY <1>2, <1>8, <1>9, <1>10, <1>11, <1>12, <1>13

\* stripOmoReminder(): only the blocks of the first message change.
LEMMA StripStep ==
  ASSUME NEW c \in StampContext, NEW b \in Body
  PROVE  LET s == StripOmoReminderStep(c, b) IN
         /\ s \in Body /\ SameFields(s, b) /\ s.system = b.system
         /\ Len(s.messages) = Len(b.messages)
         /\ AllWithTtl(b) => AllWithTtl(s)
         /\ \A i \in 1 .. Len(b.messages) :
              \/ s.messages[i] = b.messages[i]
              \/ /\ i = 1 /\ c.stripOmo
                 /\ s.messages[i].blocks = WithoutReminder(b.messages[i].blocks)
         /\ ~(c.stripOmo /\ ~c.openai) => s = b
<1> DEFINE strips == c.stripOmo /\ ~c.openai /\ b.messages # <<>>
           ms == b.messages
           x == ms[1]
           y == [x EXCEPT !.blocks = WithoutReminder(x.blocks)]
           nm == [ms EXCEPT ![1] = y]
           s == [b EXCEPT !.messages = nm]
<1>1. CASE ~strips
  <2>1. StripOmoReminderStep(c, b) = b
    BY <1>1 DEF StripOmoReminderStep, stripOmoReminder
  <2>2. SameFields(b, b)
    BY DEF SameFields
  <2> QED
    BY <1>1, <2>1, <2>2
<1>2. CASE strips
  <2>1. StripOmoReminderStep(c, b) = [b EXCEPT !.messages[1].blocks = WithoutReminder(@)]
    BY <1>2 DEF StripOmoReminderStep, stripOmoReminder
  <2>2. [b EXCEPT !.messages[1].blocks = WithoutReminder(@)] = s
    BY DEF Body
  <2>3. ms \in Seq(Message) /\ ms # <<>> /\ Len(ms) \in Nat /\ 1 \in 1 .. Len(ms) /\ DOMAIN ms = 1 .. Len(ms)
    <3>1. ms \in Seq(Message) /\ ms # <<>>
      BY <1>2 DEF Body
    <3> HIDE DEF ms
    <3> QED
      BY <3>1
  <2>4. x \in Message /\ x.blocks \in Seq(Block)
    <3>1. \A m \in Message : m.blocks \in Seq(Block)
      BY DEF Message
    <3> HIDE DEF ms
    <3> QED
      BY <2>3, <3>1
  <2>5. WithoutReminder(x.blocks) \in Seq(Block)
    <3> HIDE DEF x
    <3> QED
      BY <2>4, Staying
  <2>6. y \in Message /\ y.blocks = WithoutReminder(x.blocks)
    <3> HIDE DEF x
    <3> QED
      BY <2>4, <2>5 DEF Message
  <2>7. /\ nm \in Seq(Message) /\ Len(nm) = Len(ms)
        /\ \A i \in 1 .. Len(ms) : nm[i] = IF i = 1 THEN y ELSE ms[i]
    <3> HIDE DEF y, ms
    <3> QED
      BY <2>3, <2>6
  <2> HIDE DEF nm
  <2>8. s \in Body /\ SameFields(s, b) /\ s.system = b.system /\ s.messages = nm
    BY <2>7 DEF Body, SameFields
  <2> HIDE DEF s
  <2>9. AllWithTtl(b) => AllWithTtl(s)
    <3> SUFFICES ASSUME AllWithTtl(b), NEW i \in 1 .. Len(nm) PROVE WithTtl(nm[i].blocks)
      BY <2>8 DEF AllWithTtl
    <3>1. CASE i # 1
      BY <2>7, <3>1 DEF AllWithTtl
    <3>2. CASE i = 1
      <4> DEFINE r == WithoutReminder(x.blocks)
      <4>1. nm[i].blocks = r
        BY <2>3, <2>6, <2>7, <3>2
      <4>2. \A m \in 1 .. Len(r) : \E k \in 1 .. Len(x.blocks) : r[m] = x.blocks[k]
        <5> HIDE DEF x
        <5> QED
          BY <2>4, Staying
      <4>3. \A k \in 1 .. Len(x.blocks) : x.blocks[k].bp \in {"none", "ttl"}
        BY <2>3 DEF AllWithTtl, WithTtl
      <4> HIDE DEF r, x
      <4> QED
        BY <4>1, <4>2, <4>3 DEF WithTtl
    <3> QED
      BY <3>1, <3>2
  <2>10. \A i \in 1 .. Len(ms) :
           \/ s.messages[i] = ms[i]
           \/ i = 1 /\ s.messages[i].blocks = WithoutReminder(ms[i].blocks)
    <3> SUFFICES ASSUME NEW i \in 1 .. Len(ms)
                 PROVE  \/ s.messages[i] = ms[i]
                        \/ i = 1 /\ s.messages[i].blocks = WithoutReminder(ms[i].blocks)
      OBVIOUS
    <3>1. s.messages[i] = IF i = 1 THEN y ELSE ms[i]
      BY <2>7, <2>8
    <3> HIDE DEF y
    <3> QED
      BY <2>6, <3>1
  <2> QED
    BY <1>2, <2>1, <2>2, <2>7, <2>8, <2>9, <2>10
<1> QED
  BY <1>1, <1>2

\* The tip is a user message with blocks, if there is one.
LEMMA TipIs ==
  ASSUME NEW b \in Body
  PROVE  LET tip == LastUser(b.messages) IN
         tip = 0 \/ (tip \in 1 .. Len(b.messages) /\ b.messages[tip].blocks # <<>>)
<1> DEFINE n == Len(b.messages)
           user == {i \in 1 .. n : b.messages[i].user /\ b.messages[i].blocks # <<>>}
<1>1. n \in Nat /\ user \in SUBSET (1 .. n)
  BY DEF Body
<1>2. LastUser(b.messages) = IF user = {} THEN 0 ELSE CHOOSE i \in user : \A j \in user : j <= i
  BY DEF LastUser
<1>3. \A i \in user : i \in 1 .. n /\ b.messages[i].blocks # <<>>
  OBVIOUS
<1> HIDE DEF user, n
<1>4. user # {} => \E i \in user : \A j \in user : j <= i
  BY <1>1, LastPosition
<1>5. LastUser(b.messages) = 0 \/ LastUser(b.messages) \in user
  BY <1>2, <1>4
<1> QED
  BY <1>3, <1>5 DEF n

\* What is left of Layout B when the reminder is gone.
LEMMA LayoutLeft ==
  ASSUME NEW c \in StampContext, NEW b \in Body, NEW s9 \in Body, LaidOut(s9, b)
  PROVE  LET s == StripOmoReminderStep(c, s9)
             tip == LastUser(b.messages) IN
         /\ Cardinality(Breakpoints(s)) <= 2
         /\ tip # 0 => \/ <<tip, Len(s.messages[tip].blocks)>> \in Breakpoints(s)
                       \/ c.stripOmo /\ tip = 1 /\ Last(b.messages[tip].blocks).omo
<1> DEFINE s == StripOmoReminderStep(c, s9)
           tip == LastUser(b.messages)
           final == Len(s.messages[tip].blocks)
           P == {<<0, 1>>, <<tip, final>>}
           len(i) == Len(b.messages[i].blocks)
<1>1. /\ s \in Body /\ s.system = s9.system /\ Len(s.messages) = Len(b.messages)
      /\ \A i \in 1 .. Len(b.messages) :
           \/ s.messages[i] = s9.messages[i]
           \/ /\ i = 1 /\ c.stripOmo
              /\ s.messages[i].blocks = WithoutReminder(s9.messages[i].blocks)
  BY StripStep DEF LaidOut
<1> HIDE DEF s
<1>2. /\ \A x \in Body : /\ DOMAIN x.system = 1 .. Len(x.system) /\ DOMAIN x.messages = 1 .. Len(x.messages)
                         /\ \A i \in 1 .. Len(x.messages) : x.messages[i].blocks \in Seq(Block)
  <2> SUFFICES ASSUME NEW x \in Body
               PROVE  /\ DOMAIN x.system = 1 .. Len(x.system) /\ DOMAIN x.messages = 1 .. Len(x.messages)
                      /\ \A i \in 1 .. Len(x.messages) : x.messages[i].blocks \in Seq(Block)
    OBVIOUS
  <2> DEFINE y == x.system
             z == x.messages
  <2>1. y \in Seq(Block) /\ z \in Seq(Message)
    BY DEF Body
  <2>2. \A m \in Message : m.blocks \in Seq(Block)
    BY DEF Message
  <2>3. DOMAIN y = 1 .. Len(y) /\ DOMAIN z = 1 .. Len(z) /\ \A i \in 1 .. Len(z) : z[i].blocks \in Seq(Block)
    <3> HIDE DEF y, z
    <3> QED
      BY <2>1, <2>2
  <2> QED
    BY <2>3
<1>3. \A i \in 1 .. Len(b.messages) :
        /\ s9.messages[i].blocks \in Seq(Block) /\ Len(s9.messages[i].blocks) = len(i)
        /\ s.messages[i].blocks \in Seq(Block) /\ DOMAIN s.messages[i].blocks = 1 .. Len(s.messages[i].blocks)
        /\ \A k \in 1 .. len(i) :
             /\ hasBreakpoint(s9.messages[i].blocks[k]) <=> (i = tip /\ k = len(i))
             /\ s9.messages[i].blocks[k].omo = b.messages[i].blocks[k].omo
  <2> SUFFICES ASSUME NEW i \in 1 .. Len(b.messages)
               PROVE  /\ s9.messages[i].blocks \in Seq(Block) /\ Len(s9.messages[i].blocks) = len(i)
                      /\ s.messages[i].blocks \in Seq(Block)
                      /\ DOMAIN s.messages[i].blocks = 1 .. Len(s.messages[i].blocks)
                      /\ \A k \in 1 .. len(i) :
                           /\ hasBreakpoint(s9.messages[i].blocks[k]) <=> (i = tip /\ k = len(i))
                           /\ s9.messages[i].blocks[k].omo = b.messages[i].blocks[k].omo
    OBVIOUS
  <2>1. s9.messages[i].blocks \in Seq(Block) /\ s.messages[i].blocks \in Seq(Block)
    BY <1>1, <1>2 DEF LaidOut
  <2> DEFINE z == s.messages[i].blocks
  <2>2. DOMAIN z = 1 .. Len(z)
    <3>1. z \in Seq(Block)
      BY <2>1
    <3> HIDE DEF z
    <3> QED
      BY <3>1
  <2> QED
    BY <2>1, <2>2 DEF LaidOut
\* A breakpoint in a message is on the last block of the tip.
<1>4. ASSUME NEW i \in 1 .. Len(b.messages), NEW k \in 1 .. Len(s.messages[i].blocks),
             hasBreakpoint(s.messages[i].blocks[k])
      PROVE  i = tip /\ k = final
  <2> DEFINE x == s9.messages[i].blocks
             r == WithoutReminder(x)
  <2>1. /\ x \in Seq(Block) /\ Len(x) = len(i)
        /\ \A m \in 1 .. Len(x) : hasBreakpoint(x[m]) => i = tip /\ m = Len(x)
    BY <1>3
  <2>2. CASE s.messages[i] = s9.messages[i]
    BY <1>4, <2>1, <2>2
  <2>3. CASE s.messages[i].blocks = r
    <3>1. PICK m \in 1 .. Len(x) : r[k] = x[m] /\ (m = Len(x) => k = Len(r))
      <4>1. k \in 1 .. Len(r)
        BY <2>3
      <4> HIDE DEF x
      <4> QED
        BY <2>1, <4>1, Staying
    <3>2. hasBreakpoint(x[m])
      BY <1>4, <2>3, <3>1
    <3>3. i = tip /\ m = Len(x)
      BY <2>1, <3>2
    <3>4. k = Len(r)
      BY <3>1, <3>3
    <3> HIDE DEF r
    <3> QED
      BY <2>3, <3>3, <3>4
  <2> QED
    BY <1>1, <2>2, <2>3
<1>5. Breakpoints(s) \subseteq P
  <2>1. \A k \in DOMAIN s.system : hasBreakpoint(s.system[k]) => k = 1
    BY <1>1, <1>2 DEF LaidOut
  <2>2. \A i \in DOMAIN s.messages : \A k \in DOMAIN s.messages[i].blocks :
          hasBreakpoint(s.messages[i].blocks[k]) => i = tip /\ k = final
    <3> SUFFICES ASSUME NEW i \in DOMAIN s.messages, NEW k \in DOMAIN s.messages[i].blocks,
                        hasBreakpoint(s.messages[i].blocks[k])
                 PROVE  i = tip /\ k = final
      OBVIOUS
    <3>1. i \in 1 .. Len(b.messages)
      BY <1>1, <1>2
    <3>2. k \in 1 .. Len(s.messages[i].blocks)
      BY <1>3, <3>1
    <3> HIDE DEF tip, final
    <3> QED
      BY <1>4, <3>1, <3>2
  <2> HIDE DEF tip, final
  <2> QED
    BY <2>1, <2>2 DEF Breakpoints
<1>6. Cardinality(Breakpoints(s)) <= 2
  <2>1. IsFiniteSet(P) /\ Cardinality(P) <= 2
    <3> DEFINE p == <<0, 1>>
               q == <<tip, final>>
               both == {p} \cap {q}
    <3>1. P = {p} \cup {q}
      OBVIOUS
    <3>2. both \in SUBSET {p}
      OBVIOUS
    <3> HIDE DEF p, q, P
    <3>3. IsFiniteSet({p}) /\ Cardinality({p}) = 1 /\ IsFiniteSet({q}) /\ Cardinality({q}) = 1
      BY FS_Singleton
    <3>4. IsFiniteSet({p} \cup {q})
      BY <3>3, FS_Union
    <3>5. Cardinality({p} \cup {q}) = 1 + 1 - Cardinality(both)
      BY <3>3, FS_Union
    <3> HIDE DEF both
    <3>6. IsFiniteSet(both)
      BY <3>2, <3>3, FS_Subset
    <3>7. Cardinality(both) \in Nat
      BY <3>6, FS_CardinalityType
    <3>8. Cardinality({p} \cup {q}) <= 2
      BY <3>5, <3>7
    <3> QED
      BY <3>1, <3>4, <3>8
  <2> HIDE DEF P
  <2>2. Cardinality(Breakpoints(s)) <= Cardinality(P) /\ Cardinality(P) \in Nat /\ Cardinality(Breakpoints(s)) \in Nat
    BY <1>5, <2>1, FS_Subset, FS_CardinalityType
  <2> QED
    BY <2>1, <2>2
<1>7. ASSUME tip # 0, ~(c.stripOmo /\ tip = 1 /\ Last(b.messages[tip].blocks).omo)
      PROVE  <<tip, final>> \in Breakpoints(s)
  <2> DEFINE x == s9.messages[tip].blocks
             r == WithoutReminder(x)
             z == s.messages[tip].blocks
             bl == b.messages[tip].blocks
  <2>1. tip \in 1 .. Len(b.messages) /\ bl # <<>>
    BY <1>7, TipIs
  <2>2. bl \in Seq(Block)
    BY <1>2, <2>1
  <2>3. Len(bl) \in Nat /\ Len(bl) # 0 /\ Last(bl) = bl[Len(bl)]
    <3>1. bl # <<>>
      BY <2>1
    <3> HIDE DEF bl
    <3> QED
      BY <2>2, <3>1 DEF Last
  <2>4. x \in Seq(Block) /\ Len(x) = Len(bl) /\ hasBreakpoint(x[Len(x)])
        /\ x[Len(x)].omo = bl[Len(bl)].omo /\ x # <<>>
    <3>1. x \in Seq(Block) /\ Len(x) = Len(bl)
      BY <1>3, <2>1
    <3>2. Len(bl) \in 1 .. len(tip)
      BY <2>3
    <3>3. hasBreakpoint(x[Len(x)]) /\ x[Len(x)].omo = bl[Len(bl)].omo
      BY <1>3, <2>1, <3>1, <3>2
    <3>4. x # <<>>
      <4>1. Len(x) # 0
        BY <2>3, <3>1
      <4> HIDE DEF x
      <4> QED
        BY <4>1
    <3> QED
      BY <3>1, <3>3, <3>4
  <2>5. z # <<>> /\ hasBreakpoint(z[Len(z)])
    <3>1. CASE s.messages[tip] = s9.messages[tip]
      BY <2>4, <3>1
    <3>2. CASE tip = 1 /\ c.stripOmo /\ z = r
      <4>1. ~x[Len(x)].omo
        BY <1>7, <2>3, <2>4, <3>2
      <4>2. r # <<>> /\ r[Len(r)] = x[Len(x)]
        <5> HIDE DEF x
        <5> QED
          BY <2>4, <4>1, Staying
      <4> HIDE DEF z, r, x
      <4> QED
        BY <2>4, <3>2, <4>2
    <3> QED
      BY <1>1, <2>1, <3>1, <3>2
  <2>6. z \in Seq(Block) /\ tip \in DOMAIN s.messages /\ DOMAIN z = 1 .. Len(z)
    BY <1>1, <1>2, <1>3, <2>1
  <2>7. final = Len(z) /\ Len(z) \in DOMAIN z
    <3>1. Len(z) \in Nat /\ Len(z) # 0
      <4>1. z \in Seq(Block) /\ z # <<>>
        BY <2>5, <2>6
      <4> HIDE DEF z
      <4> QED
        BY <4>1
    <3> QED
      BY <2>6, <3>1
  <2> HIDE DEF tip, final
  <2> QED
    BY <2>5, <2>6, <2>7 DEF Breakpoints
<1> QED
  BY <1>6, <1>7 DEF s

\* STAMP_PIPELINE on the Anthropic route.
LEMMA AnthropicBodies ==
  ASSUME NEW c \in StampContext, NEW b \in Body, Anthropic(c)
  PROVE  StampsConsistent(c, b)
<1> DEFINE b1 == RestampBreakpointsStep(c, b)
           b2 == CacheTtlStep(c, b1)
           b3 == AnthropicBodyStep(c, b2)
           b4 == PerModelRuleStep(c, b3)
           b5 == ContextManagementStep(c, b4)
           b6 == OpenAiReasoningStep(c, b5)
           b7 == OpenAiStreamUsageStep(c, b6)
           b8 == TopKStep(c, b7)
           b9 == TemperatureStep(c, b8)
           s == StripOmoReminderStep(c, b9)
           tip == LastUser(b.messages)
           on == isThinkingEnabled(s.thinking)
<1>1. STAMP_PIPELINE(c, b) = s
  BY DEF STAMP_PIPELINE
<1>2. b1 \in Body /\ SameFields(b1, b) /\ (b.messages # <<>> => LaidOut(b1, b))
  BY RestampStep
<1> HIDE DEF b1
<1>3. b2 \in Body /\ SameFields(b2, b1) /\ AllWithTtl(b2) /\ (b.messages # <<>> => LaidOut(b2, b))
  BY <1>2, TtlStep DEF CacheTtlStep
<1> HIDE DEF b2
<1>4. SameFields(b2, b)
  BY <1>2, <1>3 DEF SameFields
<1>5. /\ b3 \in Body /\ SameContents(b3, b2)
      /\ LET was == isThinkingEnabled(b.thinking)
             force == b.thinking # "absent" /\ (was \/ ~c.policy.canDisable)
         IN /\ b3.thinking = IF force THEN c.policy.shape ELSE b.thinking
            /\ b3.max_tokens = IF was THEN c.policy.max_tokens ELSE b.max_tokens
            /\ b3.output_config = IF force THEN c.policy.effort ELSE b.output_config
      /\ b3.reasoning_effort = "absent" /\ b3.temperature = b.temperature /\ b3.top_k = b.top_k
      /\ b3.context_management = b.context_management
  BY <1>3, <1>4, ThinkingStep DEF SameFields
<1> HIDE DEF b3
<1>6. /\ b4 \in Body /\ SameContents(b4, b3)
      /\ b4.thinking = b3.thinking \/ (b4.thinking = c.rule.anthropic /\ c.rule.anthropic \in Shape)
      /\ \/ b4.max_tokens = b3.max_tokens /\ b4.output_config = b3.output_config
         \/ /\ ~isThinkingEnabled(b3.thinking) /\ b4.thinking \in Shape
            /\ b4.max_tokens = c.policy.max_tokens /\ b4.output_config = c.policy.effort
      /\ (~isThinkingEnabled(b3.thinking) /\ b4.thinking \in Shape) =>
           b4.max_tokens = c.policy.max_tokens /\ b4.output_config = c.policy.effort
      /\ b4.thinking # b3.thinking /\ b3.thinking = "off" => ~c.policy.canDisable
      /\ b4.reasoning_effort = b3.reasoning_effort /\ b4.temperature = b3.temperature
      /\ b4.top_k = b3.top_k /\ b4.context_management = b3.context_management
  BY <1>5, RuleStep DEF Anthropic
<1> HIDE DEF b4
<1>7. /\ b5 \in Body /\ SameContents(b5, b4)
      /\ b5.context_management = (b4.context_management \/ isThinkingEnabled(b4.thinking))
      /\ b5.thinking = b4.thinking /\ b5.reasoning_effort = b4.reasoning_effort
      /\ b5.output_config = b4.output_config /\ b5.max_tokens = b4.max_tokens
      /\ b5.temperature = b4.temperature /\ b5.top_k = b4.top_k
  BY <1>6, ContextStep
<1> HIDE DEF b5
<1>8. b7 = b5
  BY DEF OpenAiReasoningStep, OpenAiStreamUsageStep, OpenAi, Anthropic
<1> HIDE DEF b7
<1>9. /\ b8 \in Body /\ SameContents(b8, b5)
      /\ b8.thinking = b5.thinking /\ b8.reasoning_effort = b5.reasoning_effort
      /\ b8.output_config = b5.output_config /\ b8.max_tokens = b5.max_tokens
      /\ b8.temperature = b5.temperature /\ b8.context_management = b5.context_management
      /\ IF isThinkingEnabled(b5.thinking) THEN c.policy.top_k => b8.top_k # "absent"
         ELSE b8.top_k = b5.top_k
  BY <1>7, <1>8, TopKSet
<1> HIDE DEF b8
<1>10. /\ b9 \in Body /\ SameContents(b9, b8)
       /\ b9.thinking = b8.thinking /\ b9.reasoning_effort = b8.reasoning_effort
       /\ b9.output_config = b8.output_config /\ b9.max_tokens = b8.max_tokens
       /\ b9.top_k = b8.top_k /\ b9.context_management = b8.context_management
       /\ b9.temperature = IF isThinkingEnabled(b8.thinking) THEN "one" ELSE b8.temperature
  BY <1>9, TemperatureSet
<1> HIDE DEF b9
<1>11. /\ s \in Body /\ SameFields(s, b9) /\ Len(s.messages) = Len(b9.messages)
       /\ AllWithTtl(b9) => AllWithTtl(s)
  BY <1>10, StripStep
\* The fields.
<1>12. /\ s.reasoning_effort = "absent"
       /\ on => /\ s.output_config = c.policy.effort /\ s.context_management /\ s.temperature = "one"
                /\ s.max_tokens = c.policy.max_tokens \/ b.thinking = "off"
                /\ c.policy.top_k => s.top_k # "absent"
       /\ ~on => /\ s.max_tokens = b.max_tokens /\ s.output_config = b.output_config
                 /\ s.temperature = b.temperature /\ s.top_k = b.top_k
       /\ (b.thinking = "off" /\ c.policy.canDisable) => s.thinking = "off"
       /\ b.thinking = "absent" => s.thinking = "absent" \/ c.rule.anthropic # "none"
  <2>1. s.thinking = b4.thinking /\ b4.thinking \in Thinking /\ b.thinking \in Thinking
        /\ b3.thinking \in Thinking /\ c.policy.shape \in Shape
    BY <1>5, <1>6, <1>7, <1>9, <1>10, <1>11 DEF SameFields, Body, StampContext, StampPolicy
  <2>2. \A t \in Thinking : isThinkingEnabled(t) <=> t \in Shape
    BY DEF isThinkingEnabled, Shape
  <2>3. /\ s.reasoning_effort = "absent" /\ s.output_config = b4.output_config
        /\ s.max_tokens = b4.max_tokens
        /\ s.context_management = (b.context_management \/ on)
        /\ s.temperature = IF on THEN "one" ELSE b.temperature
        /\ IF on THEN c.policy.top_k => s.top_k # "absent" ELSE s.top_k = b.top_k
    <3> HIDE DEF s
    <3> QED
      BY <1>5, <1>6, <1>7, <1>9, <1>10, <1>11, <2>1 DEF SameFields
  <2> HIDE DEF s
  <2>4. on => /\ b4.output_config = c.policy.effort
              /\ b4.max_tokens = c.policy.max_tokens \/ b.thinking = "off"
    BY <1>5, <1>6, <2>1, <2>2 DEF isThinkingEnabled
  <2>5. ~on => b4.max_tokens = b.max_tokens /\ b4.output_config = b.output_config
    BY <1>5, <1>6, <2>1, <2>2 DEF isThinkingEnabled
  <2>6. (b.thinking = "off" /\ c.policy.canDisable) => s.thinking = "off"
    BY <1>5, <1>6, <2>1 DEF isThinkingEnabled
  <2>7. b.thinking = "absent" => s.thinking = "absent" \/ c.rule.anthropic # "none"
    BY <1>5, <1>6, <2>1 DEF Shape, Thinking
  <2> QED
    BY <2>3, <2>4, <2>5, <2>6, <2>7
\* The breakpoints.
<1>13. ASSUME b.messages # <<>>
       PROVE  /\ Cardinality(Breakpoints(s)) <= 2 /\ stampCacheTtl(s) = s
              /\ tip # 0 => \/ <<tip, Len(s.messages[tip].blocks)>> \in Breakpoints(s)
                            \/ c.stripOmo /\ tip = 1 /\ Last(b.messages[tip].blocks).omo
  <2>1. SameContents(b9, b2)
    BY <1>5, <1>6, <1>7, <1>9, <1>10 DEF SameContents
  <2>2. LaidOut(b9, b) /\ AllWithTtl(b9)
    BY <1>3, <1>13, <2>1 DEF SameContents, LaidOut, AllWithTtl
  <2>3. stampCacheTtl(s) = s
    <3> HIDE DEF s
    <3> QED
      BY <1>11, <2>2, TtlStep
  <2> HIDE DEF tip
  <2>4. /\ Cardinality(Breakpoints(s)) <= 2
        /\ tip # 0 => \/ <<tip, Len(s.messages[tip].blocks)>> \in Breakpoints(s)
                      \/ c.stripOmo /\ tip = 1 /\ Last(b.messages[tip].blocks).omo
    BY <1>10, <2>2, LayoutLeft DEF tip
  <2> QED
    BY <2>3, <2>4
<1>14. ~OpenAi(c)
  BY DEF OpenAi, Anthropic
<1> HIDE DEF s
<1> QED
  BY <1>1, <1>12, <1>13, <1>14 DEF StampsConsistent

\* STAMP_PIPELINE on the OpenAI route.
LEMMA OpenAiBodies ==
  ASSUME NEW c \in StampContext, NEW b \in Body, OpenAi(c)
  PROVE  StampsConsistent(c, b)
<1> DEFINE b4 == PerModelRuleStep(c, b)
           b6 == OpenAiReasoningStep(c, b4)
           b7 == OpenAiStreamUsageStep(c, b6)
           s == TopKStep(c, b7)
<1>1. ~Anthropic(c) /\ c.openai
  BY DEF Anthropic, OpenAi
<1>2. STAMP_PIPELINE(c, b) = s
  BY <1>1 DEF STAMP_PIPELINE, RestampBreakpointsStep, CacheTtlStep, AnthropicBodyStep,
              ContextManagementStep, TemperatureStep, StripOmoReminderStep
<1>3. /\ b4 \in Body
      /\ b4.thinking # b.thinking /\ b.thinking = "off" => ~isReasoningEffortDisabled(b.reasoning_effort)
      /\ b4.thinking # b.thinking /\ b.thinking = "absent" => b.reasoning_effort # "none"
      /\ b4.reasoning_effort = b.reasoning_effort /\ b4.stream = b.stream
  BY <1>1, RuleStep
<1> HIDE DEF b4
<1>4. /\ b6 \in Body /\ b6.thinking = b4.thinking /\ b6.stream = b4.stream
      /\ b6.reasoning_effort # b4.reasoning_effort =>
           /\ b6.reasoning_effort = c.policy.effort /\ b6.temperature = "one"
           /\ b6.output_config = "absent" /\ ~b6.context_management /\ ~c.rule.veto
           /\ ~(b4.reasoning_effort = "none" /\ c.policy.canDisable)
  BY <1>3, ReasoningStep
<1> HIDE DEF b6
<1>5. /\ b7 \in Body /\ b7.thinking = b6.thinking /\ b7.reasoning_effort = b6.reasoning_effort
      /\ b7.output_config = b6.output_config /\ b7.temperature = b6.temperature
      /\ b7.context_management = b6.context_management
      /\ b6.stream => b7.include_usage
  BY <1>4, StreamUsageStep
<1> HIDE DEF b7
<1>6. /\ s.thinking = b7.thinking /\ s.reasoning_effort = b7.reasoning_effort
      /\ s.output_config = b7.output_config /\ s.temperature = b7.temperature
      /\ s.context_management = b7.context_management /\ s.include_usage = b7.include_usage
  BY <1>5, TopKSet
<1> HIDE DEF s
<1>7. /\ (s.reasoning_effort # "absent" /\ s.reasoning_effort # b.reasoning_effort)
           => /\ s.reasoning_effort = c.policy.effort /\ s.temperature = "one"
              /\ s.output_config = "absent" /\ ~s.context_management
      /\ c.rule.veto => s.reasoning_effort = b.reasoning_effort
      /\ b.stream => s.include_usage
  BY <1>3, <1>4, <1>5, <1>6
<1>8. (b.reasoning_effort = "none" /\ b.thinking \in {"absent", "off"} /\ c.policy.canDisable)
        => s.reasoning_effort = "none" /\ s.thinking = b.thinking
  BY <1>3, <1>4, <1>5, <1>6 DEF isReasoningEffortDisabled
<1> QED
  BY <1>1, <1>2, <1>7, <1>8 DEF StampsConsistent

\* STAMP_PIPELINE when neither switch is on.
LEMMA UntouchedBodies ==
  ASSUME NEW c \in StampContext, NEW b \in Body, ~Anthropic(c), ~OpenAi(c)
  PROVE  StampsConsistent(c, b)
<1>1. ASSUME c.rule = NoRule, ~c.stripOmo PROVE STAMP_PIPELINE(c, b) = b
  <2>1. AnthropicBodyStep(c, CacheTtlStep(c, RestampBreakpointsStep(c, b))) = b
    BY DEF RestampBreakpointsStep, CacheTtlStep, AnthropicBodyStep
  <2>2. ContextManagementStep(c, PerModelRuleStep(c, b)) = b
    BY <1>1 DEF PerModelRuleStep, ContextManagementStep
  <2>3. OpenAiStreamUsageStep(c, OpenAiReasoningStep(c, b)) = b
    BY DEF OpenAiReasoningStep, OpenAiStreamUsageStep
  <2>4. TemperatureStep(c, TopKStep(c, b)) = b
    BY DEF TopKStep, TemperatureStep
  <2>5. StripOmoReminderStep(c, b) = b
    BY <1>1 DEF StripOmoReminderStep
  <2> QED
    BY <2>1, <2>2, <2>3, <2>4, <2>5 DEF STAMP_PIPELINE
<1> QED
  BY <1>1 DEF StampsConsistent

\* The first pattern that matches is one of the list, and there is one when the
\* last pattern matches, as that of the overlay does for every model.
LEMMA FirstMatches ==
  ASSUME NEW patterns, NEW model, Len(patterns) \in Nat
  PROVE  LET first == FirstMatch(patterns, model) IN
         /\ first # {} => (CHOOSE i \in first : TRUE) \in 1 .. Len(patterns)
         /\ (Len(patterns) # 0 /\ Matches(patterns[Len(patterns)], model)) => first # {}
<1> DEFINE n == Len(patterns)
           M == {i \in 1 .. n : Matches(patterns[i], model)}
           first == FirstMatch(patterns, model)
<1>1. n \in Nat
  OBVIOUS
<1>2. first \in SUBSET (1 .. n)
  BY DEF FirstMatch
<1>3. first # {} => (CHOOSE i \in first : TRUE) \in first
  <2> HIDE DEF first
  <2> QED
    OBVIOUS
<1>4. ASSUME n # 0, Matches(patterns[n], model) PROVE first # {}
  <2>1. n \in M /\ M \in SUBSET Nat
    BY <1>1, <1>4
  <2> HIDE DEF M
  <2>2. PICK i \in M : \A j \in M : i <= j
    BY <2>1, LeastNumber
  <2>3. i \in first
    BY <1>1, <2>1, <2>2 DEF FirstMatch, M
  <2> QED
    BY <2>3
<1> QED
  BY <1>2, <1>3, <1>4

\* The overlay gives every model a policy.
LEMMA PolicyGiven ==
  ASSUME NEW model \in Seq(STRING), NEW listed,
         \A m \in DOMAIN listed : listed[m] \in BOOLEAN
  PROVE  resolveStampPolicy(model, listed) \in StampPolicy
<1> DEFINE first == FirstMatch(STAMP_OVERLAY, model)
           k == CHOOSE i \in first : TRUE
<1>1. Len(STAMP_OVERLAY) = 8 /\ (\A i \in 1 .. 8 : STAMP_OVERLAY[i].policy \in StampPolicy)
      /\ STAMP_OVERLAY[8].star /\ STAMP_OVERLAY[8].name = <<>>
  <2> DEFINE p1 == Family(<<"glm">>, TRUE, 131071, "max", TRUE, TRUE, "adaptive")
             p2 == Family(<<"coder">>, FALSE, 32767, "high", FALSE, FALSE, "adaptive")
             p3 == Family(<<"flash">>, FALSE, 32767, "high", FALSE, TRUE, "adaptive")
             p4 == Family(<<"deepseek">>, FALSE, 32767, "high", FALSE, TRUE, "enabled")
             p5 == Family(<<"kimi", "k3">>, FALSE, 131071, "max", FALSE, TRUE, "adaptive")
             p6 == Family(<<"kimi">>, TRUE, 32767, "high", FALSE, FALSE, "adaptive")
             p7 == Family(<<"qwen">>, TRUE, 32767, "high", FALSE, TRUE, "adaptive")
             p8 == Family(<<>>, TRUE, 32767, "high", FALSE, TRUE, "adaptive")
  <2>1. p1.policy \in StampPolicy
    BY DEF Family, StampPolicy, Effort, Shape, Thinking
  <2>2. p2.policy \in StampPolicy
    BY DEF Family, StampPolicy, Effort, Shape, Thinking
  <2>3. p3.policy \in StampPolicy
    BY DEF Family, StampPolicy, Effort, Shape, Thinking
  <2>4. p4.policy \in StampPolicy
    BY DEF Family, StampPolicy, Effort, Shape, Thinking
  <2>5. p5.policy \in StampPolicy
    BY DEF Family, StampPolicy, Effort, Shape, Thinking
  <2>6. p6.policy \in StampPolicy
    BY DEF Family, StampPolicy, Effort, Shape, Thinking
  <2>7. p7.policy \in StampPolicy
    BY DEF Family, StampPolicy, Effort, Shape, Thinking
  <2>8. p8.policy \in StampPolicy
    BY DEF Family, StampPolicy, Effort, Shape, Thinking
  <2>9. STAMP_OVERLAY = <<p1, p2, p3, p4, p5, p6, p7, p8>>
    BY DEF STAMP_OVERLAY
  <2>10. p8.star /\ p8.name = <<>>
    BY DEF Family
  <2> HIDE DEF p1, p2, p3, p4, p5, p6, p7, p8
  <2>11. /\ Len(STAMP_OVERLAY) = 8
        /\ STAMP_OVERLAY[1] = p1 /\ STAMP_OVERLAY[2] = p2 /\ STAMP_OVERLAY[3] = p3
        /\ STAMP_OVERLAY[4] = p4 /\ STAMP_OVERLAY[5] = p5 /\ STAMP_OVERLAY[6] = p6
        /\ STAMP_OVERLAY[7] = p7 /\ STAMP_OVERLAY[8] = p8
    BY <2>9
  <2>12. ASSUME NEW i \in 1 .. 8 PROVE STAMP_OVERLAY[i].policy \in StampPolicy
    <3>1. i = 1 \/ i = 2 \/ i = 3 \/ i = 4 \/ i = 5 \/ i = 6 \/ i = 7 \/ i = 8
      OBVIOUS
    <3> QED
      BY <2>1, <2>2, <2>3, <2>4, <2>5, <2>6, <2>7, <2>8, <2>11, <3>1
  <2> QED
    BY <2>10, <2>11, <2>12
<1>2. Matches(STAMP_OVERLAY[8], model)
  <2>1. IsPrefix(<<>>, model)
    BY DEF IsPrefix
  <2> QED
    BY <1>1, <2>1 DEF Matches
<1>3. k \in 1 .. 8
  <2>1. Len(STAMP_OVERLAY) \in Nat /\ Len(STAMP_OVERLAY) # 0
        /\ Matches(STAMP_OVERLAY[Len(STAMP_OVERLAY)], model)
    BY <1>1, <1>2
  <2>2. /\ first # {} => k \in 1 .. Len(STAMP_OVERLAY)
        /\ first # {}
    BY <2>1, FirstMatches
  <2> HIDE DEF first, k
  <2> QED
    BY <1>1, <2>2
<1>4. matchStampOverlay(model) = STAMP_OVERLAY[k].policy
  BY DEF matchStampOverlay
<1> HIDE DEF first, k
<1>5. matchStampOverlay(model) \in StampPolicy
  BY <1>1, <1>3, <1>4
<1> QED
  BY <1>5 DEF resolveStampPolicy, parseModelInfoResponse, StampPolicy

\* A model has the rule of its first pattern, or none.
LEMMA RuleGiven ==
  ASSUME NEW model, NEW rules \in Seq(StampRule)
  PROVE  resolvePerModelRule(model, rules) \in StampRule
<1> DEFINE first == FirstMatch(rules, model)
           k == CHOOSE i \in first : TRUE
<1>1. NoRule \in StampRule
  BY EmptyEntries DEF NoRule, StampRule
<1>2. Len(rules) \in Nat
  OBVIOUS
<1>3. first # {} => k \in 1 .. Len(rules)
  BY <1>2, FirstMatches
<1>4. resolvePerModelRule(model, rules) = IF first = {} THEN NoRule ELSE rules[k]
  BY DEF resolvePerModelRule
<1> HIDE DEF first, k
<1> QED
  BY <1>1, <1>3, <1>4

\* What the ten steps leave behind agrees, for every model name, every list of
\* models the upstream gives, every list of rules, all switches and every body
\* of any number of blocks and messages (STAMP_PIPELINE of stamp-pipeline.ts).
THEOREM BodiesConsistent ==
  ASSUME NEW model \in Seq(STRING), NEW rules \in Seq(StampRule), NEW listed,
         \A m \in DOMAIN listed : listed[m] \in BOOLEAN,
         NEW openai \in BOOLEAN, NEW claudeCode \in BOOLEAN, NEW reasoning \in BOOLEAN,
         NEW stripOmo \in BOOLEAN, NEW b \in Body
  PROVE  StampsConsistent(
           [openai |-> openai, claudeCode |-> claudeCode, reasoning |-> reasoning, stripOmo |-> stripOmo,
            policy |-> resolveStampPolicy(model, listed), rule |-> resolvePerModelRule(model, rules)], b)
<1> DEFINE c == [openai |-> openai, claudeCode |-> claudeCode, reasoning |-> reasoning,
                 stripOmo |-> stripOmo, policy |-> resolveStampPolicy(model, listed),
                 rule |-> resolvePerModelRule(model, rules)]
<1>1. c \in StampContext
  BY PolicyGiven, RuleGiven DEF StampContext
<1> HIDE DEF c
<1>2. StampsConsistent(c, b)
  BY <1>1, AnthropicBodies, OpenAiBodies, UntouchedBodies
<1> QED
  BY <1>2 DEF c

(***************************************************************************)
(* The dashboard's list, for every number of rows, every size of ring and  *)
(* list, every limit of the socket and any number of list requests.        *)
(***************************************************************************)
State == {"none", "enqueued", "streaming", "done", "failed"}
ListRow == [id: Row, state: State]

\* A table of captures: its rows are those from low to g, the last id given.
Table == {t \in [g: Nat, low: Nat, st: [Row -> State]] :
            /\ 1 <= t.low /\ t.low <= t.g + 1 /\ t.g <= MaxRows /\ t.g - t.low < Ring
            /\ \A i \in Row : t.st[i] # "none" <=> t.low <= i /\ i <= t.g}

\* The oldest of the newest rows, or the next id when there are none.
Base(t) == IF t.low >= t.g - MaxList + 1 THEN t.low ELSE t.g - MaxList + 1

Shown(t, i) == [id |-> i, state |-> t.st[i]]

\* What a message tells: the table was s and became t.
TellsNew(s, m, t) ==
  /\ m.type = "new" /\ m.id = s.g + 1 /\ m.id \in Row /\ m.state \in State
  /\ t.g = s.g + 1 /\ t.low = s.low /\ t.st = [s.st EXCEPT ![m.id] = m.state]
TellsState(s, m, t) ==
  /\ m.type \in {"state", "update"} /\ m.id \in Row /\ m.id <= s.g /\ m.state \in State
  /\ t.g = s.g /\ t.low = s.low
  /\ t.st = IF s.st[m.id] = "none" THEN s.st ELSE [s.st EXCEPT ![m.id] = m.state]
TellsPrune(s, m, t) ==
  /\ m.type = "prune" /\ m.ids = {s.low} /\ s.low = s.g - Ring + 1
  /\ t.g = s.g /\ t.low = s.low + 1 /\ t.st = [s.st EXCEPT ![s.low] = "none"]
TellsClear(s, m, t) ==
  m.type = "clear" /\ t.g = s.g /\ t.low = s.g + 1
TellsOpen(s, m, t) ==
  m.type = "open" /\ t = s
Tells(s, m, t) ==
  TellsNew(s, m, t) \/ TellsState(s, m, t) \/ TellsPrune(s, m, t) \/ TellsClear(s, m, t) \/ TellsOpen(s, m, t)

\* What lies between two tables without a clear: rows are given and the ring
\* removes them.
Ringed(s, t) == t.low <= s.low \/ t.low <= t.g - Ring + 1
Later(s, t) == s.g <= t.g /\ s.low <= t.low

(***************************************************************************)
(* The three lists a dashboard may show, s being the table of which the    *)
(* messages so far have told it, and t the table of which its last list    *)
(* request told it: the newest rows of s; those of t, which the messages   *)
(* have not reached, in states of either; and, when rows that t no longer  *)
(* shows are told again, those followed by the first of t.                 *)
(***************************************************************************)
AsOf(L, s) ==
  /\ L \in Seq(ListRow) /\ Len(L) = s.g - Base(s) + 1
  /\ \A k \in 1 .. Len(L) : L[k] = Shown(s, s.g - k + 1)
Ahead(L, s, t) ==
  /\ L \in Seq(ListRow) /\ Len(L) = t.g - Base(t) + 1
  /\ \A k \in 1 .. Len(L) : \/ L[k] = Shown(t, t.g - k + 1)
                            \/ t.g - k + 1 <= s.g /\ L[k] = Shown(s, t.g - k + 1)
MixedAt(L, s, t, x) ==
  /\ L \in Seq(ListRow) /\ Len(L) = MaxList
  /\ s.g - x + 1 < Base(t) /\ s.low <= s.g - x + 1
  /\ \A k \in 1 .. Len(L) : L[k] = IF k <= x THEN Shown(s, s.g - k + 1) ELSE Shown(t, t.g - k + x + 1)
Mixed(L, s, t) == \E x \in 1 .. MaxList - 1 : MixedAt(L, s, t, x)

\* The tables of which the messages W tell, up to s.
Traces(h, W, s) ==
  /\ h \in [0 .. Len(W) -> Table]
  /\ \A k \in 1 .. Len(W) : Tells(h[k - 1], W[k], h[k])
  /\ \A j, k \in 0 .. Len(W) : j <= k => Later(h[j], h[k])
  /\ h[Len(W)] = s

ClearedFrom(W, k) == \E n \in k + 1 .. Len(W) : W[n].type = "clear"

\* The messages W tell of all changes up to s, which the ring lets become t.
Told(W, s, t) ==
  \E h : Traces(h, W, s) /\ \A k \in 0 .. Len(W) : ClearedFrom(W, k) \/ Ringed(h[k], t)

\* The messages W make of the list L the newest rows of s.
HealsBy(L, W, s, h) ==
  /\ Traces(h, W, s)
  /\ \/ AsOf(L, h[0])
     \/ \E j \in 0 .. Len(W) : Ringed(h[0], h[j]) /\ (Ahead(L, h[0], h[j]) \/ Mixed(L, h[0], h[j]))
Heals(L, W, s) == ClearedFrom(W, 0) \/ \E h : HealsBy(L, W, s, h)

-----------------------------------------------------------------------------
WireMessage ==
  {OPEN, CLOSED, [type |-> "clear"]} \cup [type: {"new", "update", "state"}, id: Row, state: State]
    \cup {[type |-> "prune", ids |-> {i}] : i \in Row}

\* The table that there is.
TableOf(g, st) ==
  LET low == CHOOSE l \in Nat : [g |-> g, low |-> l, st |-> st] \in Table
  IN [g |-> g, low |-> low, st |-> st]
Captures == TableOf(given, stored)

FeedTypes ==
  /\ stored \in [Row -> State] /\ given \in Nat /\ running \subseteq 1 .. given
  /\ client \in BOOLEAN /\ wire \in Seq(WireMessage)
  /\ fetches \in [Fetch -> [pc: {"idle", "asked", "answered"}, answer: Seq(ListRow), late: BOOLEAN]]
  /\ overtaken \in BOOLEAN /\ revived \in BOOLEAN

\* What the two ends of the socket know of each other.
SocketOK(c, W) ==
  /\ c => /\ \A k \in 1 .. Len(W) : W[k].type # "closed" /\ (k > 1 => W[k].type # "open")
          /\ IF wsState = "live" THEN \A k \in 1 .. Len(W) : W[k].type # "open"
             ELSE W # <<>> /\ W[1].type = "open"
  /\ ~c => IF W = <<>> THEN wsState # "live" ELSE W[Len(W)] = CLOSED
SocketInv ==
  SocketOK(client, wire) /\ (~reachable => ~client /\ wire = <<>> /\ wsState # "live")

\* A list request that will leave the list right, or overtaken.
Sound(f) ==
  fetches[f].pc = "asked" \/ fetches[f].late \/ Heals(fetches[f].answer, wire, Captures)

ListInv ==
  client /\ wsState = "live" =>
    \/ \E f \in Fetch : fetches[f].pc # "idle" /\ Sound(f)
    \/ /\ overtaken \/ revived \/ Heals(list, wire, Captures)
       /\ \A f \in Fetch : fetches[f].pc # "idle" => Sound(f)

FeedInv ==
  /\ FeedTypes /\ Captures \in Table /\ SocketInv
  /\ client => Told(wire, Captures, Captures)
  /\ ListInv

-----------------------------------------------------------------------------
\* The sizes are numbers.
LEMMA FeedSizes ==
  ASSUME FeedAssumption
  PROVE  /\ MaxRows \in Nat /\ MaxMail \in Nat /\ Ring \in Nat \ {0}
         /\ MaxList \in Nat /\ MaxList >= 1 /\ MaxList <= Ring
         /\ \A i \in Row : i \in Nat /\ i >= 1
  BY FeedAssumption DEF FeedAssumption, Row

\* What is known of a table.
LEMMA TableFacts ==
  ASSUME FeedAssumption, NEW t \in Table
  PROVE  /\ t.g \in Nat /\ t.low \in Nat /\ t.st \in [Row -> State]
         /\ 1 <= t.low /\ t.low <= t.g + 1 /\ t.g <= MaxRows /\ t.g - t.low < Ring
         /\ \A i \in Row : t.st[i] # "none" <=> t.low <= i /\ i <= t.g
         /\ Base(t) \in Nat /\ Base(t) >= t.low /\ Base(t) >= t.g - MaxList + 1 /\ Base(t) <= t.g + 1
         /\ \A i \in t.low .. t.g : i \in Row
<1>1. t \in [g: Nat, low: Nat, st: [Row -> State]]
  BY DEF Table
<1>2. t.g \in Nat /\ t.low \in Nat /\ t.st \in [Row -> State]
  BY <1>1
<1>3. /\ 1 <= t.low /\ t.low <= t.g + 1 /\ t.g <= MaxRows /\ t.g - t.low < Ring
      /\ \A i \in Row : t.st[i] # "none" <=> t.low <= i /\ i <= t.g
  BY DEF Table
<1>4. \A i \in t.low .. t.g : i \in Row
  BY <1>2, <1>3, FeedSizes DEF Row
<1> QED
  BY <1>2, <1>3, <1>4, FeedSizes DEF Base

-----------------------------------------------------------------------------
\* Where a row stands in a list without repetitions.
LEMMA AtIs ==
  ASSUME NEW k \in 1 .. Len(list), list \in Seq(ListRow),
         \A j \in 1 .. Len(list) : list[j].id = list[k].id => j = k
  PROVE  At(list[k].id) = k /\ k > 0
<1>1. {j \in DOMAIN list : list[j].id = list[k].id} = {k}
  OBVIOUS
<1>2. Min({k}) = k
  BY DEF Min
<1>3. {k} # {} /\ k > 0
  OBVIOUS
<1> QED
  BY <1>1, <1>2, <1>3 DEF At

\* A row that is not in the list stands nowhere.
LEMMA AtNone ==
  ASSUME NEW i, list \in Seq(ListRow), \A j \in 1 .. Len(list) : list[j].id # i
  PROVE  At(i) = 0
<1>1. {j \in DOMAIN list : list[j].id = i} = {}
  OBVIOUS
<1> QED
  BY <1>1 DEF At

\* A row with another state.
LEMMA RowChanged ==
  ASSUME NEW r \in ListRow, NEW s \in State
  PROVE  [r EXCEPT !.state = s] = [id |-> r.id, state |-> s] /\ [id |-> r.id, state |-> s] \in ListRow
<1>1. PICK i \in Row, u \in State : r = [id |-> i, state |-> u]
  BY DEF ListRow
<1> QED
  BY <1>1 DEF ListRow

\* A row of the list is changed in its place.
LEMMA Patched ==
  ASSUME FeedAssumption, NEW k \in 1 .. Len(list), list \in Seq(ListRow), NEW s \in State,
         \A j \in 1 .. Len(list) : list[j].id = list[k].id => j = k,
         NEW m, m.id = list[k].id, m.state = s, m.type \in {"new", "update", "state"}
  PROVE  /\ Applied(m) \in Seq(ListRow) /\ Len(Applied(m)) = Len(list)
         /\ \A j \in 1 .. Len(list) : Applied(m)[j] = IF j = k THEN [id |-> m.id, state |-> s] ELSE list[j]
<1> DEFINE L == [list EXCEPT ![k].state = s]
           r == [id |-> m.id, state |-> s]
<1>1. At(m.id) = k /\ k > 0
  BY AtIs
<1>2. Applied(m) = L
  BY <1>1 DEF Applied, Upsert
<1>3. list[k] \in ListRow
  OBVIOUS
<1>4. [list[k] EXCEPT !.state = s] = r /\ r \in ListRow
  BY <1>3, RowChanged
<1>5. L = [list EXCEPT ![k] = r]
  BY <1>4
<1> HIDE DEF L, r
<1> QED
  BY <1>2, <1>4, <1>5 DEF r

\* A row that is not in the list comes to its front.
LEMMA PutInFront ==
  ASSUME FeedAssumption, list \in Seq(ListRow), NEW i \in Row, NEW s \in State,
         \A j \in 1 .. Len(list) : list[j].id # i,
         NEW m, m.id = i, m.state = s, m.type \in {"new", "update"}
  PROVE  /\ Applied(m) \in Seq(ListRow)
         /\ Len(Applied(m)) = IF Len(list) + 1 <= MaxList THEN Len(list) + 1 ELSE MaxList
         /\ \A j \in 1 .. Len(Applied(m)) :
              Applied(m)[j] = IF j = 1 THEN [id |-> i, state |-> s] ELSE list[j - 1]
<1> DEFINE r == [id |-> i, state |-> s]
           n == IF Len(list) + 1 <= MaxList THEN Len(list) + 1 ELSE MaxList
           front == <<r>> \o list
           L == SubSeq(front, 1, n)
<1>1. At(i) = 0
  BY AtNone
<1>2. Min({MaxList, Len(list) + 1}) = n
  BY FeedSizes DEF Min
<1>3. Applied(m) = SubSeq(<<[id |-> m.id, state |-> m.state]>> \o list, 1, Min({MaxList, Len(list) + 1}))
  <2>1. ~(At(m.id) > 0)
    BY <1>1
  <2>2. Applied(m) = Upsert(m)
    BY DEF Applied
  <2> QED
    BY <2>1, <2>2 DEF Upsert
<1>4. r \in ListRow
  BY DEF ListRow
<1> HIDE DEF r
<1>5. /\ front \in Seq(ListRow) /\ Len(front) = Len(list) + 1
      /\ \A j \in 1 .. Len(list) + 1 : front[j] = IF j = 1 THEN r ELSE list[j - 1]
  BY <1>4
<1>6. n \in Nat /\ 1 <= n /\ n <= Len(list) + 1 /\ Len(list) \in Nat
  BY FeedSizes
<1>7. Applied(m) = L
  BY <1>2, <1>3 DEF r
<1> HIDE DEF front, n
<1>8. /\ L \in Seq(ListRow) /\ Len(L) = n
      /\ \A j \in 1 .. n : L[j] = front[j]
  BY <1>5, <1>6
<1> HIDE DEF L
<1>9. \A j \in 1 .. n : L[j] = IF j = 1 THEN r ELSE list[j - 1]
  BY <1>5, <1>6, <1>8
<1> QED
  BY <1>7, <1>8, <1>9 DEF n, r

\* A state message about a row that is not in the list changes nothing.
LEMMA NotThere ==
  ASSUME list \in Seq(ListRow), NEW m, m.type = "state", \A j \in 1 .. Len(list) : list[j].id # m.id
  PROVE  Applied(m) = list
<1>1. At(m.id) = 0
  BY AtNone
<1> QED
  BY <1>1 DEF Applied

\* Of the first n positions, k are not after the k-th.
LEMMA UpToCount ==
  ASSUME NEW n \in Nat
  PROVE  /\ Cardinality(1 .. n) = n
         /\ \A k \in 1 .. n : (CHOOSE l \in 1 .. n : Cardinality({j \in 1 .. n : j <= l}) = k) = k
<1>1. \A l \in 0 .. n : Cardinality(1 .. l) = l
  <2> TAKE l \in 0 .. n
  <2>1. l \in Int /\ 1 \in Int /\ (IF 1 > l THEN 0 ELSE l - 1 + 1) = l
    OBVIOUS
  <2> QED
    BY <2>1, FS_Interval
<1>2. \A l \in 1 .. n : {j \in 1 .. n : j <= l} = 1 .. l
  OBVIOUS
<1>3. \A l \in 1 .. n : Cardinality({j \in 1 .. n : j <= l}) = l
  <2> TAKE l \in 1 .. n
  <2>1. {j \in 1 .. n : j <= l} = 1 .. l /\ l \in 0 .. n
    BY <1>2
  <2> QED
    BY <1>1, <2>1
<1>4. n \in 0 .. n
  OBVIOUS
<1> QED
  BY <1>1, <1>3, <1>4

\* Removing rows that are not in the list.
LEMMA PrunedNone ==
  ASSUME list \in Seq(ListRow), NEW m, m.type = "prune", \A j \in 1 .. Len(list) : list[j].id \notin m.ids
  PROVE  Applied(m) \in Seq(ListRow) /\ Len(Applied(m)) = Len(list)
         /\ \A j \in 1 .. Len(list) : Applied(m)[j] = list[j]
<1> DEFINE n == Len(list)
           Up(l) == CHOOSE k \in 1 .. n : Cardinality({j \in 1 .. n : j <= k}) = l
           L == [l \in 1 .. Cardinality(1 .. n) |-> list[Up(l)]]
<1>1. n \in Nat /\ DOMAIN list = 1 .. n /\ {k \in 1 .. n : list[k].id \notin m.ids} = 1 .. n
  OBVIOUS
<1>2. Applied(m) = L
  <2> DEFINE kept == {k \in DOMAIN list : list[k].id \notin m.ids}
             Of(K) == [l \in 1 .. Cardinality(K) |->
                         list[CHOOSE k \in K : Cardinality({j \in K : j <= k}) = l]]
  <2>1. Applied(m) = Without(m.ids)
    BY DEF Applied
  <2>2. Without(m.ids) = Of(kept)
    BY DEF Without
  <2>3. kept = 1 .. n
    BY <1>1
  <2>4. Of(1 .. n) = L
    OBVIOUS
  <2> HIDE DEF kept, Of, L
  <2> QED
    BY <2>1, <2>2, <2>3, <2>4
<1>3. \A k \in 1 .. n : Up(k) = k
  BY <1>1, UpToCount
<1>4. Cardinality(1 .. n) = n
  BY <1>1, UpToCount
<1> HIDE DEF Up
<1>5. L = [l \in 1 .. n |-> list[l]]
  BY <1>3, <1>4
<1> HIDE DEF L
<1> QED
  BY <1>1, <1>2, <1>5

\* Removing the last row of the list, as the ring does with its oldest one.
LEMMA PrunedLast ==
  ASSUME list \in Seq(ListRow), list # <<>>, NEW m, m.type = "prune", list[Len(list)].id \in m.ids,
         \A j \in 1 .. Len(list) - 1 : list[j].id \notin m.ids
  PROVE  Applied(m) \in Seq(ListRow) /\ Len(Applied(m)) = Len(list) - 1
         /\ \A j \in 1 .. Len(list) - 1 : Applied(m)[j] = list[j]
<1> DEFINE n == Len(list) - 1
           Up(l) == CHOOSE k \in 1 .. n : Cardinality({j \in 1 .. n : j <= k}) = l
           L == [l \in 1 .. Cardinality(1 .. n) |-> list[Up(l)]]
<1>1. /\ n \in Nat /\ DOMAIN list = 1 .. n + 1 /\ {k \in 1 .. n + 1 : list[k].id \notin m.ids} = 1 .. n
  OBVIOUS
<1>2. Applied(m) = L
  <2> DEFINE kept == {k \in DOMAIN list : list[k].id \notin m.ids}
             Of(K) == [l \in 1 .. Cardinality(K) |->
                         list[CHOOSE k \in K : Cardinality({j \in K : j <= k}) = l]]
  <2>1. Applied(m) = Without(m.ids)
    BY DEF Applied
  <2>2. Without(m.ids) = Of(kept)
    BY DEF Without
  <2>3. kept = 1 .. n
    BY <1>1
  <2>4. Of(1 .. n) = L
    OBVIOUS
  <2> HIDE DEF kept, Of, L
  <2> QED
    BY <2>1, <2>2, <2>3, <2>4
<1>3. \A k \in 1 .. n : Up(k) = k
  BY <1>1, UpToCount
<1>4. Cardinality(1 .. n) = n
  BY <1>1, UpToCount
<1>6. \A k \in 1 .. n : list[k] \in ListRow
  OBVIOUS
<1> HIDE DEF Up
<1>5. L = [l \in 1 .. n |-> list[l]]
  BY <1>3, <1>4
<1> HIDE DEF L
<1> QED
  BY <1>1, <1>2, <1>5, <1>6

-----------------------------------------------------------------------------
\* The list shows the newest rows of s: the next message makes it those of u.
LEMMA AsOfStep ==
  ASSUME FeedAssumption, NEW s \in Table, NEW u \in Table, NEW m, AsOf(list, s), Tells(s, m, u),
         m.type \notin {"clear", "open"}, m.type = "update" /\ At(m.id) = 0 => m.id >= Base(s)
  PROVE  AsOf(Applied(m), u)
<1> DEFINE g == s.g
           low == s.low
           b == Base(s)
           n == Len(list)
           M == MaxList
           st == s.st
           New == Applied(m)
<1>1. /\ M \in Nat /\ M >= 1 /\ M <= Ring /\ Ring \in Nat /\ MaxRows \in Nat
      /\ g \in Nat /\ low \in Nat /\ 1 <= low /\ low <= g + 1 /\ g <= MaxRows
      /\ b = IF low >= g - M + 1 THEN low ELSE g - M + 1
      /\ n = g - b + 1 /\ n \in Nat /\ b \in Nat /\ b >= 1
  <2>1. MaxList \in Nat /\ MaxList >= 1 /\ MaxList <= Ring /\ Ring \in Nat /\ MaxRows \in Nat
    BY FeedSizes
  <2>2. /\ s.g \in Nat /\ s.low \in Nat /\ 1 <= s.low /\ s.low <= s.g + 1 /\ s.g <= MaxRows
        /\ Base(s) \in Nat /\ Base(s) >= s.low
    BY TableFacts
  <2>3. Len(list) = s.g - Base(s) + 1 /\ Len(list) \in Nat
    BY DEF AsOf
  <2>4. Base(s) = IF s.low >= s.g - MaxList + 1 THEN s.low ELSE s.g - MaxList + 1
    BY DEF Base
  <2>5. Base(s) >= 1
    BY <2>2
  <2> QED
    BY <2>1, <2>2, <2>3, <2>4, <2>5
<1>2. list \in Seq(ListRow) /\ st \in [Row -> State] /\ \A i \in Row : st[i] # "none" <=> low <= i /\ i <= g
  BY TableFacts DEF AsOf
<1>3. \A k \in 1 .. n : list[k] = [id |-> g - k + 1, state |-> st[g - k + 1]]
  BY DEF AsOf, Shown
<1>4. TellsNew(s, m, u) \/ TellsState(s, m, u) \/ TellsPrune(s, m, u)
  BY DEF Tells, TellsClear, TellsOpen
<1>5. m.type = "update" /\ At(m.id) = 0 => m.id >= b
  OBVIOUS
<1>6. Base(u) = IF u.low >= u.g - M + 1 THEN u.low ELSE u.g - M + 1
  BY DEF Base
<1>7. ASSUME New \in Seq(ListRow), Len(New) = u.g - Base(u) + 1,
             \A k \in 1 .. Len(New) : New[k] = [id |-> u.g - k + 1, state |-> u.st[u.g - k + 1]]
      PROVE  AsOf(New, u)
  BY <1>7 DEF AsOf, Shown
<1> HIDE DEF g, low, b, n, M, st, New
<1>8. \A k \in 1 .. n : /\ list[k].id = g - k + 1 /\ g - k + 1 \in Row
                        /\ list[k].state = st[g - k + 1]
  <2> TAKE k \in 1 .. n
  <2>1. g - k + 1 \in Row
    BY <1>1 DEF Row
  <2>2. list[k] = [id |-> g - k + 1, state |-> st[g - k + 1]]
    BY <1>3
  <2> QED
    BY <2>1, <2>2
<1>9. \A j, k \in 1 .. n : list[j].id = list[k].id => j = k
  BY <1>1, <1>8
<1>10. CASE TellsNew(s, m, u)
  <2>1. /\ m.type = "new" /\ m.id = g + 1 /\ m.id \in Row /\ m.state \in State
        /\ u.g = g + 1 /\ u.low = low /\ u.st = [st EXCEPT ![m.id] = m.state]
    BY <1>10 DEF TellsNew, g, low, st
  <2>2. \A j \in 1 .. n : list[j].id # m.id
    BY <1>1, <1>8, <2>1
  <2>3. /\ New \in Seq(ListRow) /\ Len(New) = IF n + 1 <= M THEN n + 1 ELSE M
        /\ \A j \in 1 .. Len(New) : New[j] = IF j = 1 THEN [id |-> m.id, state |-> m.state] ELSE list[j - 1]
    BY <1>2, <2>1, <2>2, PutInFront DEF New, n, M
  <2>4. Len(New) = u.g - Base(u) + 1 /\ Len(New) \in Nat /\ Len(New) <= n + 1
    <3>1. Base(u) = IF low >= g + 1 - M + 1 THEN low ELSE g + 1 - M + 1
      BY <1>1, <1>6, <2>1
    <3>2. n + 1 <= M => Len(New) = n + 1
      BY <2>3
    <3>3. ~(n + 1 <= M) => Len(New) = M
      BY <2>3
    <3>4. n + 1 <= M => n + 1 = g + 1 - Base(u) + 1
      BY <1>1, <3>1
    <3>5. ~(n + 1 <= M) => M = g + 1 - Base(u) + 1 /\ M <= n + 1
      BY <1>1, <3>1
    <3>6. n + 1 \in Nat /\ M \in Nat /\ n + 1 <= n + 1 /\ Base(u) \in Int /\ g \in Int /\ u.g = g + 1
      BY <1>1, <2>1, <3>1
    <3>7. CASE n + 1 <= M
      BY <3>2, <3>4, <3>6, <3>7
    <3>8. CASE ~(n + 1 <= M)
      BY <3>3, <3>5, <3>6, <3>8
    <3> QED
      BY <3>7, <3>8
  <2>5. ASSUME NEW k \in 1 .. Len(New) PROVE New[k] = [id |-> u.g - k + 1, state |-> u.st[u.g - k + 1]]
    <3>1. CASE k = 1
      <4>1. u.g - k + 1 = m.id
        BY <1>1, <2>1, <3>1
      <4> QED
        BY <1>2, <2>1, <2>3, <3>1, <4>1
    <3>2. CASE k # 1
      <4>1. k - 1 \in 1 .. n /\ u.g - k + 1 = g - (k - 1) + 1 /\ u.g - k + 1 # m.id
        BY <1>1, <2>1, <2>4, <3>2
      <4>2. New[k] = list[k - 1] /\ list[k - 1] = [id |-> u.g - k + 1, state |-> st[u.g - k + 1]]
        BY <1>3, <2>3, <3>2, <4>1
      <4>3. u.g - k + 1 \in Row
        BY <1>8, <4>1
      <4>4. u.st[u.g - k + 1] = st[u.g - k + 1]
        BY <1>2, <2>1, <4>1, <4>3
      <4> QED
        BY <4>2, <4>4
    <3> QED
      BY <3>1, <3>2
  <2> QED
    BY <1>7, <2>3, <2>4, <2>5 DEF New
<1>11. CASE TellsState(s, m, u)
  <2>1. /\ m.type \in {"state", "update"} /\ m.id \in Row /\ m.id \in Nat /\ m.id <= g /\ m.state \in State
        /\ u.g = g /\ u.low = low
        /\ u.st = IF st[m.id] = "none" THEN st ELSE [st EXCEPT ![m.id] = m.state]
    BY <1>11, FeedSizes DEF TellsState, g, low, st
  <2>2. n = u.g - Base(u) + 1
    BY <1>1, <1>6, <2>1
  <2>3. CASE m.id >= b
    <3> DEFINE p == g - m.id + 1
    <3>1. p \in 1 .. n /\ g - p + 1 = m.id
      BY <1>1, <2>1, <2>3
    <3>2. st[m.id] # "none"
      BY <1>1, <1>2, <2>1, <2>3
    <3> HIDE DEF p
    <3>3. list[p].id = m.id
      BY <1>8, <3>1
    <3>4. /\ New \in Seq(ListRow) /\ Len(New) = n
          /\ \A j \in 1 .. n : New[j] = IF j = p THEN [id |-> m.id, state |-> m.state] ELSE list[j]
      BY <1>2, <1>9, <2>1, <3>1, <3>3, Patched DEF New, n
    <3>5. ASSUME NEW k \in 1 .. n PROVE New[k] = [id |-> u.g - k + 1, state |-> u.st[u.g - k + 1]]
      <4>1. CASE k = p
        BY <1>2, <2>1, <3>1, <3>2, <3>4, <4>1
      <4>2. CASE k # p
        <5>1. g - k + 1 # m.id /\ g - k + 1 \in Row
          BY <1>1, <1>8, <3>1, <4>2
        <5>2. u.st[g - k + 1] = st[g - k + 1]
          BY <1>2, <2>1, <5>1
        <5> QED
          BY <1>3, <2>1, <3>4, <4>2, <5>2
      <4> QED
        BY <4>1, <4>2
    <3> QED
      BY <1>7, <2>2, <3>4, <3>5 DEF New
  <2>4. CASE m.id < b
    <3>1. \A j \in 1 .. n : list[j].id # m.id
      BY <1>1, <1>8, <2>1, <2>4
    <3>2. At(m.id) = 0
      BY <1>2, <3>1, AtNone DEF n
    <3>3. m.type = "state"
      BY <1>1, <1>5, <2>1, <2>4, <3>2
    <3>4. New = list
      BY <1>2, <3>1, <3>3, NotThere DEF New, n
    <3>5. ASSUME NEW k \in 1 .. n PROVE list[k] = [id |-> u.g - k + 1, state |-> u.st[u.g - k + 1]]
      <4>1. g - k + 1 # m.id /\ g - k + 1 \in Row
        BY <1>1, <1>8, <3>1
      <4>2. u.st[g - k + 1] = st[g - k + 1]
        BY <1>2, <2>1, <4>1
      <4> QED
        BY <1>3, <2>1, <4>2
    <3>6. Len(list) = n
      BY DEF n
    <3> QED
      BY <1>2, <1>7, <2>2, <3>4, <3>5, <3>6 DEF New
  <2> QED
    BY <1>1, <2>1, <2>3, <2>4
<1>12. CASE TellsPrune(s, m, u)
  <2>1. /\ m.type = "prune" /\ m.ids = {low} /\ low = g - Ring + 1
        /\ u.g = g /\ u.low = low + 1 /\ u.st = [st EXCEPT ![low] = "none"]
    BY <1>12 DEF TellsPrune, g, low, st
  <2>2. ASSUME NEW k \in 1 .. n, g - k + 1 # low
        PROVE  list[k] = [id |-> u.g - k + 1, state |-> u.st[u.g - k + 1]]
    <3>1. u.st[g - k + 1] = st[g - k + 1]
      BY <1>2, <1>8, <2>1, <2>2
    <3> QED
      BY <1>3, <2>1, <3>1
  <2>3. CASE b > low
    <3>1. n = u.g - Base(u) + 1
      BY <1>1, <1>6, <2>1, <2>3
    <3>2. \A j \in 1 .. n : list[j].id # low
      BY <1>1, <1>8, <2>3
    <3>3. /\ New \in Seq(ListRow) /\ Len(New) = n
          /\ \A j \in 1 .. n : New[j] = list[j]
      BY <1>2, <2>1, <3>2, PrunedNone DEF New, n
    <3>4. \A k \in 1 .. n : g - k + 1 # low
      BY <1>1, <2>3
    <3> QED
      BY <1>7, <2>2, <3>1, <3>3, <3>4 DEF New
  <2>4. CASE b = low
    <3>1. M = Ring /\ n = Ring /\ n - 1 = u.g - Base(u) + 1 /\ n - 1 \in Nat
      BY <1>1, <1>6, <2>1, <2>4
    <3>2. list # <<>> /\ list[n].id = low
      <4>1. n \in 1 .. n /\ g - n + 1 = low
        BY <1>1, <2>1, <3>1
      <4>2. list # <<>>
        BY <4>1 DEF n
      <4> QED
        BY <1>8, <4>1, <4>2
    <3>3. \A j \in 1 .. n - 1 : g - j + 1 # low /\ j \in 1 .. n
      BY <1>1, <2>1, <3>1
    <3>4. \A j \in 1 .. n - 1 : list[j].id # low
      BY <1>8, <3>3
    <3>5. /\ New \in Seq(ListRow) /\ Len(New) = n - 1
          /\ \A j \in 1 .. n - 1 : New[j] = list[j]
      BY <1>2, <2>1, <3>2, <3>4, PrunedLast DEF New, n
    <3>6. \A k \in 1 .. n - 1 : New[k] = [id |-> u.g - k + 1, state |-> u.st[u.g - k + 1]]
      BY <2>2, <3>3, <3>5
    <3> QED
      BY <1>7, <3>1, <3>5, <3>6 DEF New
  <2>5. b >= low
    BY <1>1
  <2> QED
    BY <1>1, <2>3, <2>4, <2>5
<1> QED
  BY <1>4, <1>10, <1>11, <1>12 DEF New

\* The list shows the newest rows of t, of which the messages have not told yet:
\* the next message leaves it so, or puts an older row in front.
LEMMA AheadStep ==
  ASSUME FeedAssumption, NEW s \in Table, NEW u \in Table, NEW t \in Table, NEW m,
         Ahead(list, s, t), Tells(s, m, u), Ringed(s, t), Later(s, t), Later(u, t),
         m.type \notin {"clear", "open"}, m.type = "update" /\ At(m.id) = 0 => m.id >= Base(t)
  PROVE  Ahead(Applied(m), u, t) \/ Mixed(Applied(m), u, t) \/ AsOf(Applied(m), u)
<1> DEFINE g == s.g
           low == s.low
           st == s.st
           tg == t.g
           tlow == t.low
           b == Base(t)
           tst == t.st
           n == Len(list)
           M == MaxList
           New == Applied(m)
<1>1. /\ M \in Nat /\ M >= 1 /\ M <= Ring /\ Ring \in Nat /\ MaxRows \in Nat
      /\ g \in Nat /\ low \in Nat /\ 1 <= low /\ low <= g + 1
      /\ tg \in Nat /\ tlow \in Nat /\ 1 <= tlow /\ tlow <= tg + 1 /\ tg <= MaxRows
      /\ b = IF tlow >= tg - M + 1 THEN tlow ELSE tg - M + 1
      /\ n = tg - b + 1 /\ n \in Nat /\ b \in Nat /\ b >= 1 /\ b >= tlow
      /\ g <= tg /\ low <= tlow /\ (tlow <= low \/ tlow <= tg - Ring + 1)
  <2>1. MaxList \in Nat /\ MaxList >= 1 /\ MaxList <= Ring /\ Ring \in Nat /\ MaxRows \in Nat
    BY FeedSizes
  <2>2. s.g \in Nat /\ s.low \in Nat /\ 1 <= s.low /\ s.low <= s.g + 1
    BY TableFacts
  <2>3. /\ t.g \in Nat /\ t.low \in Nat /\ 1 <= t.low /\ t.low <= t.g + 1 /\ t.g <= MaxRows
        /\ Base(t) \in Nat /\ Base(t) >= t.low
    BY TableFacts
  <2>4. Len(list) = t.g - Base(t) + 1 /\ Len(list) \in Nat
    BY DEF Ahead
  <2>5. Base(t) = IF t.low >= t.g - MaxList + 1 THEN t.low ELSE t.g - MaxList + 1
    BY DEF Base
  <2>6. Base(t) >= 1
    BY <2>3
  <2>7. s.g <= t.g /\ s.low <= t.low /\ (t.low <= s.low \/ t.low <= t.g - Ring + 1)
    BY DEF Later, Ringed
  <2> QED
    BY <2>1, <2>2, <2>3, <2>4, <2>5, <2>6, <2>7
<1>2. /\ list \in Seq(ListRow) /\ st \in [Row -> State]
      /\ \A i \in Row : st[i] # "none" <=> low <= i /\ i <= g
  BY TableFacts DEF Ahead
<1>3. \A k \in 1 .. n : \/ list[k] = [id |-> tg - k + 1, state |-> tst[tg - k + 1]]
                        \/ tg - k + 1 <= g /\ list[k] = [id |-> tg - k + 1, state |-> st[tg - k + 1]]
  BY DEF Ahead, Shown
<1>4. TellsNew(s, m, u) \/ TellsState(s, m, u) \/ TellsPrune(s, m, u)
  BY DEF Tells, TellsClear, TellsOpen
<1>5. (m.type = "update" /\ At(m.id) = 0 => m.id >= b) /\ u.g <= tg /\ u.low <= tlow
  BY DEF Later
<1>6. Base(u) = IF u.low >= u.g - M + 1 THEN u.low ELSE u.g - M + 1
  BY DEF Base
<1>7. ASSUME New \in Seq(ListRow), Len(New) = n,
             \A k \in 1 .. n : \/ New[k] = [id |-> tg - k + 1, state |-> tst[tg - k + 1]]
                               \/ tg - k + 1 <= u.g /\ New[k] = [id |-> tg - k + 1, state |-> u.st[tg - k + 1]]
      PROVE  Ahead(New, u, t)
  <2>1. Len(list) = t.g - Base(t) + 1
    BY DEF Ahead
  <2> QED
    BY <1>7, <2>1 DEF Ahead, Shown
<1>8. ASSUME New \in Seq(ListRow), Len(New) = M, M >= 2, u.g < Base(t), u.low <= u.g,
             \A k \in 1 .. M : New[k] = IF k <= 1 THEN [id |-> u.g - k + 1, state |-> u.st[u.g - k + 1]]
                                        ELSE [id |-> tg - k + 2, state |-> tst[tg - k + 2]]
      PROVE  Mixed(New, u, t)
  <2>1. 1 \in 1 .. MaxList - 1 /\ u.g \in Nat /\ t.g \in Nat
    BY <1>1, <1>8, TableFacts
  <2>2. \A k \in 1 .. M : t.g - k + 1 + 1 = tg - k + 2
    BY <2>1
  <2>3. u.g - 1 + 1 < Base(t) /\ u.low <= u.g - 1 + 1
    BY <1>8, <2>1
  <2>4. MixedAt(New, u, t, 1)
    BY <1>8, <2>2, <2>3 DEF MixedAt, Shown
  <2> QED
    BY <2>1, <2>4 DEF Mixed
<1>9. ASSUME New \in Seq(ListRow), Len(New) = 1, M = 1, u.low <= u.g,
             New[1] = [id |-> u.g, state |-> u.st[u.g]]
      PROVE  AsOf(New, u)
  <2>1. u.g \in Nat /\ u.low \in Nat
    BY TableFacts
  <2>2. Base(u) = u.g
    BY <1>6, <1>9, <2>1
  <2>3. Len(New) = u.g - Base(u) + 1 /\ \A k \in 1 .. 1 : k = 1 /\ u.g - k + 1 = u.g
    BY <1>9, <2>1, <2>2
  <2>4. \A k \in 1 .. Len(New) : New[k] = Shown(u, u.g - k + 1)
    BY <1>9, <2>3 DEF Shown
  <2> QED
    BY <1>9, <2>3, <2>4 DEF AsOf
<1> HIDE DEF g, low, st, tg, tlow, b, tst, n, M, New
<1>10. \A k \in 1 .. n : list[k].id = tg - k + 1 /\ tg - k + 1 \in Row
  <2> TAKE k \in 1 .. n
  <2>1. tg - k + 1 \in Row
    BY <1>1 DEF Row
  <2>2. \/ list[k] = [id |-> tg - k + 1, state |-> tst[tg - k + 1]]
        \/ list[k] = [id |-> tg - k + 1, state |-> st[tg - k + 1]]
    BY <1>3
  <2> QED
    BY <2>1, <2>2
<1>11. \A j, k \in 1 .. n : list[j].id = list[k].id => j = k
  BY <1>1, <1>10
<1>12. CASE TellsNew(s, m, u)
  <2>1. /\ m.type = "new" /\ m.id = g + 1 /\ m.id \in Row /\ m.state \in State
        /\ u.g = g + 1 /\ u.low = low /\ u.st = [st EXCEPT ![m.id] = m.state]
    BY <1>12 DEF TellsNew, g, low, st
  <2>2. CASE g + 1 >= b
    <3> DEFINE p == tg - (g + 1) + 1
    <3>1. p \in 1 .. n /\ tg - p + 1 = m.id /\ g + 1 <= tg
      BY <1>1, <1>5, <2>1, <2>2
    <3> HIDE DEF p
    <3>2. list[p].id = m.id
      BY <1>10, <3>1
    <3>3. /\ New \in Seq(ListRow) /\ Len(New) = n
          /\ \A j \in 1 .. n : New[j] = IF j = p THEN [id |-> m.id, state |-> m.state] ELSE list[j]
      BY <1>2, <1>11, <2>1, <3>1, <3>2, Patched DEF New, n
    <3>4. ASSUME NEW k \in 1 .. n
          PROVE  \/ New[k] = [id |-> tg - k + 1, state |-> tst[tg - k + 1]]
                 \/ tg - k + 1 <= u.g /\ New[k] = [id |-> tg - k + 1, state |-> u.st[tg - k + 1]]
      <4>1. CASE k = p
        <5>1. tg - k + 1 = m.id /\ m.id <= u.g
          BY <1>1, <2>1, <3>1, <4>1
        <5> QED
          BY <1>2, <2>1, <3>3, <4>1, <5>1
      <4>2. CASE k # p
        <5>1. tg - k + 1 # m.id /\ tg - k + 1 \in Row
          BY <1>1, <1>10, <3>1, <4>2
        <5>2. u.st[tg - k + 1] = st[tg - k + 1]
          BY <1>2, <2>1, <5>1
        <5>3. tg - k + 1 <= g => tg - k + 1 <= u.g
          BY <1>1, <2>1
        <5> QED
          BY <1>3, <3>3, <4>2, <5>2, <5>3
      <4> QED
        BY <4>1, <4>2
    <3> QED
      BY <1>7, <3>3, <3>4 DEF New
  <2>3. CASE g + 1 < b
    <3>1. b = tg - M + 1 /\ n = M
      BY <1>1, <2>3
    <3>2. \A j \in 1 .. n : list[j].id # m.id
      BY <1>1, <1>10, <2>1, <2>3
    <3>3. /\ New \in Seq(ListRow) /\ Len(New) = IF n + 1 <= M THEN n + 1 ELSE M
          /\ \A j \in 1 .. Len(New) : New[j] = IF j = 1 THEN [id |-> m.id, state |-> m.state] ELSE list[j - 1]
      BY <1>2, <2>1, <3>2, PutInFront DEF New, n, M
    <3>4. Len(New) = M /\ M \in Nat /\ M >= 1
      BY <1>1, <3>1, <3>3
    <3>5. New[1] = [id |-> u.g, state |-> u.st[u.g]]
      BY <1>2, <2>1, <3>3, <3>4
    <3>6. u.low <= u.g /\ u.g < Base(t)
      BY <1>1, <2>1, <2>3 DEF b
    <3>7. CASE M = 1
      BY <1>9, <3>3, <3>4, <3>5, <3>6, <3>7 DEF New
    <3>8. CASE M # 1
      <4>1. M >= 2
        BY <3>4, <3>8
      <4>2. ASSUME NEW k \in 1 .. M
            PROVE  New[k] = IF k <= 1 THEN [id |-> u.g - k + 1, state |-> u.st[u.g - k + 1]]
                            ELSE [id |-> tg - k + 2, state |-> tst[tg - k + 2]]
        <5>1. CASE k = 1
          <6>1. u.g - k + 1 = u.g
            BY <1>1, <2>1, <5>1
          <6> QED
            BY <3>5, <5>1, <6>1
        <5>2. CASE k # 1
          <6>1. k - 1 \in 1 .. n /\ tg - (k - 1) + 1 = tg - k + 2 /\ ~(tg - k + 2 <= g) /\ ~(k <= 1)
            BY <1>1, <2>3, <3>1, <5>2
          <6>2. New[k] = list[k - 1]
            BY <3>3, <3>4, <5>2
          <6>3. list[k - 1] = [id |-> tg - k + 2, state |-> tst[tg - k + 2]]
            BY <1>3, <6>1
          <6> QED
            BY <6>1, <6>2, <6>3
        <5> QED
          BY <5>1, <5>2
      <4> QED
        BY <1>8, <3>3, <3>4, <3>6, <4>1, <4>2 DEF New
    <3> QED
      BY <3>7, <3>8
  <2> QED
    BY <1>1, <2>2, <2>3
<1>13. CASE TellsState(s, m, u)
  <2>1. /\ m.type \in {"state", "update"} /\ m.id \in Row /\ m.id \in Nat /\ m.id <= g /\ m.state \in State
        /\ u.g = g /\ u.low = low
        /\ u.st = IF st[m.id] = "none" THEN st ELSE [st EXCEPT ![m.id] = m.state]
    BY <1>13, FeedSizes DEF TellsState, g, low, st
  <2>2. ASSUME NEW k \in 1 .. n, tg - k + 1 # m.id
        PROVE  \/ list[k] = [id |-> tg - k + 1, state |-> tst[tg - k + 1]]
               \/ tg - k + 1 <= u.g /\ list[k] = [id |-> tg - k + 1, state |-> u.st[tg - k + 1]]
    <3>1. tg - k + 1 \in Row
      BY <1>10
    <3>2. u.st[tg - k + 1] = st[tg - k + 1]
      BY <1>2, <2>1, <2>2, <3>1
    <3> QED
      BY <1>3, <2>1, <3>2
  <2>3. CASE m.id >= b
    <3> DEFINE p == tg - m.id + 1
    <3>1. p \in 1 .. n /\ tg - p + 1 = m.id
      BY <1>1, <2>1, <2>3
    <3>2. st[m.id] # "none"
      BY <1>1, <1>2, <2>1, <2>3
    <3> HIDE DEF p
    <3>3. list[p].id = m.id
      BY <1>10, <3>1
    <3>4. /\ New \in Seq(ListRow) /\ Len(New) = n
          /\ \A j \in 1 .. n : New[j] = IF j = p THEN [id |-> m.id, state |-> m.state] ELSE list[j]
      BY <1>2, <1>11, <2>1, <3>1, <3>3, Patched DEF New, n
    <3>5. ASSUME NEW k \in 1 .. n
          PROVE  \/ New[k] = [id |-> tg - k + 1, state |-> tst[tg - k + 1]]
                 \/ tg - k + 1 <= u.g /\ New[k] = [id |-> tg - k + 1, state |-> u.st[tg - k + 1]]
      <4>1. CASE k = p
        BY <1>2, <2>1, <3>1, <3>2, <3>4, <4>1
      <4>2. CASE k # p
        <5>1. tg - k + 1 # m.id
          BY <1>1, <3>1, <4>2
        <5> QED
          BY <2>2, <3>4, <4>2, <5>1
      <4> QED
        BY <4>1, <4>2
    <3> QED
      BY <1>7, <3>4, <3>5 DEF New
  <2>4. CASE m.id < b
    <3>1. \A j \in 1 .. n : list[j].id # m.id /\ tg - j + 1 # m.id
      BY <1>1, <1>10, <2>1, <2>4
    <3>2. At(m.id) = 0
      BY <1>2, <3>1, AtNone DEF n
    <3>3. m.type = "state"
      BY <1>1, <1>5, <2>1, <2>4, <3>2
    <3>4. New = list
      BY <1>2, <3>1, <3>3, NotThere DEF New, n
    <3>5. Len(list) = n
      BY DEF n
    <3> QED
      BY <1>2, <1>7, <2>2, <3>1, <3>4, <3>5 DEF New
  <2> QED
    BY <1>1, <2>1, <2>3, <2>4
<1>14. CASE TellsPrune(s, m, u)
  <2>1. /\ m.type = "prune" /\ m.ids = {low} /\ low = g - Ring + 1
        /\ u.g = g /\ u.low = low + 1 /\ u.st = [st EXCEPT ![low] = "none"]
    BY <1>14 DEF TellsPrune, g, low, st
  <2>2. \A j \in 1 .. n : tg - j + 1 # low
    BY <1>1, <1>5, <2>1
  <2>3. \A j \in 1 .. n : list[j].id # low
    BY <1>10, <2>2
  <2>4. /\ New \in Seq(ListRow) /\ Len(New) = n
        /\ \A j \in 1 .. n : New[j] = list[j]
    BY <1>2, <2>1, <2>3, PrunedNone DEF New, n
  <2>5. ASSUME NEW k \in 1 .. n
        PROVE  \/ New[k] = [id |-> tg - k + 1, state |-> tst[tg - k + 1]]
               \/ tg - k + 1 <= u.g /\ New[k] = [id |-> tg - k + 1, state |-> u.st[tg - k + 1]]
    <3>1. tg - k + 1 \in Row /\ tg - k + 1 # low
      BY <1>10, <2>2
    <3>2. u.st[tg - k + 1] = st[tg - k + 1]
      BY <1>2, <2>1, <3>1
    <3> QED
      BY <1>3, <2>1, <2>4, <3>2
  <2> QED
    BY <1>7, <2>4, <2>5 DEF New
<1> QED
  BY <1>4, <1>12, <1>13, <1>14 DEF New

\* The list shows rows that were told again in front of the first of t: the next
\* message leaves it so, or has pushed out the last of those.
LEMMA MixedStep ==
  ASSUME FeedAssumption, NEW s \in Table, NEW u \in Table, NEW t \in Table, NEW m,
         Mixed(list, s, t), Tells(s, m, u), Ringed(s, t), Later(s, t), Later(u, t),
         m.type \notin {"clear", "open"}, m.type = "update" /\ At(m.id) = 0 => m.id >= Base(t)
  PROVE  Mixed(Applied(m), u, t) \/ AsOf(Applied(m), u)
<1>0. PICK x \in 1 .. MaxList - 1 : MixedAt(list, s, t, x)
  BY DEF Mixed
<1> DEFINE g == s.g
           low == s.low
           st == s.st
           tg == t.g
           tlow == t.low
           b == Base(t)
           tst == t.st
           M == MaxList
           New == Applied(m)
           a == g - x + 1
           Id(k) == IF k <= x THEN g - k + 1 ELSE tg - k + x + 1
<1>1. /\ M \in Nat /\ M >= 1 /\ M <= Ring /\ Ring \in Nat /\ MaxRows \in Nat
      /\ x \in Nat /\ x >= 1 /\ x < M
      /\ g \in Nat /\ low \in Nat /\ 1 <= low /\ low <= g + 1 /\ g <= MaxRows
      /\ tg \in Nat /\ tg <= MaxRows /\ b = tg - M + 1
      /\ a = g - x + 1 /\ a < b /\ low <= a
      /\ g <= tg /\ low <= tlow /\ tlow \in Nat
  <2>1. MaxList \in Nat /\ MaxList >= 1 /\ MaxList <= Ring /\ Ring \in Nat /\ MaxRows \in Nat
    BY FeedSizes
  <2>2. s.g \in Nat /\ s.low \in Nat /\ 1 <= s.low /\ s.low <= s.g + 1 /\ s.g <= MaxRows
    BY TableFacts
  <2>3. t.g \in Nat /\ t.low \in Nat /\ t.g <= MaxRows
    BY TableFacts
  <2>4. s.g - x + 1 < Base(t) /\ s.low <= s.g - x + 1
    BY <1>0 DEF MixedAt
  <2>5. Base(t) = IF t.low >= t.g - MaxList + 1 THEN t.low ELSE t.g - MaxList + 1
    BY DEF Base
  <2>6. s.g <= t.g /\ s.low <= t.low /\ (t.low <= s.low \/ t.low <= t.g - Ring + 1)
    BY DEF Later, Ringed
  <2>7. x \in Nat /\ x >= 1 /\ x < MaxList
    BY <2>1
  <2>8. Base(t) = t.g - MaxList + 1
    BY <2>1, <2>2, <2>3, <2>4, <2>5, <2>6, <2>7
  <2> QED
    BY <2>1, <2>2, <2>3, <2>4, <2>6, <2>7, <2>8
<1>2. /\ list \in Seq(ListRow) /\ Len(list) = M /\ st \in [Row -> State]
      /\ \A i \in Row : st[i] # "none" <=> low <= i /\ i <= g
  BY <1>0, TableFacts DEF MixedAt
<1>3. \A k \in 1 .. M : list[k] = IF k <= x THEN [id |-> Id(k), state |-> st[Id(k)]]
                                  ELSE [id |-> Id(k), state |-> tst[Id(k)]]
  BY <1>0 DEF MixedAt, Shown
<1>4. TellsNew(s, m, u) \/ TellsState(s, m, u) \/ TellsPrune(s, m, u)
  BY DEF Tells, TellsClear, TellsOpen
<1>5. (m.type = "update" /\ At(m.id) = 0 => m.id >= b) /\ u.g <= tg /\ u.low <= tlow
  BY DEF Later
<1>6. Base(u) = IF u.low >= u.g - M + 1 THEN u.low ELSE u.g - M + 1
  BY DEF Base
<1>7. ASSUME New \in Seq(ListRow), Len(New) = M, NEW y \in 1 .. M - 1,
             u.g - y + 1 < b, u.low <= u.g - y + 1,
             \A k \in 1 .. M : New[k] = IF k <= y THEN [id |-> u.g - k + 1, state |-> u.st[u.g - k + 1]]
                                        ELSE [id |-> tg - k + y + 1, state |-> tst[tg - k + y + 1]]
      PROVE  Mixed(New, u, t)
  <2>1. MixedAt(New, u, t, y)
    BY <1>7 DEF MixedAt, Shown
  <2> QED
    BY <2>1 DEF Mixed
<1>8. ASSUME New \in Seq(ListRow), Len(New) = u.g - Base(u) + 1,
             \A k \in 1 .. Len(New) : New[k] = [id |-> u.g - k + 1, state |-> u.st[u.g - k + 1]]
      PROVE  AsOf(New, u)
  BY <1>8 DEF AsOf, Shown
<1>9. /\ \A k : k <= x => Id(k) = g - k + 1
      /\ \A k : ~(k <= x) => Id(k) = tg - k + x + 1
  OBVIOUS
<1> HIDE DEF g, low, st, tg, tlow, b, tst, M, New, a, Id
<1>10. ASSUME NEW k \in 1 .. M
       PROVE  /\ list[k].id = Id(k) /\ Id(k) \in Row /\ Id(k) \in Nat
              /\ k <= x => Id(k) <= g /\ Id(k) >= a
              /\ ~(k <= x) => Id(k) > g + 1 /\ Id(k) > a
  <2>1. /\ Id(k) \in Row /\ Id(k) \in Nat
        /\ k <= x => Id(k) <= g /\ Id(k) >= a
        /\ ~(k <= x) => Id(k) > g + 1 /\ Id(k) > a
    <3>1. CASE k <= x
      BY <1>1, <1>9, <3>1 DEF Row
    <3>2. CASE ~(k <= x)
      BY <1>1, <1>9, <3>2 DEF Row
    <3> QED
      BY <3>1, <3>2
  <2>2. list[k] = IF k <= x THEN [id |-> Id(k), state |-> st[Id(k)]] ELSE [id |-> Id(k), state |-> tst[Id(k)]]
    BY <1>3
  <2> QED
    BY <2>1, <2>2
<1>11. \A j, k \in 1 .. M : Id(j) = Id(k) => j = k
  <2> TAKE j, k \in 1 .. M
  <2>1. /\ j <= x => Id(j) = g - j + 1 /\ Id(j) <= g
        /\ ~(j <= x) => Id(j) = tg - j + x + 1 /\ Id(j) > g + 1
        /\ k <= x => Id(k) = g - k + 1 /\ Id(k) <= g
        /\ ~(k <= x) => Id(k) = tg - k + x + 1 /\ Id(k) > g + 1
    BY <1>9, <1>10
  <2> QED
    BY <1>1, <2>1
<1>12. \A j, k \in 1 .. M : list[j].id = list[k].id => j = k
  BY <1>10, <1>11
<1>13. CASE TellsNew(s, m, u)
  <2>1. /\ m.type = "new" /\ m.id = g + 1 /\ m.id \in Row /\ m.state \in State
        /\ u.g = g + 1 /\ u.low = low /\ u.st = [st EXCEPT ![m.id] = m.state]
    BY <1>13 DEF TellsNew, g, low, st
  <2>2. \A j \in 1 .. M : list[j].id # m.id
    <3> TAKE j \in 1 .. M
    <3> QED
      BY <1>1, <1>10, <2>1
  <2>3. /\ New \in Seq(ListRow) /\ Len(New) = IF M + 1 <= M THEN M + 1 ELSE M
        /\ \A j \in 1 .. Len(New) : New[j] = IF j = 1 THEN [id |-> m.id, state |-> m.state] ELSE list[j - 1]
    BY <1>2, <2>1, <2>2, PutInFront DEF New, M
  <2>4. Len(New) = M
    BY <1>1, <2>3
  <2> DEFINE y == x + 1
  <2>5. ASSUME NEW k \in 1 .. M
        PROVE  New[k] = IF k <= y THEN [id |-> u.g - k + 1, state |-> u.st[u.g - k + 1]]
                        ELSE [id |-> tg - k + y + 1, state |-> tst[tg - k + y + 1]]
    <3>1. CASE k = 1
      <4>1. u.g - k + 1 = m.id /\ k <= y
        BY <1>1, <2>1, <3>1
      <4> QED
        BY <1>2, <2>1, <2>3, <2>4, <3>1, <4>1
    <3>2. CASE k # 1
      <4>1. k - 1 \in 1 .. M /\ New[k] = list[k - 1]
        BY <1>1, <2>3, <2>4, <3>2
      <4>2. CASE k <= y
        <5>1. k - 1 <= x /\ g - (k - 1) + 1 = u.g - k + 1 /\ u.g - k + 1 # m.id
          BY <1>1, <2>1, <3>2, <4>2
        <5>2. Id(k - 1) = u.g - k + 1
          BY <1>9, <5>1
        <5>3. list[k - 1] = [id |-> u.g - k + 1, state |-> st[u.g - k + 1]] /\ u.g - k + 1 \in Row
          BY <1>3, <1>10, <4>1, <5>1, <5>2
        <5>4. u.st[u.g - k + 1] = st[u.g - k + 1]
          BY <1>2, <2>1, <5>1, <5>3
        <5> QED
          BY <4>1, <4>2, <5>3, <5>4
      <4>3. CASE ~(k <= y)
        <5>1. ~(k - 1 <= x) /\ tg - (k - 1) + x + 1 = tg - k + y + 1
          BY <1>1, <3>2, <4>3
        <5>2. Id(k - 1) = tg - k + y + 1
          BY <1>9, <5>1
        <5>3. list[k - 1] = [id |-> Id(k - 1), state |-> tst[Id(k - 1)]]
          BY <1>3, <4>1, <5>1
        <5> QED
          BY <4>1, <4>3, <5>2, <5>3
      <4> QED
        BY <4>2, <4>3
    <3> QED
      BY <3>1, <3>2
  <2>6. y \in Nat /\ u.g - y + 1 = a /\ u.low <= a /\ a < b /\ y <= M
    BY <1>1, <2>1
  <2> HIDE DEF y
  <2>7. CASE y < M
    <3>1. y \in 1 .. M - 1 /\ u.g - y + 1 < b /\ u.low <= u.g - y + 1
      <4>1. y >= 1
        BY <1>1 DEF y
      <4> QED
        BY <1>1, <2>6, <2>7, <4>1
    <3> QED
      BY <1>7, <2>3, <2>4, <2>5, <3>1 DEF New
  <2>8. CASE y = M
    <3>1. Base(u) = a
      <4>1. u.g - M + 1 = a /\ u.low \in Nat /\ a \in Int
        BY <1>1, <2>1, <2>6, <2>8
      <4> QED
        BY <1>6, <2>6, <4>1
    <3>2. Len(New) = u.g - Base(u) + 1
      BY <1>1, <2>1, <2>4, <2>6, <2>8, <3>1
    <3>3. \A k \in 1 .. Len(New) : New[k] = [id |-> u.g - k + 1, state |-> u.st[u.g - k + 1]]
      <4> TAKE k \in 1 .. Len(New)
      <4>1. k \in 1 .. M /\ k <= y
        BY <1>1, <2>4, <2>8
      <4> QED
        BY <2>5, <4>1
    <3> QED
      BY <1>8, <2>3, <3>2, <3>3 DEF New
  <2> QED
    BY <1>1, <2>6, <2>7, <2>8
<1>14. ASSUME u.g = g, u.low <= a,
              New \in Seq(ListRow), Len(New) = M,
              \A k \in 1 .. M : \/ k <= x /\ Id(k) = m.id /\ u.st[Id(k)] = m.state
                                   /\ New[k] = [id |-> m.id, state |-> m.state]
                                \/ (k <= x => u.st[Id(k)] = st[Id(k)]) /\ New[k] = list[k]
       PROVE  Mixed(New, u, t)
  <2>1. x \in 1 .. M - 1 /\ u.g - x + 1 < b /\ u.low <= u.g - x + 1
    BY <1>1, <1>14
  <2>2. ASSUME NEW k \in 1 .. M
        PROVE  New[k] = IF k <= x THEN [id |-> u.g - k + 1, state |-> u.st[u.g - k + 1]]
                        ELSE [id |-> tg - k + x + 1, state |-> tst[tg - k + x + 1]]
    <3>1. CASE k <= x
      <4>1. Id(k) = u.g - k + 1
        BY <1>9, <1>14, <3>1
      <4>2. list[k] = [id |-> Id(k), state |-> st[Id(k)]]
        BY <1>3, <3>1
      <4>3. New[k] = [id |-> Id(k), state |-> u.st[Id(k)]]
        BY <1>14, <3>1, <4>2
      <4> QED
        BY <3>1, <4>1, <4>3
    <3>2. CASE ~(k <= x)
      <4>1. Id(k) = tg - k + x + 1
        BY <1>9, <3>2
      <4>2. list[k] = [id |-> Id(k), state |-> tst[Id(k)]]
        BY <1>3, <3>2
      <4>3. New[k] = list[k]
        BY <1>14, <3>2
      <4> QED
        BY <3>2, <4>1, <4>2, <4>3
    <3> QED
      BY <3>1, <3>2
  <2> QED
    BY <1>7, <1>14, <2>1, <2>2
<1>15. CASE TellsState(s, m, u)
  <2>1. /\ m.type \in {"state", "update"} /\ m.id \in Row /\ m.id \in Nat /\ m.id <= g /\ m.state \in State
        /\ u.g = g /\ u.low = low
        /\ u.st = IF st[m.id] = "none" THEN st ELSE [st EXCEPT ![m.id] = m.state]
    BY <1>15, FeedSizes DEF TellsState, g, low, st
  <2>2. \A i \in Row : i # m.id => u.st[i] = st[i]
    BY <1>2, <2>1
  <2>3. u.low <= a
    BY <1>1, <2>1
  <2>4. CASE m.id >= a
    <3> DEFINE p == g - m.id + 1
    <3>1. p \in 1 .. M /\ p <= x /\ g - p + 1 = m.id
      BY <1>1, <2>1, <2>4
    <3>2. st[m.id] # "none"
      BY <1>1, <1>2, <2>1, <2>4
    <3> HIDE DEF p
    <3>3. Id(p) = m.id /\ list[p].id = m.id
      BY <1>9, <1>10, <3>1
    <3>4. /\ New \in Seq(ListRow) /\ Len(New) = M
          /\ \A j \in 1 .. M : New[j] = IF j = p THEN [id |-> m.id, state |-> m.state] ELSE list[j]
      BY <1>2, <1>12, <2>1, <3>1, <3>3, Patched DEF New, M
    <3>5. u.st[m.id] = m.state
      BY <1>2, <2>1, <3>2
    <3>6. ASSUME NEW k \in 1 .. M
          PROVE  \/ k <= x /\ Id(k) = m.id /\ u.st[Id(k)] = m.state /\ New[k] = [id |-> m.id, state |-> m.state]
                 \/ (k <= x => u.st[Id(k)] = st[Id(k)]) /\ New[k] = list[k]
      <4>1. CASE k = p
        BY <3>1, <3>3, <3>4, <3>5, <4>1
      <4>2. CASE k # p
        <5>1. Id(k) # m.id /\ Id(k) \in Row
          BY <1>10, <1>11, <3>1, <3>3, <4>2
        <5> QED
          BY <2>2, <3>4, <4>2, <5>1
      <4> QED
        BY <4>1, <4>2
    <3> QED
      BY <1>14, <2>1, <2>3, <3>4, <3>6 DEF New
  <2>5. CASE m.id < a
    <3>1. ASSUME NEW j \in 1 .. M PROVE list[j].id # m.id /\ Id(j) # m.id /\ Id(j) \in Row
      BY <1>1, <1>10, <2>1, <2>5
    <3>2. At(m.id) = 0
      BY <1>2, <3>1, AtNone
    <3>3. m.type = "state"
      BY <1>1, <1>5, <2>1, <2>5, <3>2
    <3>4. New = list
      BY <1>2, <3>1, <3>3, NotThere DEF New
    <3>5. \A k \in 1 .. M : (k <= x => u.st[Id(k)] = st[Id(k)]) /\ New[k] = list[k]
      BY <2>2, <3>1, <3>4
    <3>6. New \in Seq(ListRow) /\ Len(New) = M
      BY <1>2, <3>4
    <3> QED
      BY <1>14, <2>1, <2>3, <3>5, <3>6 DEF New
  <2> QED
    BY <1>1, <2>1, <2>4, <2>5
<1>16. CASE TellsPrune(s, m, u)
  <2>1. /\ m.type = "prune" /\ m.ids = {low} /\ low = g - Ring + 1
        /\ u.g = g /\ u.low = low + 1 /\ u.st = [st EXCEPT ![low] = "none"]
    BY <1>16 DEF TellsPrune, g, low, st
  <2>2. low < a /\ u.low <= a
    BY <1>1, <2>1
  <2>3. ASSUME NEW j \in 1 .. M PROVE list[j].id # low /\ Id(j) # low /\ Id(j) \in Row
    BY <1>1, <1>10, <2>2
  <2>4. /\ New \in Seq(ListRow) /\ Len(New) = M
        /\ \A j \in 1 .. M : New[j] = list[j]
    BY <1>2, <2>1, <2>3, PrunedNone DEF New
  <2>5. \A i \in Row : i # low => u.st[i] = st[i]
    BY <1>2, <2>1
  <2>6. \A k \in 1 .. M : (k <= x => u.st[Id(k)] = st[Id(k)]) /\ New[k] = list[k]
    BY <2>3, <2>4, <2>5
  <2> QED
    BY <1>14, <2>1, <2>2, <2>4, <2>6 DEF New
<1> QED
  BY <1>4, <1>13, <1>15, <1>16 DEF New

-----------------------------------------------------------------------------
\* What follows a message comes later.
LEMMA TellsLater ==
  ASSUME FeedAssumption, NEW s \in Table, NEW t \in Table, NEW m, Tells(s, m, t)
  PROVE  Later(s, t)
<1>1. s.g \in Nat /\ s.low \in Nat /\ s.low <= s.g + 1
  BY TableFacts
<1> QED
  BY <1>1 DEF Tells, TellsNew, TellsState, TellsPrune, TellsClear, TellsOpen, Later

\* The oldest of the newest rows never is an older one.
LEMMA BaseGrows ==
  ASSUME FeedAssumption, NEW s \in Table, NEW t \in Table, Later(s, t)
  PROVE  Base(s) <= Base(t)
<1>1. s.g \in Nat /\ s.low \in Nat /\ t.g \in Nat /\ t.low \in Nat /\ MaxList \in Nat
  BY TableFacts, FeedSizes
<1> QED
  BY <1>1 DEF Base, Later

\* Numbers and states determine the table.
LEMMA TableIs ==
  ASSUME FeedAssumption, NEW t \in Table PROVE TableOf(t.g, t.st) = t
<1> DEFINE low == CHOOSE l \in Nat : [g |-> t.g, low |-> l, st |-> t.st] \in Table
           c == [g |-> t.g, low |-> low, st |-> t.st]
<1>1. t \in [g: Nat, low: Nat, st: [Row -> State]]
  BY DEF Table
<1>2. t = [g |-> t.g, low |-> t.low, st |-> t.st] /\ t.low \in Nat
  BY <1>1
<1>3. low \in Nat /\ c \in Table
  BY <1>2
<1>4. c.g = t.g /\ c.low = low /\ c.st = t.st
  OBVIOUS
<1>5. TableOf(t.g, t.st) = c
  BY DEF TableOf
<1> HIDE DEF c, low
<1>6. /\ 1 <= low /\ low <= t.g + 1 /\ \A i \in Row : t.st[i] # "none" <=> low <= i /\ i <= t.g
      /\ \A i \in low .. t.g : i \in Row
  BY <1>3, <1>4, TableFacts
<1>7. /\ t.g \in Nat /\ 1 <= t.low /\ t.low <= t.g + 1
      /\ \A i \in Row : t.st[i] # "none" <=> t.low <= i /\ i <= t.g
      /\ \A i \in t.low .. t.g : i \in Row
  BY TableFacts
<1>8. low = t.low
  <2>1. CASE low <= t.g
    <3>1. low \in Row /\ low >= t.low
      BY <1>3, <1>6, <1>7, <2>1
    <3>2. t.low \in Row /\ t.low >= low
      BY <1>2, <1>3, <1>6, <1>7, <2>1, <3>1
    <3> QED
      BY <1>2, <1>3, <3>1, <3>2
  <2>2. CASE ~(low <= t.g)
    <3>1. ~(t.low <= t.g)
      <4> SUFFICES ASSUME t.low <= t.g PROVE FALSE
        OBVIOUS
      <4>1. t.low \in Row /\ t.low >= low
        BY <1>2, <1>3, <1>6, <1>7
      <4> QED
        BY <1>2, <1>3, <1>7, <2>2, <4>1
    <3> QED
      BY <1>2, <1>3, <1>6, <1>7, <2>2, <3>1
  <2> QED
    BY <2>1, <2>2
<1> QED
  BY <1>2, <1>5, <1>8 DEF c

\* The first message is delivered.
LEMMA TraceTail ==
  ASSUME NEW W \in Seq(WireMessage), W # <<>>, NEW s, NEW h, Traces(h, W, s)
  PROVE  LET r == [k \in 0 .. Len(Tail(W)) |-> h[k + 1]]
         IN  Traces(r, Tail(W), s) /\ \A k \in 0 .. Len(Tail(W)) : r[k] = h[k + 1]
<1> DEFINE T == Tail(W)
           n == Len(T)
           r == [k \in 0 .. n |-> h[k + 1]]
<1>1. /\ n \in Nat /\ Len(W) = n + 1 /\ \A k \in 1 .. n : T[k] = W[k + 1]
  OBVIOUS
<1> HIDE DEF T, n
<1>2. /\ h \in [0 .. n + 1 -> Table]
      /\ \A k \in 1 .. n + 1 : Tells(h[k - 1], W[k], h[k])
      /\ \A j, k \in 0 .. n + 1 : j <= k => Later(h[j], h[k])
      /\ h[n + 1] = s
  BY <1>1 DEF Traces
<1>3. \A k \in 0 .. n : r[k] = h[k + 1] /\ k + 1 \in 0 .. n + 1
  BY <1>1
<1>4. r \in [0 .. n -> Table]
  BY <1>2, <1>3
<1>5. r[n] = s
  BY <1>1, <1>2, <1>3
<1> HIDE DEF r
<1>6. ASSUME NEW k \in 1 .. n PROVE Tells(r[k - 1], T[k], r[k])
  <2>1. k - 1 \in 0 .. n /\ k \in 0 .. n /\ k + 1 \in 1 .. n + 1 /\ k - 1 + 1 = k /\ k + 1 - 1 = k
    BY <1>1
  <2>2. Tells(h[k + 1 - 1], W[k + 1], h[k + 1])
    BY <1>2, <2>1
  <2> QED
    BY <1>1, <1>3, <2>1, <2>2
<1>7. ASSUME NEW j \in 0 .. n, NEW k \in 0 .. n, j <= k PROVE Later(r[j], r[k])
  <2>1. j + 1 \in 0 .. n + 1 /\ k + 1 \in 0 .. n + 1 /\ j + 1 <= k + 1
    BY <1>1, <1>7
  <2> QED
    BY <1>2, <1>3, <2>1
<1>8. Traces(r, T, s)
  BY <1>4, <1>5, <1>6, <1>7 DEF Traces, n
<1> QED
  BY <1>3, <1>8 DEF r, n, T

\* A message is sent.
LEMMA TraceAppend ==
  ASSUME FeedAssumption, NEW W \in Seq(WireMessage), NEW s, NEW h, Traces(h, W, s),
         NEW m \in WireMessage, NEW t \in Table, Tells(s, m, t)
  PROVE  LET r == [k \in 0 .. Len(W) + 1 |-> IF k <= Len(W) THEN h[k] ELSE t]
         IN  Traces(r, Append(W, m), t) /\ \A k \in 0 .. Len(W) : r[k] = h[k]
<1> DEFINE A == Append(W, m)
           n == Len(W)
           r == [k \in 0 .. n + 1 |-> IF k <= n THEN h[k] ELSE t]
<1>1. /\ n \in Nat /\ Len(A) = n + 1 /\ A[n + 1] = m /\ \A k \in 1 .. n : A[k] = W[k]
  OBVIOUS
<1> HIDE DEF A
<1>2. /\ h \in [0 .. n -> Table]
      /\ \A k \in 1 .. n : Tells(h[k - 1], W[k], h[k])
      /\ \A j, k \in 0 .. n : j <= k => Later(h[j], h[k])
      /\ h[n] = s
  BY DEF Traces
<1> HIDE DEF n
<1>3. (\A k \in 0 .. n : r[k] = h[k] /\ k \in 0 .. n + 1) /\ r[n + 1] = t
  BY <1>1
<1>4. r \in [0 .. n + 1 -> Table]
  BY <1>1, <1>2
<1> HIDE DEF r
<1>5. s \in Table /\ n \in 0 .. n
  BY <1>1, <1>2
<1>6. Later(s, t)
  BY <1>5, TellsLater
<1>7. ASSUME NEW k \in 1 .. n + 1 PROVE Tells(r[k - 1], A[k], r[k])
  <2>1. CASE k <= n
    <3>1. k \in 1 .. n /\ k \in 0 .. n /\ k - 1 \in 0 .. n
      BY <1>1, <2>1
    <3> QED
      BY <1>1, <1>2, <1>3, <3>1
  <2>2. CASE ~(k <= n)
    <3>1. k = n + 1 /\ k - 1 = n
      BY <1>1, <2>2
    <3> QED
      BY <1>1, <1>2, <1>3, <1>5, <3>1
  <2> QED
    BY <2>1, <2>2
<1>8. ASSUME NEW j \in 0 .. n + 1, NEW k \in 0 .. n + 1, j <= k PROVE Later(r[j], r[k])
  <2>1. CASE k <= n
    <3>1. j \in 0 .. n /\ k \in 0 .. n
      BY <1>1, <1>8, <2>1
    <3> QED
      BY <1>2, <1>3, <1>8, <3>1
  <2>2. CASE ~(k <= n) /\ j <= n
    <3>1. k = n + 1 /\ j \in 0 .. n /\ j <= n
      BY <1>1, <2>2
    <3>2. Later(h[j], s) /\ h[j] \in Table
      BY <1>2, <1>5, <3>1
    <3>3. Later(h[j], t)
      <4>1. h[j].g \in Nat /\ h[j].low \in Nat /\ s.g \in Nat /\ s.low \in Nat /\ t.g \in Nat /\ t.low \in Nat
        BY <1>5, <3>2, TableFacts
      <4> QED
        BY <1>6, <3>2, <4>1 DEF Later
    <3> QED
      BY <1>3, <3>1, <3>3
  <2>3. CASE ~(k <= n) /\ ~(j <= n)
    <3>1. k = n + 1 /\ j = n + 1
      BY <1>1, <1>8, <2>3
    <3>2. t.g \in Nat /\ t.low \in Nat
      BY TableFacts
    <3> QED
      BY <1>3, <3>1, <3>2 DEF Later
  <2> QED
    BY <2>1, <2>2, <2>3
<1>9. Traces(r, A, t)
  <2>1. n + 1 = Len(A)
    BY <1>1
  <2> QED
    BY <1>3, <1>4, <1>7, <1>8, <2>1 DEF Traces
<1> QED
  BY <1>3, <1>9 DEF r, n, A

\* Clears that are still under way.
LEMMA ClearedTail ==
  ASSUME NEW W \in Seq(WireMessage), W # <<>>, NEW k \in 0 .. Len(Tail(W))
  PROVE  ClearedFrom(Tail(W), k) <=> ClearedFrom(W, k + 1)
<1> DEFINE T == Tail(W)
           n == Len(T)
<1>1. /\ n \in Nat /\ Len(W) = n + 1 /\ \A i \in 1 .. n : T[i] = W[i + 1]
  OBVIOUS
<1> HIDE DEF T, n
<1>2. k \in 0 .. n
  BY DEF n, T
<1>3. ASSUME NEW i \in k + 1 .. n, T[i].type = "clear" PROVE ClearedFrom(W, k + 1)
  <2>1. i + 1 \in (k + 1) + 1 .. Len(W) /\ W[i + 1].type = "clear"
    BY <1>1, <1>2, <1>3
  <2> QED
    BY <2>1 DEF ClearedFrom
<1>4. ASSUME NEW i \in (k + 1) + 1 .. n + 1, W[i].type = "clear" PROVE ClearedFrom(T, k)
  <2>1. i - 1 \in k + 1 .. n /\ i - 1 \in 1 .. n /\ i - 1 + 1 = i
    BY <1>1, <1>2
  <2>2. T[i - 1] = W[i]
    BY <1>1, <2>1
  <2> QED
    BY <1>4, <2>1, <2>2 DEF ClearedFrom, n
<1> QED
  BY <1>1, <1>3, <1>4 DEF ClearedFrom, n, T

\* Sending a message takes back no clear.
LEMMA ClearedAppend ==
  ASSUME NEW W \in Seq(WireMessage), NEW m \in WireMessage
  PROVE  /\ \A k \in 0 .. Len(W) : ClearedFrom(W, k) => ClearedFrom(Append(W, m), k)
         /\ m.type = "clear" => \A k \in 0 .. Len(W) : ClearedFrom(Append(W, m), k)
<1> DEFINE A == Append(W, m)
           n == Len(W)
<1>1. /\ n \in Nat /\ Len(A) = n + 1 /\ A[n + 1] = m /\ \A k \in 1 .. n : A[k] = W[k]
  OBVIOUS
<1> HIDE DEF A, n
<1>2. ASSUME NEW k \in 0 .. n, NEW i \in k + 1 .. n, W[i].type = "clear" PROVE ClearedFrom(A, k)
  <2>1. i \in k + 1 .. n + 1 /\ i \in 1 .. n
    BY <1>1
  <2> QED
    BY <1>1, <1>2, <2>1 DEF ClearedFrom
<1>3. ASSUME m.type = "clear", NEW k \in 0 .. n PROVE ClearedFrom(A, k)
  <2>1. n + 1 \in k + 1 .. n + 1
    BY <1>1
  <2> QED
    BY <1>1, <1>3, <2>1 DEF ClearedFrom
<1> QED
  BY <1>2, <1>3 DEF ClearedFrom, A, n

\* Sending a message that tells of a change keeps what is said of those under way.
LEMMA ToldAppend ==
  ASSUME FeedAssumption, NEW W \in Seq(WireMessage), NEW s, NEW r, Told(W, s, r),
         NEW m \in WireMessage, NEW u \in Table, Tells(s, m, u), NEW t,
         m.type = "clear" \/ \A v \in Table : Ringed(v, r) => Ringed(v, t), Ringed(u, t)
  PROVE  Told(Append(W, m), u, t)
<1>1. PICK h : Traces(h, W, s) /\ \A k \in 0 .. Len(W) : ClearedFrom(W, k) \/ Ringed(h[k], r)
  BY DEF Told
<1> DEFINE A == Append(W, m)
           q == [k \in 0 .. Len(W) + 1 |-> IF k <= Len(W) THEN h[k] ELSE u]
<1>2. Traces(q, A, u) /\ \A k \in 0 .. Len(W) : q[k] = h[k]
  BY <1>1, TraceAppend
<1>3. Len(A) = Len(W) + 1 /\ Len(W) \in Nat /\ \A k \in 0 .. Len(W) : h[k] \in Table
  BY <1>1 DEF Traces
<1>4. q[Len(A)] = u
  BY <1>2 DEF Traces
<1> HIDE DEF A, q
<1>5. ASSUME NEW k \in 0 .. Len(A) PROVE ClearedFrom(A, k) \/ Ringed(q[k], t)
  <2>1. CASE k <= Len(W)
    <3>1. k \in 0 .. Len(W)
      BY <2>1
    <3>2. ClearedFrom(W, k) \/ Ringed(h[k], r)
      BY <1>1, <3>1
    <3>3. ClearedFrom(W, k) \/ m.type = "clear" => ClearedFrom(A, k)
      BY <3>1, ClearedAppend DEF A
    <3> QED
      BY <1>2, <1>3, <3>1, <3>2, <3>3
  <2>2. CASE ~(k <= Len(W))
    <3>1. k = Len(A)
      BY <1>3, <2>2
    <3> QED
      BY <1>4, <3>1
  <2> QED
    BY <2>1, <2>2
<1> QED
  BY <1>2, <1>5 DEF Told, A

\* Sending such a message keeps what is said of a list.
LEMMA HealsAppend ==
  ASSUME FeedAssumption, NEW W \in Seq(WireMessage), NEW s, NEW L, Heals(L, W, s),
         NEW m \in WireMessage, NEW u \in Table, Tells(s, m, u)
  PROVE  Heals(L, Append(W, m), u)
<1>1. CASE ClearedFrom(W, 0)
  <2>1. 0 \in 0 .. Len(W)
    OBVIOUS
  <2> QED
    BY <1>1, <2>1, ClearedAppend DEF Heals
<1>2. ASSUME NEW h, HealsBy(L, W, s, h) PROVE Heals(L, Append(W, m), u)
  <2> DEFINE A == Append(W, m)
             q == [k \in 0 .. Len(W) + 1 |-> IF k <= Len(W) THEN h[k] ELSE u]
  <2>1. Traces(q, A, u) /\ \A k \in 0 .. Len(W) : q[k] = h[k]
    BY <1>2, TraceAppend DEF HealsBy
  <2>2. Len(A) = Len(W) + 1 /\ Len(W) \in Nat
    OBVIOUS
  <2> HIDE DEF A, q
  <2>3. 0 \in 0 .. Len(W) /\ \A j \in 0 .. Len(W) : j \in 0 .. Len(A)
    BY <2>2
  <2>4. q[0] = h[0]
    BY <2>1, <2>3
  <2>5. HealsBy(L, A, u, q)
    <3>1. CASE AsOf(L, h[0])
      BY <2>1, <2>4, <3>1 DEF HealsBy
    <3>2. ASSUME NEW j \in 0 .. Len(W), Ringed(h[0], h[j]), Ahead(L, h[0], h[j]) \/ Mixed(L, h[0], h[j])
          PROVE  HealsBy(L, A, u, q)
      <4>1. q[j] = h[j] /\ j \in 0 .. Len(A)
        BY <2>1, <2>3
      <4> QED
        BY <2>1, <2>4, <3>2, <4>1 DEF HealsBy
    <3> QED
      BY <1>2, <3>1, <3>2 DEF HealsBy
  <2> QED
    BY <2>5 DEF Heals, A
<1> QED
  BY <1>1, <1>2 DEF Heals

\* Delivering the first message keeps what is said of the others.
LEMMA ToldTail ==
  ASSUME NEW W \in Seq(WireMessage), W # <<>>, NEW s, NEW t, Told(W, s, t)
  PROVE  Told(Tail(W), s, t)
<1>1. PICK h : Traces(h, W, s) /\ \A k \in 0 .. Len(W) : ClearedFrom(W, k) \/ Ringed(h[k], t)
  BY DEF Told
<1> DEFINE q == [k \in 0 .. Len(Tail(W)) |-> h[k + 1]]
<1>2. Traces(q, Tail(W), s) /\ \A k \in 0 .. Len(Tail(W)) : q[k] = h[k + 1]
  BY <1>1, TraceTail
<1>3. \A k \in 0 .. Len(Tail(W)) : k + 1 \in 0 .. Len(W)
  OBVIOUS
<1> HIDE DEF q
<1>4. \A k \in 0 .. Len(Tail(W)) : ClearedFrom(Tail(W), k) \/ Ringed(q[k], t)
  <2> TAKE k \in 0 .. Len(Tail(W))
  <2>1. ClearedFrom(W, k + 1) \/ Ringed(h[k + 1], t)
    BY <1>1, <1>3
  <2>2. ClearedFrom(Tail(W), k) <=> ClearedFrom(W, k + 1)
    BY ClearedTail
  <2> QED
    BY <1>2, <2>1, <2>2
<1> QED
  BY <1>2, <1>4 DEF Told

\* A dashboard that has just been told of a clear shows nothing.
LEMMA Emptied ==
  ASSUME FeedAssumption, NEW s, NEW u \in Table, NEW m, TellsClear(s, m, u)
  PROVE  AsOf(<<>>, u)
<1>1. u.g \in Nat /\ u.low = u.g + 1 /\ MaxList \in Nat /\ MaxList >= 1
  BY TableFacts, FeedSizes DEF TellsClear
<1>2. Base(u) = u.g + 1
  BY <1>1 DEF Base
<1>3. <<>> \in Seq(ListRow) /\ Len(<<>>) = 0 /\ u.g - Base(u) + 1 = 0
  BY <1>1, <1>2
<1> QED
  BY <1>1, <1>2, <1>3 DEF AsOf

\* At its own table, a list that was ahead shows the newest rows, and no list is
\* mixed.
LEMMA CaughtUp ==
  ASSUME FeedAssumption, NEW s \in Table, NEW L, Ahead(L, s, s) \/ Mixed(L, s, s)
  PROVE  AsOf(L, s)
<1>1. s.g \in Nat /\ MaxList \in Nat /\ s.low \in Nat /\ Base(s) \in Nat /\ MaxList >= 1
  BY TableFacts, FeedSizes
<1>2. CASE Ahead(L, s, s)
  BY <1>2 DEF Ahead, AsOf
<1>3. ASSUME NEW x \in 1 .. MaxList - 1, MixedAt(L, s, s, x) PROVE FALSE
  <2>1. s.low <= s.g - x + 1 /\ s.g - x + 1 < Base(s) /\ x \in Nat /\ x < MaxList
    BY <1>1, <1>3 DEF MixedAt
  <2>2. Base(s) = IF s.low >= s.g - MaxList + 1 THEN s.low ELSE s.g - MaxList + 1
    BY DEF Base
  <2> QED
    BY <1>1, <2>1, <2>2
<1> QED
  BY <1>2, <1>3 DEF Mixed

\* Delivering a message brings the list closer to the table, unless it puts a
\* row into the list that the table no longer shows.
LEMMA HealsTail ==
  ASSUME FeedAssumption, wire \in Seq(WireMessage), wire # <<>>, NEW s \in Table, Told(wire, s, s),
         Heals(list, wire, s), NEW m, m = wire[1], m.type # "open",
         m.type = "update" /\ At(m.id) = 0 => m.id >= Base(s)
  PROVE  Heals(Applied(m), Tail(wire), s)
<1> DEFINE T == Tail(wire)
           n == Len(T)
<1>1. n \in Nat /\ Len(wire) = n + 1
  OBVIOUS
<1> HIDE DEF T, n
<1>2. ASSUME NEW h, Traces(h, wire, s)
      PROVE  \E q : /\ Traces(q, T, s) /\ h[0] \in Table /\ h[1] \in Table /\ Tells(h[0], m, h[1])
                    /\ \A k \in 0 .. n : q[k] = h[k + 1] /\ h[k + 1] \in Table
                    /\ \A k \in 0 .. n : Later(h[0], h[k + 1]) /\ Later(h[1], h[k + 1])
                    /\ h[n + 1] = s
  <2> DEFINE q == [k \in 0 .. Len(Tail(wire)) |-> h[k + 1]]
  <2>1. Traces(q, T, s) /\ \A k \in 0 .. n : q[k] = h[k + 1]
    BY <1>2, TraceTail DEF T, n
  <2>2. 0 \in 0 .. Len(wire) /\ 1 \in 0 .. Len(wire) /\ 1 \in 1 .. Len(wire) /\ 1 - 1 = 0
    BY <1>1
  <2>3. \A k \in 0 .. n : k + 1 \in 0 .. Len(wire) /\ 0 <= k + 1 /\ 1 <= k + 1
    BY <1>1
  <2>4. /\ h \in [0 .. Len(wire) -> Table] /\ h[Len(wire)] = s /\ Tells(h[1 - 1], wire[1], h[1])
        /\ \A j, k \in 0 .. Len(wire) : j <= k => Later(h[j], h[k])
    BY <1>2, <2>2 DEF Traces
  <2>5. \A k \in 0 .. n : Later(h[0], h[k + 1]) /\ Later(h[1], h[k + 1])
    BY <2>2, <2>3, <2>4
  <2>6. h[n + 1] = s
    BY <1>1, <2>4
  <2>7. Tells(h[0], m, h[1])
    BY <2>2, <2>4
  <2> HIDE DEF q
  <2> QED
    BY <2>1, <2>2, <2>3, <2>4, <2>5, <2>6, <2>7
<1>3. ASSUME NEW h, NEW q, NEW L, Traces(q, T, s), q[0] = h[1],
             \/ AsOf(L, h[1])
             \/ \E j \in 0 .. n : Ringed(h[1], q[j]) /\ (Ahead(L, h[1], q[j]) \/ Mixed(L, h[1], q[j]))
      PROVE  Heals(L, T, s)
  <2>1. HealsBy(L, T, s, q)
    BY <1>3 DEF HealsBy, n
  <2> QED
    BY <2>1 DEF Heals
<1>4. CASE m.type = "clear"
  <2>1. PICK h : Traces(h, wire, s)
    BY DEF Told
  <2>2. PICK q : Traces(q, T, s) /\ h[1] \in Table /\ Tells(h[0], m, h[1]) /\ \A k \in 0 .. n : q[k] = h[k + 1]
    BY <1>2, <2>1
  <2>3. TellsClear(h[0], m, h[1])
    BY <1>4, <2>2 DEF Tells, TellsNew, TellsState, TellsPrune, TellsOpen
  <2>4. AsOf(<<>>, h[1])
    BY <2>2, <2>3, Emptied
  <2>5. Applied(m) = <<>>
    BY <1>4 DEF Applied
  <2>6. q[0] = h[1]
    <3>1. 0 \in 0 .. n /\ 0 + 1 = 1
      BY <1>1
    <3> QED
      BY <2>2, <3>1
  <2> QED
    BY <1>3, <2>2, <2>4, <2>5, <2>6 DEF T
<1>5. CASE m.type # "clear" /\ ClearedFrom(wire, 0)
  <2>1. ClearedFrom(wire, 0 + 1)
    <3>1. PICK i \in 0 + 1 .. Len(wire) : wire[i].type = "clear"
      BY <1>5 DEF ClearedFrom
    <3>2. i # 1
      BY <1>5, <3>1
    <3>3. i \in (0 + 1) + 1 .. Len(wire)
      BY <1>1, <3>1, <3>2
    <3> QED
      BY <3>1, <3>3 DEF ClearedFrom
  <2>2. 0 \in 0 .. n
    BY <1>1
  <2>3. ClearedFrom(T, 0)
    BY <2>1, <2>2, ClearedTail DEF T, n
  <2> QED
    BY <2>3 DEF Heals, T
<1>6. CASE m.type # "clear" /\ ~ClearedFrom(wire, 0)
  <2>1. PICK h : HealsBy(list, wire, s, h)
    BY <1>6 DEF Heals
  <2>2. PICK q : /\ Traces(q, T, s) /\ h[0] \in Table /\ h[1] \in Table /\ Tells(h[0], m, h[1])
                 /\ \A k \in 0 .. n : q[k] = h[k + 1] /\ h[k + 1] \in Table
                 /\ \A k \in 0 .. n : Later(h[0], h[k + 1]) /\ Later(h[1], h[k + 1])
                 /\ h[n + 1] = s
    BY <1>2, <2>1 DEF HealsBy
  <2>3. 0 \in 0 .. n /\ n \in 0 .. n /\ q[0] = h[1]
    <3>1. 0 \in 0 .. n /\ n \in 0 .. n /\ 0 + 1 = 1
      BY <1>1
    <3> QED
      BY <2>2, <3>1
  <2>4. ASSUME NEW t \in Table, Later(t, s), m.type = "update" /\ At(m.id) = 0
        PROVE  m.id >= Base(t)
    <3>1. m.id \in Nat
      BY <2>2, <2>4, FeedSizes DEF Tells, TellsNew, TellsState, TellsPrune, TellsClear, TellsOpen
    <3>2. Base(t) <= Base(s) /\ Base(t) \in Nat /\ Base(s) \in Nat
      BY <2>4, BaseGrows, TableFacts
    <3>3. m.id >= Base(s)
      BY <2>4
    <3> QED
      BY <3>1, <3>2, <3>3
  <2>5. m.type \notin {"clear", "open"}
    BY <1>6
  <2>6. CASE AsOf(list, h[0])
    <3>1. Later(h[0], s)
      BY <2>2, <2>3
    <3>2. m.type = "update" /\ At(m.id) = 0 => m.id >= Base(h[0])
      BY <2>2, <2>4, <3>1
    <3>3. AsOf(Applied(m), h[1])
      BY <2>2, <2>5, <2>6, <3>2, AsOfStep
    <3> QED
      BY <1>3, <2>2, <2>3, <3>3 DEF T
  <2>7. ASSUME NEW j \in 0 .. Len(wire), Ringed(h[0], h[j]), Ahead(list, h[0], h[j]) \/ Mixed(list, h[0], h[j])
        PROVE  Heals(Applied(m), Tail(wire), s)
    <3>1. CASE j = 0
      BY <2>2, <2>6, <2>7, <3>1, CaughtUp
    <3>2. CASE j # 0
      <4> DEFINE i == j - 1
                 t == h[j]
      <4>1. i \in 0 .. n /\ i + 1 = j
        BY <1>1, <2>7, <3>2
      <4>2. t \in Table /\ Later(h[0], t) /\ Later(h[1], t) /\ q[i] = t
        BY <2>2, <4>1
      <4> HIDE DEF i
      <4>3. Later(t, s)
        <5>1. Traces(h, wire, s) /\ j \in 0 .. Len(wire) /\ Len(wire) \in 0 .. Len(wire) /\ j <= Len(wire)
          BY <1>1, <2>1, <2>7 DEF HealsBy
        <5> QED
          BY <5>1 DEF Traces
      <4>4. m.type = "update" /\ At(m.id) = 0 => m.id >= Base(t)
        BY <2>4, <4>2, <4>3
      <4>5. Ringed(h[1], t)
        <5>1. h[0].low <= h[1].low
          BY <2>2, <2>3 DEF Later
        <5>2. h[0].low \in Nat /\ h[1].low \in Nat /\ t.low \in Nat
          BY <2>2, <4>2, TableFacts
        <5>3. Ringed(h[0], t)
          BY <2>7
        <5> HIDE DEF t
        <5> QED
          BY <5>1, <5>2, <5>3 DEF Ringed
      <4>6. Ringed(h[0], t) /\ (Ahead(list, h[0], t) \/ Mixed(list, h[0], t))
        BY <2>7
      <4> HIDE DEF t
      <4>7. Ahead(Applied(m), h[1], t) \/ Mixed(Applied(m), h[1], t) \/ AsOf(Applied(m), h[1])
        <5>1. CASE Ahead(list, h[0], t)
          BY <2>2, <2>5, <4>2, <4>4, <4>6, <5>1, AheadStep
        <5>2. CASE Mixed(list, h[0], t)
          BY <2>2, <2>5, <4>2, <4>4, <4>6, <5>2, MixedStep
        <5> QED
          BY <4>6, <5>1, <5>2
      <4> QED
        BY <1>3, <2>2, <2>3, <4>1, <4>2, <4>5, <4>7 DEF T
    <3> QED
      BY <3>1, <3>2
  <2> QED
    BY <2>1, <2>6, <2>7 DEF HealsBy
<1> QED
  BY <1>4, <1>5, <1>6

-----------------------------------------------------------------------------
\* The rows of the table and their ranks.
LEMMA RowsAre ==
  ASSUME FeedAssumption, NEW s \in Table, s.g = given, s.st = stored
  PROVE  /\ Present = s.low .. s.g /\ IsFiniteSet(Present) /\ Cardinality(Present) = s.g - s.low + 1
         /\ \A i \in Present : Rank(i) = s.g - i + 1
         /\ Newest = Base(s) .. s.g
<1>1. /\ s.g \in Nat /\ s.low \in Nat /\ s.low >= 1 /\ s.low <= s.g + 1 /\ MaxList \in Nat /\ MaxList >= 1
      /\ \A i \in Row : stored[i] # "none" <=> s.low <= i /\ i <= s.g
      /\ \A i \in s.low .. s.g : i \in Row
      /\ \A i \in Row : i \in Nat
  BY TableFacts, FeedSizes
<1>2. Present = s.low .. s.g
  BY <1>1 DEF Present
<1>3. \A a \in Nat : a <= s.g + 1 => IsFiniteSet(a .. s.g) /\ Cardinality(a .. s.g) = s.g - a + 1
  <2> TAKE a \in Nat
  <2> HAVE a <= s.g + 1
  <2> DEFINE g == s.g
  <2>1. a \in Int /\ g \in Int /\ (IF a > g THEN 0 ELSE g - a + 1) = g - a + 1
    BY <1>1
  <2> HIDE DEF g
  <2>2. IsFiniteSet(a .. g) /\ Cardinality(a .. g) = g - a + 1
    BY <2>1, FS_Interval
  <2> QED
    BY <2>2 DEF g
<1>4. \A i \in Present : Rank(i) = s.g - i + 1
  <2> TAKE i \in Present
  <2>1. i \in Nat /\ i <= s.g + 1 /\ {k \in Present : k >= i} = i .. s.g
    BY <1>1, <1>2
  <2> QED
    BY <1>3, <2>1 DEF Rank
<1>5. Newest = Base(s) .. s.g
  <2>1. Base(s) = IF s.low >= s.g - MaxList + 1 THEN s.low ELSE s.g - MaxList + 1
    BY DEF Base
  <2>2. ASSUME NEW i \in s.low .. s.g PROVE Rank(i) <= MaxList <=> i >= Base(s)
    <3>1. Rank(i) = s.g - i + 1
      BY <1>2, <1>4
    <3> QED
      BY <1>1, <2>1, <3>1
  <2>3. Base(s) >= s.low /\ Base(s) \in Nat
    BY TableFacts
  <2>4. Newest = {i \in s.low .. s.g : i >= Base(s)}
    BY <1>2, <2>2 DEF Newest
  <2> QED
    BY <1>1, <2>3, <2>4
<1> QED
  BY <1>1, <1>2, <1>3, <1>4, <1>5

-----------------------------------------------------------------------------
\* What one message does to the two ends of the socket.
LEMMA SendKeeps ==
  ASSUME NEW c \in BOOLEAN, NEW W \in Seq(WireMessage), NEW m \in WireMessage, m.type \notin {"open", "closed"},
         SocketOK(c, W), NEW o, o = Send([client |-> c, wire |-> W], m)
  PROVE  /\ o = [client |-> o.client, wire |-> o.wire]
         /\ o.client \in BOOLEAN /\ o.wire \in Seq(WireMessage) /\ SocketOK(o.client, o.wire)
         /\ ~c => ~o.client /\ o.wire = W
         /\ o.client => c /\ o.wire = Append(W, m)
<1> DEFINE x == [client |-> c, wire |-> W]
<1>1. x.client = c /\ x.wire = W /\ CLOSED \in WireMessage /\ CLOSED.type = "closed"
  BY DEF WireMessage, CLOSED
<1>2. CASE ~c
  <2>1. o = x
    BY <1>1, <1>2 DEF Send
  <2> QED
    BY <1>1, <1>2, <2>1
<1>3. CASE c /\ Len(W) < MaxMail
  <2> DEFINE A == Append(W, m)
             n == Len(W)
  <2>1. o = [client |-> c, wire |-> A]
    <3>1. o = [x EXCEPT !.wire = Append(@, m)]
      BY <1>1, <1>3 DEF Send
    <3> QED
      BY <1>1, <3>1
  <2>2. /\ A \in Seq(WireMessage) /\ n \in Nat /\ Len(A) = n + 1 /\ A[n + 1] = m
        /\ \A k \in 1 .. n : A[k] = W[k]
    OBVIOUS
  <2>3. /\ \A k \in 1 .. n : W[k].type # "closed" /\ (k > 1 => W[k].type # "open")
        /\ wsState = "live" => \A k \in 1 .. n : W[k].type # "open"
        /\ wsState # "live" => n # 0 /\ W[1].type = "open"
    BY <1>3 DEF SocketOK
  <2> HIDE DEF A, n
  <2>4. ASSUME NEW k \in 1 .. n + 1 PROVE k \in 1 .. n \/ A[k] = m
    BY <2>2
  <2>5. /\ \A k \in 1 .. Len(A) : A[k].type # "closed" /\ (k > 1 => A[k].type # "open")
        /\ wsState = "live" => \A k \in 1 .. Len(A) : A[k].type # "open"
    BY <2>2, <2>3, <2>4
  <2>6. wsState # "live" => A # <<>> /\ A[1].type = "open"
    BY <2>2, <2>3
  <2>7. SocketOK(c, A)
    BY <1>3, <2>5, <2>6 DEF SocketOK
  <2>8. o = [client |-> o.client, wire |-> o.wire] /\ o.client = c /\ o.wire = A
    BY <2>1
  <2>9. o.client \in BOOLEAN /\ o.wire \in Seq(WireMessage) /\ SocketOK(o.client, o.wire)
    BY <2>2, <2>7, <2>8
  <2> QED
    BY <1>3, <2>8, <2>9 DEF A
<1>4. CASE c /\ ~(Len(W) < MaxMail)
  <2> DEFINE A == Append(W, CLOSED)
  <2>1. o = [client |-> FALSE, wire |-> A]
    BY <1>1, <1>4 DEF Send
  <2>2. A \in Seq(WireMessage) /\ A # <<>> /\ A[Len(A)] = CLOSED
    BY <1>1
  <2> HIDE DEF A
  <2>3. SocketOK(FALSE, A)
    BY <2>2 DEF SocketOK
  <2>4. o = [client |-> o.client, wire |-> o.wire] /\ o.client = FALSE /\ o.wire = A
    BY <2>1
  <2>5. o.client \in BOOLEAN /\ o.wire \in Seq(WireMessage) /\ SocketOK(o.client, o.wire)
    BY <2>2, <2>3, <2>4
  <2> QED
    BY <1>4, <2>4, <2>5
<1> QED
  BY <1>2, <1>3, <1>4

\* A socket of which all is true that has to be.
Link(x, s, r) ==
  /\ x = [client |-> x.client, wire |-> x.wire]
  /\ x.client \in BOOLEAN /\ x.wire \in Seq(WireMessage) /\ SocketOK(x.client, x.wire)
  /\ x.client => Told(x.wire, s, r)

\* All lists that it would set right are still set right by what one sends on.
Follows(x, s, o, u) ==
  /\ ~x.client => ~o.client /\ o.wire = x.wire
  /\ o.client => x.client /\ \A L : Heals(L, x.wire, s) => Heals(L, o.wire, u)

\* What a message that tells of a change does to what is said of the others.
LEMMA PushStep ==
  ASSUME FeedAssumption, NEW x, NEW s, NEW r, Link(x, s, r), NEW m \in WireMessage, m.type \notin {"open", "closed"},
         NEW u \in Table, Tells(s, m, u),
         NEW t, m.type = "clear" \/ (\A v \in Table : Ringed(v, r) => Ringed(v, t)), Ringed(u, t)
  PROVE  Link(Send(x, m), u, t) /\ Follows(x, s, Send(x, m), u)
<1> DEFINE c == x.client
           W == x.wire
           o == Send(x, m)
<1>1. /\ x = [client |-> c, wire |-> W] /\ c \in BOOLEAN /\ W \in Seq(WireMessage)
      /\ SocketOK(c, W) /\ (c => Told(W, s, r))
  BY DEF Link
<1>2. o = Send([client |-> c, wire |-> W], m)
  BY <1>1
<1> HIDE DEF c, W, o
<1>3. /\ o = [client |-> o.client, wire |-> o.wire]
      /\ o.client \in BOOLEAN /\ o.wire \in Seq(WireMessage) /\ SocketOK(o.client, o.wire)
      /\ ~c => ~o.client /\ o.wire = W
      /\ o.client => c /\ o.wire = Append(W, m)
  BY <1>1, <1>2, SendKeeps
<1>4. ASSUME o.client PROVE Told(o.wire, u, t) /\ \A L : Heals(L, W, s) => Heals(L, o.wire, u)
  <2>1. c /\ o.wire = Append(W, m) /\ Told(W, s, r)
    BY <1>1, <1>3, <1>4
  <2>2. Told(Append(W, m), u, t)
    BY <1>1, <2>1, ToldAppend
  <2>3. \A L : Heals(L, W, s) => Heals(L, Append(W, m), u)
    BY <1>1, HealsAppend
  <2> QED
    BY <2>1, <2>2, <2>3
<1>5. Link(o, u, t)
  BY <1>3, <1>4 DEF Link
<1>6. Follows(x, s, o, u)
  BY <1>3, <1>4 DEF Follows, c, W
<1> QED
  BY <1>5, <1>6 DEF o

\* What is sent keeps what is said of the list and of those under way.
LEMMA PushDone ==
  ASSUME FeedAssumption, FeedInv, NEW u \in Table, u.g = given', u.st = stored', running' \subseteq 1 .. given',
         UNCHANGED dashboard, revived' = revived,
         NEW o, broadcast(o), Link(o, u, u), Follows(Socket, Captures, o, u)
  PROVE  FeedInv'
<1>1. Captures' = u
  BY TableIs DEF Captures
<1>2. /\ wsState' = wsState /\ reachable' = reachable /\ fetches' = fetches /\ list' = list
      /\ overtaken' = overtaken
  BY DEF dashboard
<1>0. /\ o.client = client' /\ o.wire = wire' /\ Socket.client = client /\ Socket.wire = wire
  BY DEF broadcast, Socket
<1>8. /\ client' \in BOOLEAN /\ wire' \in Seq(WireMessage) /\ SocketOK(client', wire')
      /\ ~client => ~client' /\ wire' = wire
      /\ client' => client /\ Told(wire', u, u) /\ \A L : Heals(L, wire, Captures) => Heals(L, wire', u)
  BY <1>0 DEF Link, Follows
<1>3. FeedTypes'
  BY <1>2, <1>8, TableFacts DEF FeedInv, FeedTypes
<1>4. SocketInv'
  BY <1>2, <1>8 DEF FeedInv, SocketInv, SocketOK
<1>5. ListInv'
  <2> SUFFICES ASSUME client', wsState = "live"
               PROVE  \/ \E f \in Fetch : fetches[f].pc # "idle" /\ Sound(f)'
                      \/ /\ overtaken \/ revived \/ Heals(list, wire', u)
                         /\ \A f \in Fetch : fetches[f].pc # "idle" => Sound(f)'
    BY <1>1, <1>2 DEF ListInv
  <2>1. \A f : Sound(f) => Sound(f)'
    BY <1>1, <1>2, <1>8 DEF Sound
  <2>2. \/ \E f \in Fetch : fetches[f].pc # "idle" /\ Sound(f)
        \/ /\ overtaken \/ revived \/ Heals(list, wire, Captures)
           /\ \A f \in Fetch : fetches[f].pc # "idle" => Sound(f)
    BY <1>8 DEF FeedInv, ListInv
  <2> QED
    BY <1>8, <2>1, <2>2
<1>6. (client => Told(wire, Captures, Captures))'
  BY <1>1, <1>8
<1>7. (Captures \in Table)'
  BY <1>1
<1> QED
  BY <1>3, <1>4, <1>5, <1>6, <1>7 DEF FeedInv

\* The socket as it is.
LEMMA SocketLinks ==
  ASSUME FeedInv PROVE Link(Socket, Captures, Captures)
  BY DEF FeedInv, FeedTypes, SocketInv, Link, Socket

\* One message that tells of the change of an action.
LEMMA Pushed ==
  ASSUME FeedAssumption, FeedInv, NEW u \in Table, u.g = given', u.st = stored', running' \subseteq 1 .. given',
         UNCHANGED dashboard, revived' = revived,
         NEW m \in WireMessage, m.type \notin {"open", "closed"}, Tell(m), Tells(Captures, m, u),
         m.type = "clear" \/ (\A v \in Table : Ringed(v, Captures) => Ringed(v, u))
  PROVE  FeedInv'
<1>1. Ringed(u, u)
  BY TableFacts DEF Ringed
<1>2. Link(Socket, Captures, Captures)
  BY SocketLinks
<1>3. Link(Send(Socket, m), u, u) /\ Follows(Socket, Captures, Send(Socket, m), u)
  BY <1>1, <1>2, PushStep
<1>4. broadcast(Send(Socket, m))
  BY DEF Tell
<1> QED
  BY <1>3, <1>4, PushDone

-----------------------------------------------------------------------------
\* What is in the table now.
LEMMA CapturesAre ==
  ASSUME FeedAssumption, FeedInv PROVE Captures \in Table /\ Captures.g = given /\ Captures.st = stored
  BY DEF FeedInv, Captures, TableOf

\* The table is empty and no socket is open.
LEMMA FeedStarts ==
  ASSUME FeedAssumption, FeedInit PROVE FeedInv
<1> DEFINE t == [g |-> 0, low |-> 1, st |-> [i \in Row |-> "none"]]
<1>1. t \in Table /\ t.g = given /\ t.st = stored
  <2>1. /\ t \in [g: Nat, low: Nat, st: [Row -> State]]
        /\ t.g = 0 /\ t.low = 1 /\ t.st = [i \in Row |-> "none"]
    BY DEF State
  <2>2. 1 <= 1 /\ 1 <= 0 + 1 /\ 0 <= MaxRows /\ 0 - 1 < Ring /\ \A i \in Row : ~(1 <= i /\ i <= 0)
    BY FeedSizes
  <2>3. \A i \in Row : t.st[i] = "none"
    BY <2>1
  <2> HIDE DEF t
  <2>4. t \in Table
    BY <2>1, <2>2, <2>3 DEF Table
  <2> QED
    BY <2>1, <2>4 DEF FeedInit
<1> HIDE DEF t
<1>2. Captures = t
  BY <1>1, TableIs DEF Captures
<1>3. FeedTypes
  <2>1. given \in Nat /\ stored \in [Row -> State] /\ running \subseteq 1 .. given
    BY DEF FeedInit, State
  <2>2. NoFetch \in [pc: {"idle", "asked", "answered"}, answer: Seq(ListRow), late: BOOLEAN]
    BY DEF NoFetch
  <2>3. fetches \in [Fetch -> [pc: {"idle", "asked", "answered"}, answer: Seq(ListRow), late: BOOLEAN]]
    BY <2>2 DEF FeedInit
  <2>4. client \in BOOLEAN /\ overtaken \in BOOLEAN /\ revived \in BOOLEAN
    BY DEF FeedInit
  <2>5. wire \in Seq(WireMessage)
    <3>1. wire = <<>>
      BY DEF FeedInit
    <3> QED
      BY <3>1
  <2> QED
    BY <2>1, <2>3, <2>4, <2>5 DEF FeedTypes
<1>4. SocketInv /\ ~client
  BY DEF FeedInit, SocketInv, SocketOK
<1> QED
  BY <1>1, <1>2, <1>3, <1>4 DEF FeedInv, ListInv

\* A row changes its state, if it is there.
Marked(st, i, x) == IF st[i] = "none" THEN st ELSE [st EXCEPT ![i] = x]

\* setState() does that.
LEMMA MarkedIs ==
  ASSUME NEW st \in [Row -> State], NEW i \in Row, NEW x
  PROVE  [st EXCEPT ![i] = IF @ = "none" THEN @ ELSE x] = Marked(st, i, x)
<1>1. CASE st[i] = "none"
  <2>1. [st EXCEPT ![i] = IF @ = "none" THEN @ ELSE x] = [st EXCEPT ![i] = "none"]
    BY <1>1
  <2>2. [st EXCEPT ![i] = "none"] = st
    BY <1>1
  <2> QED
    BY <1>1, <2>1, <2>2 DEF Marked
<1>2. CASE st[i] # "none"
  BY <1>2 DEF Marked
<1> QED
  BY <1>1, <1>2

\* The table stays one.
LEMMA StateTable ==
  ASSUME FeedAssumption, NEW s \in Table, NEW i \in Row, NEW x \in State, x # "none",
         NEW u, u = [g |-> s.g, low |-> s.low, st |-> Marked(s.st, i, x)]
  PROVE  /\ u \in Table /\ u.g = s.g /\ u.low = s.low /\ u.st = Marked(s.st, i, x)
         /\ \A v \in Table : Ringed(v, s) => Ringed(v, u)
<1> DEFINE st == Marked(s.st, i, x)
<1>1. /\ s.g \in Nat /\ s.low \in Nat /\ s.st \in [Row -> State]
      /\ 1 <= s.low /\ s.low <= s.g + 1 /\ s.g <= MaxRows /\ s.g - s.low < Ring
      /\ \A j \in Row : s.st[j] # "none" <=> s.low <= j /\ j <= s.g
  BY TableFacts
<1>2. st \in [Row -> State] /\ \A j \in Row : st[j] # "none" <=> s.st[j] # "none"
  BY <1>1 DEF State, Marked
<1> HIDE DEF st
<1>3. /\ u \in [g: Nat, low: Nat, st: [Row -> State]]
      /\ u.g = s.g /\ u.low = s.low /\ u.st = st
  BY <1>1, <1>2 DEF st
<1>4. u \in Table
  BY <1>1, <1>2, <1>3 DEF Table
<1>5. \A v \in Table : Ringed(v, s) => Ringed(v, u)
  BY <1>3 DEF Ringed
<1> QED
  BY <1>3, <1>4, <1>5 DEF st

\* A message about a row tells of its new state.
LEMMA StatePushed ==
  ASSUME FeedAssumption, FeedInv, NEW i \in Row, i <= given, NEW x \in State, x # "none",
         NEW y \in {"state", "update"},
         stored' = [stored EXCEPT ![i] = IF @ = "none" THEN @ ELSE x],
         Tell(Msg(y, i, x)), given' = given, running' \subseteq running, UNCHANGED dashboard, revived' = revived
  PROVE  FeedInv'
<1> DEFINE s == Captures
           st == Marked(stored, i, x)
           u == [g |-> s.g, low |-> s.low, st |-> st]
           m == Msg(y, i, x)
<1>1. s \in Table /\ s.g = given /\ s.st = stored
  BY CapturesAre
<1>2. m \in WireMessage /\ m.type = y /\ m.id = i /\ m.state = x
  BY DEF WireMessage, Msg
<1>3. stored' = st
  BY MarkedIs DEF FeedInv, FeedTypes
<1>4. u = [g |-> s.g, low |-> s.low, st |-> Marked(s.st, i, x)] /\ st = Marked(s.st, i, x)
  BY <1>1
<1> HIDE DEF s, m, st, u
<1>5. /\ u \in Table /\ u.g = s.g /\ u.low = s.low /\ u.st = Marked(s.st, i, x)
      /\ \A v \in Table : Ringed(v, s) => Ringed(v, u)
  BY <1>1, <1>4, StateTable
<1>6. Tells(s, m, u)
  BY <1>1, <1>2, <1>5 DEF Tells, TellsState, Marked
<1>7. running' \subseteq 1 .. given' /\ m.type \notin {"open", "closed"} /\ Tell(m)
  BY <1>2 DEF FeedInv, FeedTypes, m
<1>8. u.g = given' /\ u.st = stored'
  BY <1>1, <1>3, <1>4, <1>5
<1> QED
  BY <1>2, <1>5, <1>6, <1>7, <1>8, Pushed DEF s

\* The states a row is told to be in.
LEMMA StateSteps ==
  ASSUME FeedAssumption, FeedInv, NEW i \in Row,
         TellState(i) \/ TellUpdate(i) \/ TellP50(i) \/ Flushed(i) \/ Dropped(i)
  PROVE  FeedInv'
<1>1. stored \in [Row -> State] /\ given \in Nat /\ running \subseteq 1 .. given
  BY DEF FeedInv, FeedTypes
<1>2. i \in running => i <= given
  BY <1>1
<1>3. CASE TellState(i)
  BY <1>2, <1>3, StatePushed DEF TellState, setState, State
<1>4. ASSUME NEW x \in State, x # "none", x = stored[i] \/ stored[i] = "none"
      PROVE  stored = [stored EXCEPT ![i] = IF @ = "none" THEN @ ELSE x]
  BY <1>1, <1>4
<1>5. CASE TellUpdate(i)
  <2> DEFINE x == IF stored[i] = "none" THEN "streaming" ELSE stored[i]
  <2>1. x \in State /\ x # "none" /\ (x = stored[i] \/ stored[i] = "none")
    BY <1>1 DEF State
  <2>2. i <= given /\ Tell(Msg("update", i, x)) /\ stored' = stored /\ given' = given /\ running' = running
    BY <1>2, <1>5 DEF TellUpdate, server
  <2>3. UNCHANGED dashboard /\ revived' = revived
    BY <1>5 DEF TellUpdate
  <2> HIDE DEF x
  <2> QED
    BY <1>4, <2>1, <2>2, <2>3, StatePushed
<1>6. CASE TellP50(i)
  <2> DEFINE x == stored[i]
  <2>1. x \in State /\ x # "none" /\ x = stored[i]
    BY <1>1, <1>6 DEF TellP50
  <2>2. Tell(Msg("update", i, x)) /\ stored' = stored /\ given' = given /\ running' = running
    BY <1>6 DEF TellP50, server
  <2>3. UNCHANGED dashboard /\ revived' = revived
    BY <1>6 DEF TellP50
  <2>4. i <= given
    BY <1>6, CapturesAre, TableFacts DEF TellP50
  <2> HIDE DEF x
  <2> QED
    BY <1>4, <2>1, <2>2, <2>3, <2>4, StatePushed
<1>7. CASE Flushed(i)
  BY <1>2, <1>7, StatePushed DEF Flushed, setState, State
<1>8. CASE Dropped(i)
  BY <1>2, <1>8, StatePushed DEF Dropped, setState, State
<1> QED
  BY <1>3, <1>5, <1>6, <1>7, <1>8

\* All rows are removed.
LEMMA ClearSteps ==
  ASSUME FeedAssumption, FeedInv, PostClear PROVE FeedInv'
<1> DEFINE s == Captures
           u == [g |-> s.g, low |-> s.g + 1, st |-> [i \in Row |-> "none"]]
           m == [type |-> "clear"]
<1>1. s \in Table /\ s.g = given /\ s.st = stored /\ s.g \in Nat /\ s.g <= MaxRows
  BY CapturesAre, TableFacts
<1>2. m \in WireMessage /\ m.type = "clear"
  BY DEF WireMessage
<1> HIDE DEF s
<1>3. u \in [g: Nat, low: Nat, st: [Row -> State]] /\ u.g = s.g /\ u.low = s.g + 1 /\ u.st = [i \in Row |-> "none"]
  BY <1>1 DEF State
<1>4. \A i \in Row : u.st[i] = "none" /\ i \in Nat
  BY <1>3, FeedSizes
<1> HIDE DEF u
<1>5. u.g \in Nat /\ u.low = u.g + 1 /\ u.g <= MaxRows /\ Ring \in Nat \ {0} /\ MaxRows \in Nat
  BY <1>1, <1>3, FeedSizes
<1>6. u \in Table
  <2>1. 1 <= u.low /\ u.low <= u.g + 1 /\ u.g - u.low < Ring
    BY <1>5
  <2>2. \A i \in Row : u.st[i] # "none" <=> u.low <= i /\ i <= u.g
    BY <1>4, <1>5
  <2> QED
    BY <1>3, <1>5, <2>1, <2>2 DEF Table
<1>7. Tells(s, m, u)
  BY <1>2, <1>3 DEF Tells, TellsClear
<1>8. u.g = given' /\ u.st = stored' /\ running' \subseteq 1 .. given' /\ UNCHANGED dashboard /\ revived' = revived
  BY <1>1, <1>3 DEF PostClear, FeedInv, FeedTypes
<1>9. Tell(m)
  BY DEF PostClear
<1> QED
  BY <1>2, <1>6, <1>7, <1>8, <1>9, Pushed DEF s

\* A row is given.
LEMMA NewTable ==
  ASSUME FeedAssumption, NEW s \in Table, s.g + 1 \in Row, s.g - s.low + 1 < Ring,
         NEW u, u = [g |-> s.g + 1, low |-> s.low, st |-> [s.st EXCEPT ![s.g + 1] = "enqueued"]]
  PROVE  /\ u \in Table /\ u.g = s.g + 1 /\ u.low = s.low /\ u.st = [s.st EXCEPT ![s.g + 1] = "enqueued"]
         /\ \A v \in Table : Ringed(v, s) => Ringed(v, u)
<1> DEFINE i == s.g + 1
           st == [s.st EXCEPT ![i] = "enqueued"]
<1>1. /\ s.g \in Nat /\ s.low \in Nat /\ s.st \in [Row -> State]
      /\ 1 <= s.low /\ s.low <= s.g + 1 /\ s.g <= MaxRows
      /\ \A j \in Row : s.st[j] # "none" <=> s.low <= j /\ j <= s.g
      /\ Ring \in Nat /\ MaxRows \in Nat /\ \A j \in Row : j \in Nat /\ j <= MaxRows
  BY TableFacts, FeedSizes DEF Row
<1>2. /\ st \in [Row -> State] /\ \A j \in Row : st[j] # "none" <=> (j = i \/ s.st[j] # "none")
  BY <1>1 DEF State
<1>3. u.g = i /\ u.low = s.low /\ u.st = st /\ i \in Nat
  BY <1>1
<1>4. u \in [g: Nat, low: Nat, st: [Row -> State]]
  BY <1>1, <1>2
<1>5. /\ 1 <= s.low /\ s.low <= i + 1 /\ i <= MaxRows /\ i - s.low < Ring
      /\ \A j \in Row : (j = i \/ (s.low <= j /\ j <= s.g)) <=> s.low <= j /\ j <= i
  BY <1>1
<1> HIDE DEF st, i
<1>6. \A j \in Row : st[j] # "none" <=> s.low <= j /\ j <= i
  BY <1>1, <1>2, <1>5
<1>7. u \in Table
  BY <1>3, <1>4, <1>5, <1>6 DEF Table
<1>8. ASSUME NEW v \in Table, Ringed(v, s) PROVE Ringed(v, u)
  <2>1. v.low \in Nat /\ u.g = s.g + 1
    BY <1>3, TableFacts DEF i
  <2>2. s.low <= v.low \/ s.low <= s.g - Ring + 1
    BY <1>8 DEF Ringed
  <2>3. u.low <= v.low \/ u.low <= u.g - Ring + 1
    BY <1>1, <1>3, <2>1, <2>2
  <2> QED
    BY <2>3 DEF Ringed
<1> QED
  BY <1>3, <1>7, <1>8 DEF i, st

\* The ring removes its oldest row.
LEMMA PruneTable ==
  ASSUME FeedAssumption, NEW s \in Table, s.g - s.low + 1 = Ring,
         NEW u, u = [g |-> s.g, low |-> s.low + 1, st |-> [s.st EXCEPT ![s.low] = "none"]]
  PROVE  /\ u \in Table /\ u.g = s.g /\ u.low = s.low + 1 /\ u.st = [s.st EXCEPT ![s.low] = "none"]
         /\ s.low \in Row /\ s.low = s.g - Ring + 1
<1> DEFINE st == [s.st EXCEPT ![s.low] = "none"]
           low == s.low
<1>1. /\ s.g \in Nat /\ low \in Nat /\ s.st \in [Row -> State]
      /\ 1 <= low /\ s.g <= MaxRows
      /\ \A j \in Row : s.st[j] # "none" <=> low <= j /\ j <= s.g
      /\ Ring \in Nat \ {0} /\ \A j \in Row : j \in Nat
      /\ \A j \in low .. s.g : j \in Row
  BY TableFacts, FeedSizes
<1>2. /\ st \in [Row -> State] /\ \A j \in Row : st[j] # "none" <=> (j # low /\ s.st[j] # "none")
  BY <1>1 DEF State
<1>3. u.g = s.g /\ u.low = low + 1 /\ u.st = st
  OBVIOUS
<1>4. u \in [g: Nat, low: Nat, st: [Row -> State]]
  BY <1>1, <1>2
<1>9. s.g - low + 1 = Ring
  OBVIOUS
<1> HIDE DEF st, low
<1>5. /\ 1 <= low + 1 /\ low + 1 <= s.g + 1 /\ s.g - (low + 1) < Ring /\ low \in low .. s.g
      /\ \A j \in Row : (j # low /\ low <= j /\ j <= s.g) <=> low + 1 <= j /\ j <= s.g
      /\ low = s.g - Ring + 1
  BY <1>1, <1>9
<1>6. \A j \in Row : st[j] # "none" <=> low + 1 <= j /\ j <= s.g
  BY <1>1, <1>2, <1>5
<1>7. u \in Table
  BY <1>1, <1>3, <1>4, <1>5, <1>6 DEF Table
<1> QED
  BY <1>1, <1>3, <1>5, <1>7 DEF st, low

\* A capture is inserted, and the oldest one removed when the ring is full.
LEMMA InsertSteps ==
  ASSUME FeedAssumption, FeedInv, InsertEarlyCapture PROVE FeedInv'
<1> DEFINE s == Captures
           i == given + 1
           old == {j \in Present : Rank(j) >= Ring}
           New == Msg("new", i, "enqueued")
           full == [type |-> "prune", ids |-> {s.low}]
           one == Send(Socket, full)
<1>1. /\ s \in Table /\ s.g = given /\ s.st = stored /\ s.g \in Nat /\ s.low \in Nat /\ s.g - s.low < Ring
      /\ stored \in [Row -> State] /\ Ring \in Nat \ {0} /\ s.low <= s.g + 1
  BY CapturesAre, TableFacts, FeedSizes
<1>2. /\ i \in Row /\ given' = i /\ running' = running \cup {i} /\ UNCHANGED dashboard /\ revived' = revived
      /\ stored' = [j \in Row |-> IF j = i THEN "enqueued" ELSE IF j \in old THEN "none" ELSE stored[j]]
      /\ broadcast(Send(IF old = {} THEN Socket ELSE Send(Socket, [type |-> "prune", ids |-> old]), New))
  BY DEF InsertEarlyCapture
<1>3. Present = s.low .. s.g /\ \A j \in Present : Rank(j) = s.g - j + 1
  BY <1>1, RowsAre
<1>4. running' \subseteq 1 .. given'
  <2>1. running \subseteq 1 .. given /\ given \in Nat
    BY DEF FeedInv, FeedTypes
  <2>2. 1 .. given \subseteq 1 .. i /\ i \in 1 .. i
    BY <2>1
  <2>3. running' = running \cup {i} /\ given' = i
    BY <1>2
  <2> HIDE DEF i
  <2> QED
    BY ONLY <2>1, <2>2, <2>3
<1>5. New \in WireMessage /\ New.type = "new" /\ New.id = i /\ New.state = "enqueued" /\ "enqueued" \in State
  BY <1>2 DEF WireMessage, Msg, State
<1>6. CASE s.g - s.low + 1 < Ring
  <2> DEFINE u == [g |-> s.g + 1, low |-> s.low, st |-> [s.st EXCEPT ![s.g + 1] = "enqueued"]]
  <2>1. old = {}
    BY <1>1, <1>3, <1>6
  <2>2. stored' = [s.st EXCEPT ![i] = "enqueued"]
    BY <1>1, <1>2, <2>1
  <2>3. /\ u \in Table /\ u.g = s.g + 1 /\ u.low = s.low /\ u.st = [s.st EXCEPT ![s.g + 1] = "enqueued"]
        /\ \A v \in Table : Ringed(v, s) => Ringed(v, u)
    BY <1>1, <1>2, <1>6, NewTable
  <2> HIDE DEF u
  <2>4. Tells(s, New, u)
    BY <1>1, <1>2, <1>5, <2>3 DEF Tells, TellsNew
  <2>5. Tell(New)
    BY <1>2, <2>1 DEF Tell
  <2>6. u.g = given' /\ u.st = stored'
    BY <1>1, <1>2, <2>2, <2>3
  <2>7. New.type \notin {"open", "closed"}
    BY <1>5
  <2> HIDE DEF New
  <2> QED
    BY <1>2, <1>4, <1>5, <2>3, <2>4, <2>5, <2>6, <2>7, Pushed
<1>7. CASE ~(s.g - s.low + 1 < Ring)
  <2> DEFINE v == [g |-> s.g, low |-> s.low + 1, st |-> [s.st EXCEPT ![s.low] = "none"]]
             u == [g |-> v.g + 1, low |-> v.low, st |-> [v.st EXCEPT ![v.g + 1] = "enqueued"]]
  <2>1. s.g - s.low + 1 = Ring
    BY <1>1, <1>7
  <2>2. old = {s.low}
    <3>1. s.low \in s.low .. s.g /\ s.g - s.low + 1 >= Ring
      BY <1>1, <2>1
    <3>2. \A j \in s.low .. s.g : s.g - j + 1 >= Ring => j = s.low
      BY <1>1, <2>1
    <3> QED
      BY <1>3, <3>1, <3>2
  <2>3. /\ v \in Table /\ v.g = s.g /\ v.low = s.low + 1 /\ v.st = [s.st EXCEPT ![s.low] = "none"]
        /\ s.low \in Row /\ s.low = s.g - Ring + 1
    BY <1>1, <2>1, PruneTable
  <2> HIDE DEF v
  <2>4. v.g + 1 \in Row /\ v.g - v.low + 1 < Ring
    BY <1>1, <1>2, <2>1, <2>3
  <2>5. /\ u \in Table /\ u.g = v.g + 1 /\ u.low = v.low /\ u.st = [v.st EXCEPT ![v.g + 1] = "enqueued"]
    BY <2>3, <2>4, NewTable
  <2> HIDE DEF u
  <2>6. stored' = u.st
    BY <1>1, <1>2, <2>2, <2>3, <2>5
  <2>7. full \in WireMessage /\ full.type = "prune" /\ full.ids = {s.low}
    BY <2>3 DEF WireMessage
  <2> HIDE DEF full
  <2>8. Tells(s, full, v)
    BY <2>3, <2>7 DEF Tells, TellsPrune
  <2>9. Tells(v, New, u)
    BY <1>1, <1>2, <1>5, <2>3, <2>5 DEF Tells, TellsNew
  <2>10. /\ \A w \in Table : Ringed(w, u)
    <3>1. u.low <= u.g - Ring + 1
      BY <1>1, <2>3, <2>5
    <3> QED
      BY <3>1 DEF Ringed
  <2>11. Link(Socket, s, s)
    BY SocketLinks
  <2>12. full.type \notin {"open", "closed"} /\ New.type \notin {"open", "closed"}
    BY <1>5, <2>7
  <2> HIDE DEF New, s, one
  <2>13. Link(one, v, u) /\ Follows(Socket, s, one, v)
    BY <2>3, <2>5, <2>7, <2>8, <2>10, <2>11, <2>12, PushStep DEF one
  <2>14. Link(Send(one, New), u, u) /\ Follows(one, v, Send(one, New), u)
    BY <1>5, <2>5, <2>9, <2>10, <2>12, <2>13, PushStep
  <2> DEFINE two == Send(one, New)
  <2>15. broadcast(two)
    BY <1>2, <2>2 DEF one, full
  <2> HIDE DEF two
  <2>16. Follows(Socket, s, two, u)
    BY <2>13, <2>14 DEF Follows, two
  <2>17. u.g = given' /\ u.st = stored'
    BY <1>1, <1>2, <2>3, <2>5, <2>6
  <2> QED
    BY <1>2, <1>4, <2>5, <2>14, <2>15, <2>16, <2>17, PushDone DEF two, s
<1> QED
  BY <1>6, <1>7

-----------------------------------------------------------------------------
\* A dashboard without a socket says nothing of its list.
LEMMA Offline ==
  ASSUME ~client', FeedTypes', (Captures \in Table)', SocketInv' PROVE FeedInv'
  BY DEF FeedInv, ListInv

\* The process ends and starts again.
LEMMA RestartSteps ==
  ASSUME FeedAssumption, FeedInv, FeedRestart PROVE FeedInv'
<1> DEFINE s == Captures
           st == [i \in Row |-> IF stored[i] \in {"enqueued", "streaming"} THEN "done" ELSE stored[i]]
           u == [g |-> s.g, low |-> s.low, st |-> st]
<1>1. /\ s \in Table /\ s.g = given /\ s.st = stored
  BY CapturesAre
<1> HIDE DEF s
<1>2. /\ s.g \in Nat /\ s.low \in Nat /\ s.st \in [Row -> State]
      /\ 1 <= s.low /\ s.low <= s.g + 1 /\ s.g <= MaxRows /\ s.g - s.low < Ring
      /\ \A j \in Row : s.st[j] # "none" <=> s.low <= j /\ j <= s.g
  BY <1>1, TableFacts
<1>3. st \in [Row -> State] /\ \A j \in Row : st[j] # "none" <=> s.st[j] # "none"
  BY <1>1, <1>2 DEF State
<1>4. stored' = st /\ given' = given /\ ~client' /\ running' = {}
  BY DEF FeedRestart
<1> HIDE DEF st
<1>5. u \in [g: Nat, low: Nat, st: [Row -> State]] /\ u.g = s.g /\ u.low = s.low /\ u.st = st
  BY <1>2, <1>3
<1> HIDE DEF u
<1>6. u \in Table
  BY <1>2, <1>3, <1>5 DEF Table
<1>7. Captures' = u
  <2>1. u.g = given' /\ u.st = stored'
    BY <1>1, <1>4, <1>5
  <2> QED
    BY <1>6, <2>1, TableIs DEF Captures
<1>8. UNCHANGED dashboard /\ revived' = revived /\ wire' = IF client THEN <<CLOSED>> ELSE wire
  BY DEF FeedRestart
<1>9. /\ CLOSED \in WireMessage /\ <<CLOSED>> \in Seq(WireMessage)
      /\ <<CLOSED>> # <<>> /\ <<CLOSED>>[Len(<<CLOSED>>)] = CLOSED
  <2>1. CLOSED \in WireMessage
    BY DEF WireMessage
  <2> QED
    BY <2>1
<1>10. FeedTypes'
  <2>1. wire' \in Seq(WireMessage)
    BY <1>8, <1>9 DEF FeedInv, FeedTypes
  <2>2. /\ fetches' \in [Fetch -> [pc: {"idle", "asked", "answered"}, answer: Seq(ListRow), late: BOOLEAN]]
        /\ overtaken' \in BOOLEAN /\ revived' \in BOOLEAN
    BY <1>8 DEF FeedInv, FeedTypes, dashboard
  <2>3. stored' \in [Row -> State] /\ given' \in Nat /\ running' \subseteq 1 .. given' /\ client' \in BOOLEAN
    <3>1. client' = FALSE
      BY DEF FeedRestart
    <3> QED
      BY <1>1, <1>2, <1>3, <1>4, <3>1
  <2> QED
    BY <2>1, <2>2, <2>3 DEF FeedTypes
<1>11. SocketInv'
  BY <1>4, <1>8, <1>9 DEF FeedInv, SocketInv, SocketOK, dashboard
<1> QED
  BY <1>4, <1>6, <1>7, <1>10, <1>11, Offline

\* What the table keeps when the server does nothing.
LEMMA ServerStays ==
  ASSUME FeedInv, UNCHANGED server
  PROVE  Captures' = Captures /\ (Captures \in Table)' /\ stored' = stored /\ given' = given /\ running' = running
  BY DEF FeedInv, server, Captures

\* The connection breaks.
LEMMA BreakSteps ==
  ASSUME FeedAssumption, FeedInv, Breaks PROVE FeedInv'
<1>1. /\ ~client' /\ client' = FALSE /\ wire' = <<CLOSED>> /\ client /\ UNCHANGED server /\ UNCHANGED dashboard
      /\ revived' = revived
  BY DEF Breaks
<1>2. <<CLOSED>> \in Seq(WireMessage) /\ <<CLOSED>> # <<>> /\ <<CLOSED>>[Len(<<CLOSED>>)] = CLOSED
  <2>1. CLOSED \in WireMessage
    BY DEF WireMessage
  <2> QED
    BY <2>1
<1>3. FeedTypes'
  BY <1>1, <1>2, ServerStays DEF FeedInv, FeedTypes, dashboard
<1>4. SocketInv'
  BY <1>1, <1>2 DEF FeedInv, SocketInv, SocketOK, dashboard
<1> QED
  BY <1>1, <1>3, <1>4, ServerStays, Offline

\* A socket is opened: it knows the table as it is.
LEMMA ConnectSteps ==
  ASSUME FeedAssumption, FeedInv, Connect PROVE FeedInv'
<1> DEFINE s == Captures
           W == <<OPEN>>
           h == [k \in 0 .. 1 |-> s]
<1>1. /\ client' = TRUE /\ wire' = W /\ UNCHANGED server /\ UNCHANGED dashboard
      /\ revived' = revived /\ reachable /\ wsState # "live"
  BY DEF Connect
<1>2. s \in Table
  BY CapturesAre
<1>3. /\ OPEN \in WireMessage /\ OPEN.type = "open" /\ W \in Seq(WireMessage) /\ W # <<>> /\ Len(W) = 1 /\ W[1] = OPEN
  <2>1. OPEN \in WireMessage /\ OPEN.type = "open"
    BY DEF WireMessage, OPEN
  <2> QED
    BY <2>1
<1>4. FeedTypes'
  BY <1>1, <1>3, ServerStays DEF FeedInv, FeedTypes, dashboard
<1>5. SocketInv'
  <2>1. \A k \in 1 .. Len(W) : k = 1 /\ W[k].type # "closed"
    BY <1>3
  <2> HIDE DEF W
  <2>2. wsState' = wsState /\ reachable' = reachable
    BY <1>1 DEF dashboard
  <2> QED
    BY <1>1, <1>3, <2>1, <2>2 DEF SocketInv, SocketOK
<1>6. Told(W, s, s)
  <2>1. s.g \in Nat /\ s.low \in Nat
    BY <1>2, TableFacts
  <2>2. Later(s, s) /\ Ringed(s, s)
    BY <2>1 DEF Later, Ringed
  <2> HIDE DEF s, W
  <2>3. h \in [0 .. Len(W) -> Table] /\ h[Len(W)] = s /\ \A k \in 0 .. Len(W) : h[k] = s
    BY <1>2, <1>3
  <2> HIDE DEF h
  <2>4. ASSUME NEW k \in 1 .. Len(W) PROVE Tells(h[k - 1], W[k], h[k])
    <3>1. k = 1 /\ k - 1 \in 0 .. Len(W) /\ k \in 0 .. Len(W)
      BY <1>3
    <3> QED
      BY <1>3, <2>3, <3>1 DEF Tells, TellsOpen
  <2>5. \A j, k \in 0 .. Len(W) : Later(h[j], h[k])
    BY <2>2, <2>3
  <2>6. Traces(h, W, s)
    BY <2>3, <2>4, <2>5 DEF Traces
  <2>7. \A k \in 0 .. Len(W) : Ringed(h[k], s)
    BY <2>2, <2>3
  <2> QED
    BY <2>6, <2>7 DEF Told
<1>7. (client => Told(wire, Captures, Captures))'
  BY <1>1, <1>6, ServerStays
<1>8. ListInv'
  BY <1>1 DEF ListInv, dashboard
<1> QED
  BY <1>1, <1>4, <1>5, <1>7, <1>8, ServerStays DEF FeedInv

-----------------------------------------------------------------------------
\* A message is told from the opening and the closing by its type.
LEMMA MessageTypes ==
  ASSUME NEW m \in WireMessage PROVE (m.type = "open" <=> m = OPEN) /\ (m.type = "closed" <=> m = CLOSED)
<1>1. CASE m \in {OPEN, CLOSED, [type |-> "clear"]}
  BY <1>1 DEF OPEN, CLOSED
<1>2. CASE m \in [type: {"new", "update", "state"}, id: Row, state: State]
  <2>1. m.type \in {"new", "update", "state"}
    BY <1>2
  <2> QED
    BY <2>1 DEF OPEN, CLOSED
<1>3. ASSUME NEW i \in Row, m = [type |-> "prune", ids |-> {i}] PROVE m.type \notin {"open", "closed"}
  BY <1>3
<1>4. CASE m \in {[type |-> "prune", ids |-> {i}] : i \in Row}
  <2>1. m.type \notin {"open", "closed"}
    BY <1>3, <1>4
  <2> QED
    BY <2>1 DEF OPEN, CLOSED
<1> QED
  BY <1>1, <1>2, <1>4 DEF WireMessage

\* The first message and what is left.
LEMMA WireTail ==
  ASSUME NEW W \in Seq(WireMessage), W # <<>>
  PROVE  /\ Tail(W) \in Seq(WireMessage) /\ Head(W) = W[1] /\ W[1] \in WireMessage
         /\ Len(Tail(W)) = Len(W) - 1 /\ Len(W) \in Nat /\ Len(W) >= 1
         /\ \A k \in 1 .. Len(Tail(W)) : Tail(W)[k] = W[k + 1] /\ k + 1 \in 1 .. Len(W) /\ k + 1 > 1
         /\ Len(W) > 1 => Tail(W) # <<>> /\ Tail(W)[Len(Tail(W))] = W[Len(W)]
         /\ Len(W) = 1 => Tail(W) = <<>>
<1> DEFINE T == Tail(W)
           n == Len(W)
<1>1. /\ T \in Seq(WireMessage) /\ Head(W) = W[1] /\ W[1] \in WireMessage
      /\ Len(T) = n - 1 /\ n \in Nat /\ n >= 1
      /\ \A k \in 1 .. n - 1 : T[k] = W[k + 1]
  OBVIOUS
<1>2. Len(T) = 0 => T = <<>>
  BY <1>1, EmptySeq
<1>3. Len(T) # 0 => T # <<>>
  BY <1>1, EmptySeq
<1> HIDE DEF T, n
<1>4. \A k \in 1 .. n - 1 : k + 1 \in 1 .. n /\ k + 1 > 1
  BY <1>1
<1>5. n > 1 => Len(T) # 0 /\ n - 1 \in 1 .. n - 1 /\ n - 1 + 1 = n
  BY <1>1
<1>6. n > 1 => T # <<>> /\ T[Len(T)] = W[n]
  BY <1>1, <1>3, <1>5
<1>7. n = 1 => T = <<>>
  BY <1>1, <1>2
<1> QED
  BY <1>1, <1>4, <1>6, <1>7 DEF T, n

\* What the requests are once their answers count as late.
LEMMA LateAnswers ==
  ASSUME FeedTypes
  PROVE  /\ Late \in [Fetch -> [pc: {"idle", "asked", "answered"}, answer: Seq(ListRow), late: BOOLEAN]]
         /\ \A f \in Fetch : /\ Late[f].pc = fetches[f].pc /\ Late[f].answer = fetches[f].answer
                             /\ fetches[f].pc # "idle" => Late[f].pc = "asked" \/ Late[f].late
<1> DEFINE R == [pc: {"idle", "asked", "answered"}, answer: Seq(ListRow), late: BOOLEAN]
<1>1. \A f \in Fetch : fetches[f] \in R
  BY DEF FeedTypes
<1>2. ASSUME NEW r \in R
      PROVE  /\ [r EXCEPT !.late = TRUE] \in R /\ [r EXCEPT !.late = TRUE].pc = r.pc
             /\ [r EXCEPT !.late = TRUE].answer = r.answer /\ [r EXCEPT !.late = TRUE].late
             /\ r.pc \in {"idle", "asked", "answered"}
  OBVIOUS
<1>3. \A f \in Fetch : Late[f] = IF fetches[f].pc = "answered" THEN [fetches[f] EXCEPT !.late = TRUE] ELSE fetches[f]
  BY DEF Late
<1>4. DOMAIN Late = Fetch /\ Late = [f \in Fetch |-> Late[f]]
  BY DEF Late
<1> HIDE DEF R
<1>5. \A f \in Fetch : Late[f] \in R
  BY <1>1, <1>2, <1>3
<1>6. Late \in [Fetch -> R]
  BY <1>4, <1>5
<1>7. ASSUME NEW f \in Fetch
      PROVE  /\ Late[f].pc = fetches[f].pc /\ Late[f].answer = fetches[f].answer
             /\ fetches[f].pc # "idle" => Late[f].pc = "asked" \/ Late[f].late
  <2>1. CASE fetches[f].pc = "answered"
    BY <1>1, <1>2, <1>3, <2>1
  <2>2. CASE fetches[f].pc # "answered"
    <3>1. Late[f] = fetches[f]
      BY <1>3, <2>2
    <3>2. fetches[f].pc \in {"idle", "asked", "answered"}
      BY <1>1, <1>2
    <3> QED
      BY <2>2, <3>1, <3>2
  <2> QED
    BY <2>1, <2>2
<1> QED
  BY <1>6, <1>7 DEF R

\* A message is applied to the list.
LEMMA MessageSteps ==
  ASSUME FeedAssumption, FeedInv, OnMessage PROVE FeedInv'
<1> DEFINE s == Captures
           m == Head(wire)
           T == Tail(wire)
<1>1. /\ wire # <<>> /\ m \notin {OPEN, CLOSED} /\ wire' = T /\ list' = Applied(m) /\ fetches' = Late
      /\ revived' = (revived \/ Revives(m)) /\ UNCHANGED server /\ client' = client /\ wsState' = wsState
      /\ reachable' = reachable /\ overtaken' = overtaken
  BY DEF OnMessage
<1>2. wire \in Seq(WireMessage) /\ FeedTypes /\ SocketOK(client, wire) /\ s \in Table
  BY DEF FeedInv, SocketInv, FeedTypes
<1>3. /\ T \in Seq(WireMessage) /\ m = wire[1] /\ m \in WireMessage
      /\ Len(T) = Len(wire) - 1 /\ Len(wire) \in Nat /\ Len(wire) >= 1
      /\ \A k \in 1 .. Len(T) : T[k] = wire[k + 1] /\ k + 1 \in 1 .. Len(wire) /\ k + 1 > 1
      /\ Len(wire) > 1 => T # <<>> /\ T[Len(T)] = wire[Len(wire)]
      /\ Len(wire) = 1 => T = <<>>
  BY <1>1, <1>2, WireTail
<1> HIDE DEF s, m, T
<1>4. m.type # "open" /\ m.type # "closed"
  BY <1>1, <1>3, MessageTypes
<1>5. /\ Late \in [Fetch -> [pc: {"idle", "asked", "answered"}, answer: Seq(ListRow), late: BOOLEAN]]
      /\ \A f \in Fetch : fetches[f].pc # "idle" => Late[f].pc = "asked" \/ Late[f].late
  BY <1>2, LateAnswers
<1>6. FeedTypes'
  <2>1. revived' \in BOOLEAN
    BY <1>1, <1>2 DEF FeedTypes, Revives
  <2>2. stored' = stored /\ given' = given /\ running' = running
    BY <1>1, ServerStays
  <2> QED
    BY <1>1, <1>2, <1>3, <1>5, <2>1, <2>2 DEF FeedTypes
<1>7. client => wsState = "live" /\ \A k \in 1 .. Len(wire) : wire[k].type # "closed" /\ wire[k].type # "open"
  BY <1>1, <1>2, <1>3, <1>4 DEF SocketOK
<1>8. SocketOK(client, T)
  <2>1. CASE client
    <3>1. \A k \in 1 .. Len(T) : T[k].type # "closed" /\ T[k].type # "open"
      BY <1>3, <1>7, <2>1
    <3> QED
      BY <1>7, <2>1, <3>1 DEF SocketOK
  <2>2. CASE ~client
    <3>1. wire[Len(wire)] = CLOSED
      BY <1>1, <1>2, <2>2 DEF SocketOK
    <3>2. CLOSED.type = "closed"
      BY DEF CLOSED
    <3>3. Len(wire) # 1
      BY <1>3, <1>4, <3>1, <3>2
    <3>4. T # <<>> /\ T[Len(T)] = CLOSED
      BY <1>3, <3>1, <3>3
    <3> QED
      BY <2>2, <3>4 DEF SocketOK
  <2> QED
    BY <1>2, <2>1, <2>2 DEF FeedTypes
<1>9. SocketInv'
  <2>1. reachable
    BY <1>1 DEF FeedInv, SocketInv
  <2> QED
    BY <1>1, <1>8, <2>1 DEF SocketInv, SocketOK
<1>10. client => Told(wire, s, s) /\ Told(T, s, s)
  <2>1. client => Told(wire, s, s)
    BY DEF FeedInv, s
  <2> QED
    BY <1>1, <1>2, <2>1, ToldTail DEF T
<1>11. Captures' = s
  BY <1>1, ServerStays DEF s
<1>12. ASSUME client, wsState = "live"
       PROVE  overtaken \/ revived' \/ Heals(list', T, s) \/ \E f \in Fetch : fetches[f].pc # "idle"
  <2>1. CASE Heals(list, wire, s) /\ ~Revives(m)
    <3>1. m.type = "update" /\ At(m.id) = 0 => m.id \in Newest
      BY <2>1 DEF Revives
    <3>2. Newest = Base(s) .. s.g /\ Base(s) \in Nat /\ s.g \in Nat
      BY <1>2, CapturesAre, RowsAre, TableFacts DEF s
    <3>3. m.type = "update" /\ At(m.id) = 0 => m.id >= Base(s)
      BY <3>1, <3>2
    <3>4. Heals(Applied(m), T, s)
      BY <1>1, <1>2, <1>3, <1>4, <1>10, <1>12, <2>1, <3>3, HealsTail DEF T
    <3> QED
      BY <1>1, <3>4
  <2>2. CASE Revives(m)
    BY <1>1, <2>2
  <2>3. \/ \E f \in Fetch : fetches[f].pc # "idle"
        \/ overtaken \/ revived \/ Heals(list, wire, s)
    BY <1>12 DEF FeedInv, ListInv, s
  <2> QED
    BY <1>1, <2>1, <2>2, <2>3
<1>13. \A f \in Fetch : fetches'[f].pc # "idle" => Sound(f)'
  <2>1. \A f \in Fetch : Late[f].pc = fetches[f].pc
    BY <1>2, LateAnswers
  <2> QED
    BY <1>1, <1>5, <2>1 DEF Sound
<1>14. ListInv'
  <2>1. \A f \in Fetch : fetches'[f].pc = fetches[f].pc
    BY <1>1, <1>2, LateAnswers
  <2> QED
    BY <1>1, <1>11, <1>12, <1>13, <2>1 DEF ListInv
<1> QED
  BY <1>1, <1>2, <1>6, <1>9, <1>10, <1>11, <1>14 DEF FeedInv

\* A request is made.
LEMMA AskedIs ==
  ASSUME FeedTypes, NEW f \in Fetch
  PROVE  /\ Asked(f) \in [Fetch -> [pc: {"idle", "asked", "answered"}, answer: Seq(ListRow), late: BOOLEAN]]
         /\ Asked(f)[f].pc = "asked" /\ \A e \in Fetch : e # f => Asked(f)[e] = fetches[e]
<1> DEFINE R == [pc: {"idle", "asked", "answered"}, answer: Seq(ListRow), late: BOOLEAN]
           r == [fetches[f] EXCEPT !.pc = "asked"]
<1>1. fetches \in [Fetch -> R] /\ fetches[f] \in R
  BY DEF FeedTypes
<1>2. r \in R /\ r.pc = "asked"
  BY <1>1
<1>3. Asked(f) = [fetches EXCEPT ![f] = r]
  BY DEF Asked
<1> HIDE DEF R, r
<1> QED
  BY <1>1, <1>2, <1>3 DEF R

\* The dashboard is told that its socket is open, and asks for the list.
LEMMA OpenSteps ==
  ASSUME FeedAssumption, FeedInv, NEW f \in Fetch, OnOpen(f) PROVE FeedInv'
<1> DEFINE s == Captures
           T == Tail(wire)
<1>1. /\ wire # <<>> /\ Head(wire) = OPEN /\ wire' = T /\ wsState' = "live" /\ fetches' = Asked(f)
      /\ UNCHANGED server /\ client' = client /\ reachable' = reachable /\ overtaken' = overtaken
      /\ revived' = revived
  BY DEF OnOpen
<1>2. wire \in Seq(WireMessage) /\ FeedTypes /\ SocketOK(client, wire)
  BY DEF FeedInv, SocketInv, FeedTypes
<1>3. /\ T \in Seq(WireMessage) /\ wire[1] = OPEN
      /\ Len(T) = Len(wire) - 1 /\ Len(wire) \in Nat /\ Len(wire) >= 1
      /\ \A k \in 1 .. Len(T) : T[k] = wire[k + 1] /\ k + 1 \in 1 .. Len(wire) /\ k + 1 > 1
      /\ Len(wire) > 1 => T # <<>> /\ T[Len(T)] = wire[Len(wire)]
  BY <1>1, <1>2, WireTail
<1> HIDE DEF s, T
<1>4. /\ Asked(f) \in [Fetch -> [pc: {"idle", "asked", "answered"}, answer: Seq(ListRow), late: BOOLEAN]]
      /\ Asked(f)[f].pc = "asked"
  BY <1>2, AskedIs
<1>5. FeedTypes'
  BY <1>1, <1>2, <1>3, <1>4, ServerStays DEF FeedTypes
<1>6. SocketInv'
  <2>1. CASE client
    <3>1. \A k \in 1 .. Len(T) : T[k].type # "closed" /\ T[k].type # "open"
      BY <1>2, <1>3, <2>1 DEF SocketOK
    <3> QED
      BY <1>1, <2>1, <3>1 DEF FeedInv, SocketInv, SocketOK
  <2>2. CASE ~client
    <3>1. wire[Len(wire)] = CLOSED
      BY <1>1, <1>2, <2>2 DEF SocketOK
    <3>2. CLOSED.type = "closed" /\ OPEN.type = "open"
      BY DEF CLOSED, OPEN
    <3>3. Len(wire) # 1
      BY <1>3, <3>1, <3>2
    <3>4. T # <<>> /\ T[Len(T)] = CLOSED
      BY <1>3, <3>1, <3>3
    <3>5. reachable
      BY <1>1 DEF FeedInv, SocketInv
    <3> QED
      BY <1>1, <2>2, <3>4, <3>5 DEF SocketInv, SocketOK
  <2> QED
    BY <1>2, <2>1, <2>2 DEF FeedTypes
<1>7. client => Told(T, s, s)
  <2>1. client => Told(wire, s, s)
    BY DEF FeedInv, s
  <2> QED
    BY <1>1, <1>2, <2>1, ToldTail DEF T
<1>8. Captures' = s
  BY <1>1, ServerStays DEF s
<1>9. ListInv'
  <2>1. fetches'[f].pc # "idle" /\ Sound(f)'
    BY <1>1, <1>4 DEF Sound
  <2> QED
    BY <2>1 DEF ListInv
<1> QED
  BY <1>1, <1>5, <1>6, <1>7, <1>8, <1>9, ServerStays DEF FeedInv

\* The dashboard is told that its socket is closed.
LEMMA CloseSteps ==
  ASSUME FeedAssumption, FeedInv, OnClose PROVE FeedInv'
<1>1. /\ wire # <<>> /\ Head(wire) = CLOSED /\ wire' = <<>> /\ wsState' = "down" /\ fetches' = fetches
      /\ UNCHANGED server /\ client' = client /\ reachable' = reachable /\ overtaken' = overtaken
      /\ revived' = revived
  BY DEF OnClose
<1>2. wire \in Seq(WireMessage) /\ FeedTypes /\ SocketOK(client, wire)
  BY DEF FeedInv, SocketInv, FeedTypes
<1>3. wire[1] = CLOSED /\ Len(wire) \in Nat /\ Len(wire) >= 1
  BY <1>1, <1>2, WireTail
<1>4. ~client
  <2>1. 1 \in 1 .. Len(wire) /\ CLOSED.type = "closed"
    BY <1>3 DEF CLOSED
  <2> QED
    BY <1>2, <1>3, <2>1 DEF SocketOK
<1>5. wire' \in Seq(WireMessage)
  <2>1. <<>> \in Seq(WireMessage)
    OBVIOUS
  <2> QED
    BY <1>1, <2>1
<1>6. FeedTypes'
  BY <1>1, <1>2, <1>5, ServerStays DEF FeedTypes
<1>7. SocketInv'
  BY <1>1, <1>4 DEF SocketInv, SocketOK
<1> QED
  BY <1>1, <1>4, <1>6, <1>7, ServerStays, Offline

\* A dashboard that does not reach the server asks for the list.
LEMMA RetrySteps ==
  ASSUME FeedAssumption, FeedInv, NEW f \in Fetch, RetryList(f) PROVE FeedInv'
<1>1. /\ ~reachable /\ fetches' = Asked(f) /\ UNCHANGED server /\ client' = client /\ wire' = wire
      /\ wsState' = wsState /\ reachable' = reachable /\ overtaken' = overtaken /\ revived' = revived
  BY DEF RetryList
<1>2. FeedTypes'
  <2>1. fetches' \in [Fetch -> [pc: {"idle", "asked", "answered"}, answer: Seq(ListRow), late: BOOLEAN]]
    BY <1>1, AskedIs DEF FeedInv
  <2> QED
    BY <1>1, <2>1, ServerStays DEF FeedInv, FeedTypes
<1>3. SocketInv' /\ ~client'
  BY <1>1 DEF FeedInv, SocketInv, SocketOK
<1> QED
  BY <1>1, <1>2, <1>3, ServerStays, Offline

\* A load fails.
LEMMA FailSteps ==
  ASSUME FeedAssumption, FeedInv, NEW f \in Fetch, ListFails(f) PROVE FeedInv'
<1>1. /\ fetches' = [fetches EXCEPT ![f] = NoFetch] /\ reachable' = FALSE
      /\ IF reachable THEN /\ client' = FALSE /\ wire' = <<>>
                           /\ wsState' = IF wsState = "live" THEN "down" ELSE "unavailable"
         ELSE UNCHANGED <<client, wire, wsState>>
      /\ UNCHANGED server /\ overtaken' = overtaken /\ revived' = revived
  BY DEF ListFails
<1>2. client' = FALSE /\ wire' = <<>> /\ wsState' # "live"
  BY <1>1 DEF FeedInv, FeedTypes, SocketInv
<1>3. FeedTypes'
  <2>1. NoFetch \in [pc: {"idle", "asked", "answered"}, answer: Seq(ListRow), late: BOOLEAN]
    BY DEF NoFetch
  <2>2. fetches' \in [Fetch -> [pc: {"idle", "asked", "answered"}, answer: Seq(ListRow), late: BOOLEAN]]
    BY <1>1, <2>1 DEF FeedInv, FeedTypes
  <2>3. <<>> \in Seq(WireMessage)
    OBVIOUS
  <2>4. wire' \in Seq(WireMessage)
    BY <1>2, <2>3
  <2>5. client' \in BOOLEAN
    BY <1>2
  <2> QED
    BY <1>1, <2>2, <2>4, <2>5, ServerStays DEF FeedInv, FeedTypes
<1>4. SocketInv'
  BY <1>2 DEF SocketInv, SocketOK
<1> QED
  BY <1>1, <1>2, <1>3, <1>4, ServerStays, Offline

\* The answer to a list request shows the newest rows of the table.
LEMMA AnswerIs ==
  ASSUME FeedAssumption, FeedInv, NEW f \in Fetch, GetCaptures(f)
  PROVE  \E L : /\ fetches' = [fetches EXCEPT ![f] = [pc |-> "answered", late |-> FALSE, answer |-> L]]
                /\ AsOf(L, Captures)
<1> DEFINE s == Captures
           n == s.g - Base(s) + 1
           Of(c) == [k \in 1 .. c |-> CHOOSE i \in Newest : Rank(i) = k]
           Rows(o) == [k \in DOMAIN o |-> [id |-> o[k], state |-> stored[o[k]]]]
           L == Rows(Of(Cardinality(Newest)))
<1>1. fetches' = [fetches EXCEPT ![f] = [pc |-> "answered", late |-> FALSE, answer |-> L]]
  BY DEF GetCaptures
<1>2. /\ s \in Table /\ s.g = given /\ s.st = stored
      /\ s.g \in Nat /\ s.low \in Nat /\ Base(s) \in Nat /\ Base(s) >= s.low /\ Base(s) <= s.g + 1
      /\ stored \in [Row -> State] /\ \A i \in s.low .. s.g : i \in Row
  BY CapturesAre, TableFacts
<1> HIDE DEF s
<1>3. Newest = Base(s) .. s.g /\ Present = s.low .. s.g /\ \A i \in Present : Rank(i) = s.g - i + 1
  BY <1>2, RowsAre
<1>4. \A i \in Base(s) .. s.g : i \in Row /\ Rank(i) = s.g - i + 1
  BY <1>2, <1>3
<1>5. n \in Nat /\ Cardinality(Newest) = n
  <2> DEFINE a == Base(s)
             b == s.g
  <2>1. a \in Int /\ b \in Int /\ (IF a > b THEN 0 ELSE b - a + 1) = n /\ n \in Nat
    BY <1>2
  <2>2. Newest = a .. b
    BY <1>3
  <2> HIDE DEF a, b, n
  <2> QED
    BY <2>1, <2>2, FS_Interval
<1>6. \A k \in 1 .. n : /\ s.g - k + 1 \in Base(s) .. s.g
                      /\ \A i \in Base(s) .. s.g : s.g - i + 1 = k <=> i = s.g - k + 1
  BY <1>2
<1>7. \A k \in 1 .. n : Of(n)[k] = s.g - k + 1
  <2> TAKE k \in 1 .. n
  <2>1. \A i \in Newest : Rank(i) = k <=> i = s.g - k + 1
    BY <1>3, <1>4, <1>6
  <2>2. s.g - k + 1 \in Newest
    BY <1>3, <1>6
  <2> QED
    BY <2>1, <2>2
<1>8. DOMAIN Of(n) = 1 .. n
  OBVIOUS
<1> HIDE DEF Of
<1>9. Rows(Of(n)) = [k \in 1 .. n |-> [id |-> s.g - k + 1, state |-> stored[s.g - k + 1]]]
  BY <1>7, <1>8
<1>10. \A k \in 1 .. n : [id |-> s.g - k + 1, state |-> stored[s.g - k + 1]] \in ListRow
  <2> TAKE k \in 1 .. n
  <2>1. s.g - k + 1 \in Row
    BY <1>4, <1>6
  <2> QED
    BY <1>2, <2>1 DEF ListRow
<1>11. L = Rows(Of(n))
  BY <1>5
<1> HIDE DEF L, Rows
<1>12. L \in Seq(ListRow) /\ Len(L) = n /\ \A k \in 1 .. n : L[k] = [id |-> s.g - k + 1, state |-> s.st[s.g - k + 1]]
  <2> HIDE DEF n
  <2> QED
    BY <1>2, <1>5, <1>9, <1>10, <1>11
<1>13. AsOf(L, s)
  BY <1>12 DEF AsOf, Shown
<1> QED
  BY <1>1, <1>13 DEF s

\* The list is read from the table.
LEMMA GetSteps ==
  ASSUME FeedAssumption, FeedInv, NEW f \in Fetch, GetCaptures(f) PROVE FeedInv'
<1> DEFINE s == Captures
           R == [pc: {"idle", "asked", "answered"}, answer: Seq(ListRow), late: BOOLEAN]
<1>1. PICK L : fetches' = [fetches EXCEPT ![f] = [pc |-> "answered", late |-> FALSE, answer |-> L]] /\ AsOf(L, s)
  BY AnswerIs
<1>2. /\ UNCHANGED server /\ client' = client /\ wire' = wire /\ fetches[f].pc = "asked"
      /\ wsState' = wsState /\ reachable' = reachable /\ list' = list /\ overtaken' = overtaken /\ revived' = revived
  BY DEF GetCaptures
<1>3. L \in Seq(ListRow)
  BY <1>1 DEF AsOf
<1>4. FeedTypes /\ fetches \in [Fetch -> R] /\ s \in Table
  BY DEF FeedInv, FeedTypes
<1> HIDE DEF s
<1>5. fetches' \in [Fetch -> R] /\ fetches'[f].pc = "answered" /\ fetches'[f].answer = L
      /\ \A e \in Fetch : e # f => fetches'[e] = fetches[e]
  <2> DEFINE r == [pc |-> "answered", late |-> FALSE, answer |-> L]
  <2>1. r \in R /\ r.pc = "answered" /\ r.answer = L
    BY <1>3
  <2>2. fetches' = [fetches EXCEPT ![f] = r]
    BY <1>1
  <2> HIDE DEF r, R
  <2> QED
    BY <1>4, <2>1, <2>2
<1>6. FeedTypes'
  BY <1>2, <1>4, <1>5, ServerStays DEF FeedTypes
<1>7. SocketInv'
  BY <1>2 DEF FeedInv, SocketInv, SocketOK
<1>8. Captures' = s
  BY <1>2, ServerStays DEF s
<1>9. client => Told(wire, s, s)
  BY DEF FeedInv, s
<1>10. ASSUME client PROVE Heals(L, wire, s)
  <2>1. PICK h : Traces(h, wire, s) /\ \A k \in 0 .. Len(wire) : ClearedFrom(wire, k) \/ Ringed(h[k], s)
    BY <1>9, <1>10 DEF Told
  <2>2. 0 \in 0 .. Len(wire) /\ Len(wire) \in 0 .. Len(wire)
    <3>1. Len(wire) \in Nat
      BY <1>4 DEF FeedTypes
    <3> QED
      BY <3>1
  <2>3. h[Len(wire)] = s
    BY <2>1 DEF Traces
  <2>4. Ahead(L, h[0], s)
    BY <1>1 DEF AsOf, Ahead
  <2>5. CASE ClearedFrom(wire, 0)
    BY <2>5 DEF Heals
  <2>6. CASE Ringed(h[0], s)
    <3>1. HealsBy(L, wire, s, h)
      BY <2>1, <2>2, <2>3, <2>4, <2>6 DEF HealsBy
    <3> QED
      BY <3>1 DEF Heals
  <2> QED
    BY <2>1, <2>2, <2>5, <2>6
<1>11. \A e \in Fetch : e # f => (Sound(e) => Sound(e)')
  BY <1>2, <1>5, <1>8 DEF Sound, s
<1>12. client => Sound(f)'
  BY <1>2, <1>5, <1>8, <1>10 DEF Sound
<1>13. ListInv'
  <2> SUFFICES ASSUME client, wsState = "live"
               PROVE  \E e \in Fetch : fetches'[e].pc # "idle" /\ Sound(e)'
    BY <1>2 DEF ListInv
  <2> QED
    BY <1>5, <1>12
<1> QED
  BY <1>2, <1>4, <1>6, <1>7, <1>8, <1>9, <1>13 DEF FeedInv

\* An answer replaces the list.
LEMMA ArriveSteps ==
  ASSUME FeedAssumption, FeedInv, NEW f \in Fetch, ListArrives(f) PROVE FeedInv'
<1> DEFINE s == Captures
           R == [pc: {"idle", "asked", "answered"}, answer: Seq(ListRow), late: BOOLEAN]
<1>1. /\ fetches[f].pc = "answered" /\ list' = fetches[f].answer /\ overtaken' = fetches[f].late
      /\ revived' = FALSE /\ fetches' = [Late EXCEPT ![f] = NoFetch] /\ reachable' = TRUE
      /\ UNCHANGED server /\ client' = client /\ wire' = wire /\ wsState' = wsState
  BY DEF ListArrives
<1>2. FeedTypes /\ fetches \in [Fetch -> R]
  BY DEF FeedInv, FeedTypes
<1>3. /\ Late \in [Fetch -> R]
      /\ \A e \in Fetch : /\ Late[e].pc = fetches[e].pc
                          /\ fetches[e].pc # "idle" => Late[e].pc = "asked" \/ Late[e].late
  BY <1>2, LateAnswers
<1>4. fetches' \in [Fetch -> R] /\ fetches'[f].pc = "idle" /\ \A e \in Fetch : e # f => fetches'[e] = Late[e]
  <2>1. NoFetch \in R /\ NoFetch.pc = "idle"
    BY DEF NoFetch
  <2> HIDE DEF R
  <2> QED
    BY <1>1, <1>3, <2>1
<1>5. FeedTypes'
  <2>1. overtaken' \in BOOLEAN /\ revived' \in BOOLEAN
    BY <1>1, <1>2
  <2> QED
    BY <1>1, <1>2, <1>4, <2>1, ServerStays DEF FeedTypes
<1>6. SocketInv'
  BY <1>1 DEF FeedInv, SocketInv, SocketOK
<1>7. Captures' = s
  BY <1>1, ServerStays
<1>8. \A e \in Fetch : fetches'[e].pc # "idle" => e # f /\ fetches[e].pc # "idle" /\ Sound(e)'
  <2> TAKE e \in Fetch
  <2> HAVE fetches'[e].pc # "idle"
  <2>1. e # f /\ fetches'[e] = Late[e]
    BY <1>4
  <2>2. fetches[e].pc # "idle" /\ (fetches'[e].pc = "asked" \/ fetches'[e].late)
    BY <1>3, <2>1
  <2> QED
    BY <2>1, <2>2 DEF Sound
<1>9. ListInv'
  <2> SUFFICES ASSUME client, wsState = "live"
               PROVE  \/ \E e \in Fetch : fetches'[e].pc # "idle" /\ Sound(e)'
                      \/ overtaken' \/ Heals(list', wire, s)
    BY <1>1, <1>7, <1>8 DEF ListInv
  <2>1. CASE Sound(f)
    BY <1>1, <2>1 DEF Sound
  <2>2. CASE ~Sound(f)
    <3>1. \E e \in Fetch : fetches[e].pc # "idle" /\ Sound(e)
      BY <1>1, <2>2 DEF FeedInv, ListInv
    <3>2. PICK e \in Fetch : fetches[e].pc # "idle" /\ Sound(e)
      BY <3>1
    <3>3. e # f /\ fetches'[e] = Late[e]
      BY <1>4, <2>2, <3>2
    <3>4. fetches'[e].pc # "idle"
      BY <1>3, <3>2, <3>3
    <3> QED
      BY <1>8, <3>4
  <2> QED
    BY <2>1, <2>2
<1> QED
  BY <1>1, <1>5, <1>6, <1>7, <1>9, ServerStays DEF FeedInv

-----------------------------------------------------------------------------
\* When nothing is under way, a list that is right shows the newest rows.
LEMMA ShownRows ==
  ASSUME FeedAssumption, FeedInv, AsOf(list, Captures)
  PROVE  /\ Len(list) = Min({MaxList, Cardinality(Present)})
         /\ \A k \in DOMAIN list : list[k].state = stored[list[k].id] /\ Rank(list[k].id) = k
<1> DEFINE s == Captures
           n == s.g - Base(s) + 1
           c == s.g - s.low + 1
<1>1. /\ s \in Table /\ s.g = given /\ s.st = stored
      /\ s.g \in Nat /\ s.low \in Nat /\ Base(s) \in Nat /\ Base(s) >= s.low /\ Base(s) <= s.g + 1
      /\ s.low <= s.g + 1 /\ MaxList \in Nat
      /\ Base(s) = IF s.low >= s.g - MaxList + 1 THEN s.low ELSE s.g - MaxList + 1
  BY CapturesAre, TableFacts, FeedSizes DEF Base
<1>2. list \in Seq(ListRow) /\ Len(list) = n /\ \A k \in 1 .. Len(list) : list[k] = Shown(s, s.g - k + 1)
  BY DEF AsOf
<1> HIDE DEF s
<1>3. Present = s.low .. s.g /\ Cardinality(Present) = c /\ \A i \in Present : Rank(i) = s.g - i + 1
  BY <1>1, RowsAre
<1>4. Min({MaxList, c}) = n
  <2>1. c \in Nat /\ n \in Nat /\ n = IF c <= MaxList THEN c ELSE MaxList
    BY <1>1
  <2> HIDE DEF c, n
  <2> QED
    BY <1>1, <2>1 DEF Min
<1>5. \A k \in DOMAIN list : list[k].state = stored[list[k].id] /\ Rank(list[k].id) = k
  <2> TAKE k \in DOMAIN list
  <2>1. k \in 1 .. Len(list) /\ k \in 1 .. n
    BY <1>2
  <2>2. list[k] = Shown(s, s.g - k + 1)
    BY <1>2, <2>1
  <2>3. list[k].id = s.g - k + 1 /\ list[k].state = s.st[s.g - k + 1]
    BY <2>2 DEF Shown
  <2>4. s.g - k + 1 \in s.low .. s.g /\ s.g - (s.g - k + 1) + 1 = k
    <3> DEFINE g == s.g
               b == Base(s)
               low == s.low
    <3>1. g \in Nat /\ b \in Nat /\ low \in Nat /\ b >= low /\ k \in 1 .. g - b + 1
      BY <1>1, <2>1
    <3> HIDE DEF g, b, low
    <3>2. g - k + 1 \in low .. g /\ g - (g - k + 1) + 1 = k
      BY <3>1
    <3> QED
      BY <3>2 DEF g, low
  <2> QED
    BY <1>1, <1>3, <2>3, <2>4
<1> QED
  BY <1>2, <1>3, <1>4, <1>5

\* FeedAgrees follows.
LEMMA FeedSafe ==
  ASSUME FeedAssumption, FeedInv PROVE FeedAgrees
<1> DEFINE s == Captures
<1> SUFFICES ASSUME wsState = "live", wire = <<>>, \A f \in Fetch : fetches[f].pc = "idle", ~overtaken, ~revived
             PROVE  AsOf(list, s)
  BY ShownRows DEF FeedAgrees
<1>1. client
  BY DEF FeedInv, SocketInv, SocketOK
<1>2. Heals(list, wire, s)
  BY <1>1 DEF FeedInv, ListInv
<1>3. s \in Table
  BY CapturesAre
<1> HIDE DEF s
<1>4. Len(wire) = 0
  OBVIOUS
<1>5. ~ClearedFrom(wire, 0)
  BY <1>4 DEF ClearedFrom
<1>6. PICK h : HealsBy(list, wire, s, h)
  BY <1>2, <1>5 DEF Heals
<1>7. h[0] = s
  BY <1>4, <1>6 DEF HealsBy, Traces
<1>8. CASE AsOf(list, h[0])
  BY <1>7, <1>8
<1>9. ASSUME NEW j \in 0 .. Len(wire), Ahead(list, h[0], h[j]) \/ Mixed(list, h[0], h[j]) PROVE AsOf(list, s)
  <2>1. j = 0
    BY <1>4
  <2>2. Ahead(list, s, s) \/ Mixed(list, s, s)
    BY <1>7, <1>9, <2>1
  <2> QED
    BY <1>3, <2>2, CaughtUp
<1> QED
  BY <1>6, <1>8, <1>9 DEF HealsBy

\* Each step keeps what is said of the list.
LEMMA FeedSteps ==
  ASSUME FeedAssumption, FeedInv, FeedNext PROVE FeedInv'
<1>1. CASE InsertEarlyCapture
  BY <1>1, InsertSteps
<1>2. CASE PostClear
  BY <1>2, ClearSteps
<1>3. CASE FeedRestart
  BY <1>3, RestartSteps
<1>4. CASE Breaks
  BY <1>4, BreakSteps
<1>5. ASSUME NEW i \in Row, TellState(i) \/ TellUpdate(i) \/ TellP50(i) \/ Flushed(i) \/ Dropped(i)
      PROVE  FeedInv'
  BY <1>5, StateSteps
<1>6. CASE Connect
  BY <1>6, ConnectSteps
<1>7. CASE OnMessage
  BY <1>7, MessageSteps
<1>8. CASE OnClose
  BY <1>8, CloseSteps
<1>9. ASSUME NEW f \in Fetch, OnOpen(f) PROVE FeedInv'
  BY <1>9, OpenSteps
<1>10. ASSUME NEW f \in Fetch, RetryList(f) PROVE FeedInv'
  BY <1>10, RetrySteps
<1>11. ASSUME NEW f \in Fetch, GetCaptures(f) PROVE FeedInv'
  BY <1>11, GetSteps
<1>12. ASSUME NEW f \in Fetch, ListArrives(f) PROVE FeedInv'
  BY <1>12, ArriveSteps
<1>13. ASSUME NEW f \in Fetch, ListFails(f) PROVE FeedInv'
  BY <1>13, FailSteps
<1> QED
  BY <1>1, <1>2, <1>3, <1>4, <1>5, <1>6, <1>7, <1>8, <1>9, <1>10, <1>11, <1>12, <1>13 DEF FeedNext

\* A step that leaves the feed alone.
LEMMA FeedStands ==
  ASSUME FeedInv, UNCHANGED feedVars PROVE FeedInv'
<1>1. /\ UNCHANGED server /\ client' = client /\ wire' = wire /\ wsState' = wsState /\ reachable' = reachable
      /\ fetches' = fetches /\ list' = list /\ overtaken' = overtaken /\ revived' = revived
  BY DEF feedVars, server
<1>2. Captures' = Captures
  BY <1>1, ServerStays
<1>3. \A f : Sound(f)' <=> Sound(f)
  BY <1>1, <1>2 DEF Sound
<1>4. ListInv'
  BY <1>1, <1>2, <1>3 DEF FeedInv, ListInv
<1>5. FeedTypes'
  BY <1>1, ServerStays DEF FeedInv, FeedTypes
<1>6. SocketInv'
  BY <1>1 DEF FeedInv, SocketInv, SocketOK
<1> QED
  BY <1>1, <1>2, <1>4, <1>5, <1>6 DEF FeedInv

\* However messages, answers, lost connections, failed loads, clears and restarts
\* interleave, a dashboard that says it is live and has nothing under way shows the
\* newest rows in their states, but for the two orders that FeedAgrees excepts
\* (ws.ts, use-captures-socket.ts, use-capture-list.ts).
THEOREM ListAgrees ==
  FeedInit /\ [][FeedNext]_feedVars => []FeedAgrees
<1>1. FeedInit => FeedInv
  BY FeedAssumption, FeedStarts
<1>2. FeedInv /\ [FeedNext]_feedVars => FeedInv'
  BY FeedAssumption, FeedSteps, FeedStands
<1>3. FeedInv => FeedAgrees
  BY FeedAssumption, FeedSafe
<1> QED
  BY <1>1, <1>2, <1>3, PTL
==============================================================================
