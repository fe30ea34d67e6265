----------------------------- MODULE Economics -----------------------------
(***************************************************************************)
(* Daily cost accounting, src/src/economics.ts: the model_pricing table    *)
(* with its seed, the daily_usage rows that every accounted capture adds   *)
(* to (when a capture is accounted is the subject of Captures.tla), and    *)
(* syncPricing(), which writes the prices in one transaction and           *)
(* recomputes unpriced rows in another.                                    *)
(*                                                                         *)
(* Prices are whole milli-dollars per million tokens and costs the         *)
(* products of tokens and prices, so nothing is rounded but the estimate   *)
(* of the cache price.  Output and cache creation tokens are priced from   *)
(* the same API answer as input tokens, and are counted with them.         *)
(***************************************************************************)
EXTENDS Integers

CONSTANTS
  Models, Days,
  Seed,         \* SEED_PRICING: a function from some models to prices
  ApiPrices,    \* the input prices the API may answer
  Usages,       \* the token counts of a capture: [in, cr]
  MaxRequests,  \* bound on the captures accounted
  Modes         \* how the process may be run, see Mode

\* useWorker: captures are accounted by another connection, hence between the
\* two transactions, too.  txFails: the transaction of the backfill may fail.
Mode == [useWorker: BOOLEAN, txFails: BOOLEAN]

ASSUME EconomicsAssumption ==
  /\ DOMAIN Seed \subseteq Models
  /\ \A s \in DOMAIN Seed : Seed[s].in \in Nat /\ Seed[s].cr \in Nat /\ Seed[s].known = 0
  /\ ApiPrices \subseteq Nat
  /\ \A u \in Usages : u.in \in Nat /\ u.cr \in Nat
  /\ Modes \subseteq Mode

NoPricing == [in |-> 0, cr |-> 0, known |-> -1]
NoUsage == [req |-> 0, in |-> 0, cr |-> 0, cost |-> 0, known |-> 0]

VARIABLES
  pricing,   \* model_pricing; known = -1: the model has no row
  daily,     \* daily_usage by day and model; req = 0: no row
  pc,        \* "down", "backfill" (between the two transactions), "up"
  unpriced,  \* ghost: requests of a row that are in it at no price
  mode       \* never changes

econVars == <<pricing, daily, pc, unpriced, mode>>

HasPricing(m) == pricing[m].known >= 0

(***************************************************************************)
(* accountCapturesUsage(): the upsert of one capture.                      *)
(***************************************************************************)
Accounted(r, u, p) ==
  [req   |-> r.req + 1,
   in    |-> r.in + u.in,
   cr    |-> r.cr + u.cr,
   cost  |-> r.cost + u.in * p.in + u.cr * p.cr,
   known |-> IF p.known = 1 THEN 1 ELSE 0]

Account(d, m, u) ==
  /\ pc = "up" \/ (pc = "backfill" /\ mode.useWorker)
  /\ daily' = [daily EXCEPT ![d][m] = Accounted(@, u, pricing[m])]
  /\ unpriced' = [unpriced EXCEPT ![d][m] = IF HasPricing(m) THEN @ ELSE @ + 1]
  /\ UNCHANGED <<pricing, pc, mode>>

(***************************************************************************)
(* syncPricing().                                                          *)
(***************************************************************************)
\* Math.round(input * CACHE_READ_RATIO * 1000) / 1000
EstimatedCacheRead(in) == (in * 186 + 500) \div 1000

\* The upsert of one model: the price from the API, the cache price kept.
Synced(p, in) ==
  [in    |-> in,
   cr    |-> IF p.cr > 0 THEN p.cr ELSE EstimatedCacheRead(in),
   known |-> 1]

\* The first transaction, for the models the API has a price for.
SyncPrices ==
  /\ pc = "up"
  /\ \E L \in SUBSET Models, in \in [Models -> ApiPrices] :
       pricing' = [m \in Models |-> IF m \in L THEN Synced(pricing[m], in[m])
                                    ELSE pricing[m]]
  /\ pc' = "backfill"
  /\ UNCHANGED <<daily, unpriced, mode>>

Recomputed(r, p) == [r EXCEPT !.cost = r.in * p.in + r.cr * p.cr, !.known = 1]

\* JOIN model_pricing ... WHERE du.pricing_known = 0
ToBackfill(r, m) == r.req > 0 /\ HasPricing(m) /\ r.known = 0

\* backfillUnpricedDailyUsage(), the second transaction.
Backfill ==
  /\ pc = "backfill"
  /\ daily' = [d \in Days |-> [m \in Models |->
       IF ToBackfill(daily[d][m], m) THEN Recomputed(daily[d][m], pricing[m])
       ELSE daily[d][m]]]
  /\ unpriced' = [d \in Days |-> [m \in Models |->
       IF ToBackfill(daily[d][m], m) THEN 0 ELSE unpriced[d][m]]]
  /\ pc' = "up"
  /\ UNCHANGED <<pricing, mode>>

\* It throws; the caller logs the error and goes on.
BackfillFails ==
  /\ mode.txFails
  /\ pc = "backfill"
  /\ pc' = "up"
  /\ UNCHANGED <<pricing, daily, unpriced, mode>>

(***************************************************************************)
(* Start and stop of the process.                                          *)
(***************************************************************************)
\* Mutant: the price list is only synced when the API has answered.
AfterOpenUp == "up"

\* createProxyServer() syncs an empty list at once, so the backfill runs
\* before the first request.
AfterOpen == "backfill"

\* migrateEconomicsSchema(): the seed, if model_pricing is empty.
Open ==
  /\ pc = "down"
  /\ pricing' = IF \E m \in Models : HasPricing(m) THEN pricing
                ELSE [m \in Models |-> IF m \in DOMAIN Seed THEN Seed[m] ELSE pricing[m]]
  /\ pc' = AfterOpen
  /\ UNCHANGED <<daily, unpriced, mode>>

Stop ==
  /\ pc # "down"
  /\ pc' = "down"
  /\ UNCHANGED <<pricing, daily, unpriced, mode>>

EconInit ==
  /\ pricing = [m \in Models |-> NoPricing]
  /\ daily = [d \in Days |-> [m \in Models |-> NoUsage]]
  /\ unpriced = [d \in Days |-> [m \in Models |-> 0]]
  /\ pc = "down"
  /\ mode \in Modes

EconNext ==
  \/ \E d \in Days, m \in Models, u \in Usages :
       daily[d][m].req < MaxRequests /\ Account(d, m, u)
  \/ SyncPrices \/ Backfill \/ BackfillFails
  \/ Open \/ Stop


(***************************************************************************)
(* Properties.                                                             *)
(***************************************************************************)
\* What the header of economics.ts says: requests accumulated at $0 for lack of
\* a price are corrected, so a row marked as priced contains none.
RowsPriced ==
  \A d \in Days, m \in Models : daily[d][m].known = 1 => unpriced[d][m] = 0

\* It is so as long as the correction itself does not fail and only one
\* connection accounts captures, although the prices and the correction of the
\* rows are two transactions and the process may stop between them.
KnownIsPriced == ~mode.useWorker /\ ~mode.txFails => RowsPriced

=============================================================================
