--------------------------- MODULE DescriptionStore ---------------------------
(***************************************************************************)
(* The cache of image descriptions: an LRU map in memory (vision/cache.ts) *)
(* over a table (vision-description-store.ts) that is written behind       *)
(* (vision/persistent-cache.ts). All of it is synchronous code, so an      *)
(* operation is an operator from one store to the next; one that may fail  *)
(* or evict yields the set of stores it may lead to.                       *)
(*                                                                         *)
(* A key is an image and a context; NoCtx is the image-only tier.          *)
(***************************************************************************)
EXTENDS Naturals, FiniteSets, Sequences, SequencesExt

CONSTANTS Img, Ctx, NoCtx, NoImg,
          FlushBatch,   \* visionPendingMaxBatch
          MaxFlushes,   \* MAX_FLUSH_RETRIES
          MaxRows,      \* visionCacheMaxRows
          Faults        \* database calls that may throw

ASSUME StoreAssumption ==
  /\ NoCtx \in Ctx /\ NoImg \notin Img
  /\ FlushBatch \in Nat \ {0} /\ MaxFlushes \in Nat \ {0} /\ MaxRows \in Nat
  /\ Faults \subseteq {"read", "evict", "flush", "insert", "update", "state"}

Key == Img \X Ctx

\* A description of an image, by the question that was asked (the fixed prompt,
\* the user's, a sub-question); the placeholder of a failure; the empty string
\* that stands for no result; and no entry.
Described(i, q) == [kind |-> "ok", img |-> i, asked |-> q]
Failed == [kind |-> "failed", img |-> NoImg, asked |-> "none"]
Empty  == [kind |-> "empty", img |-> NoImg, asked |-> "none"]
None   == [kind |-> "none", img |-> NoImg, asked |-> "none"]
Desc == {Described(i, q) : i \in Img, q \in {"plain", "ask", "sub"}}
        \cup {Failed, Empty}

\* What the caches keep. "persist" is visionPersistentCache. Two ghosts serve the
\* properties: "fallen", the keys that lost their last write (its batch was given
\* up, or the process ended before the flush), and "latest", what was last written.
EmptyStore(persist) ==
  [persist |-> persist, lru |-> [k \in Key |-> None], pend |-> <<>>, timer |-> FALSE, retries |-> 0,
   rows |-> [k \in Key |-> [desc |-> None, old |-> FALSE]],
   latest |-> [k \in Key |-> None], fallen |-> {}]

-----------------------------------------------------------------------------
\* PersistentDescriptionStore.get(): the newest pending write, then the row;
\* neither counts once it is older than the TTL.
PersistentGet(s, k) ==
  LET mine == {j \in DOMAIN s.pend : s.pend[j].key = k}
      entry == IF mine # {} THEN s.pend[CHOOSE j \in mine : \A l \in mine : l <= j]
               ELSE s.rows[k]
  IN IF entry.old THEN None ELSE entry.desc

\* One tier: memory, then the persistent store, whose answer goes to memory.
Tier(s, k) ==
  LET found == IF s.lru[k] # None THEN s.lru[k] ELSE PersistentGet(s, k)
  IN [desc |-> found, store |-> [s EXCEPT !.lru[k] = found]]

\* The first half of getOrCompute(): with a context, the image-only tier is
\* asked as well and its answer promoted into the context's tier.
Lookup(s, i, c) ==
  LET own == Tier(s, <<i, c>>)
      imageOnly == Tier(own.store, <<i, NoCtx>>)
  IN IF own.desc # None \/ c = NoCtx THEN own
     ELSE IF imageOnly.desc = None THEN imageOnly
     ELSE [desc |-> imageOnly.desc,
           store |-> [imageOnly.store EXCEPT !.lru[<<i, c>>] = imageOnly.desc]]

-----------------------------------------------------------------------------
\* Mutant: on a conflict the times are replaced, the description is not.
UpsertedTouch(s) ==
  [k \in Key |->
     LET mine == {j \in DOMAIN s.pend : s.pend[j].key = k} IN
     IF mine = {} THEN s.rows[k]
     ELSE LET last == s.pend[CHOOSE j \in mine : \A l \in mine : l <= j]
          IN [desc |-> IF s.rows[k].desc # None THEN s.rows[k].desc ELSE last.desc,
              old |-> last.old]]

\* The transaction of flushNow(): upserts in order, so the last one stands.
Upserted(s) ==
  [k \in Key |->
     LET mine == {j \in DOMAIN s.pend : s.pend[j].key = k} IN
     IF mine = {} THEN s.rows[k]
     ELSE LET last == s.pend[CHOOSE j \in mine : \A l \in mine : l <= j]
          IN [desc |-> last.desc, old |-> last.old]]

Abandoned(s) == s.fallen \cup {s.pend[j].key : j \in DOMAIN s.pend}

\* flushNow(): a failed batch goes back in front of the queue, until the
\* third failure in a row drops it. The timer is not set again.
FlushNow(s) ==
  LET written == [s EXCEPT !.timer = FALSE, !.pend = <<>>, !.rows = Upserted(s), !.retries = 0]
      requeued == [s EXCEPT !.timer = FALSE, !.retries = @ + 1]
      dropped == [s EXCEPT !.timer = FALSE, !.retries = 0, !.pend = <<>>,
                           !.fallen = Abandoned(s)]
  IN IF s.pend = <<>> THEN {[s EXCEPT !.timer = FALSE]}
     ELSE {written} \cup
          (IF "flush" \notin Faults THEN {}
           ELSE {IF s.retries + 1 >= MaxFlushes THEN dropped ELSE requeued})

\* evict(): expired rows go, then the least recently used above the ceiling.
\* Which rows were used least recently is left open.
Evicted(s) ==
  LET fresh == {k \in Key : s.rows[k].desc # None /\ ~s.rows[k].old}
      kept == IF Cardinality(fresh) <= MaxRows THEN {fresh}
              ELSE {S \in SUBSET fresh : Cardinality(S) = MaxRows}
  IN {[s EXCEPT !.rows = [k \in Key |-> IF k \in S THEN s.rows[k] ELSE [desc |-> None, old |-> FALSE]]]
        : S \in kept}

\* PersistentDescriptionStore.set(): queue, flush or set the timer, and once
\* a minute evict. "ok" is FALSE when the eviction throws.
PersistentSet(s, k, d) ==
  LET queued == [s EXCEPT !.pend = Append(@, [key |-> k, desc |-> d, old |-> FALSE]),
                          !.latest[k] = d, !.fallen = @ \ {k}]
      after == IF Len(queued.pend) >= FlushBatch THEN FlushNow(queued)
               ELSE {[queued EXCEPT !.timer = TRUE]}
  IN IF ~s.persist THEN {[ok |-> TRUE, store |-> s]}
     ELSE {[ok |-> TRUE, store |-> t] : t \in after \cup UNION {Evicted(u) : u \in after}}
          \cup {[ok |-> FALSE, store |-> t] : t \in IF "evict" \in Faults THEN after ELSE {}}

\* storeDual(), and the single write of getOrCompute() without a context:
\* memory first, then the persistent store; the second write is skipped when
\* the first one throws.
StoreDescription(s, i, c, d) ==
  LET inMemory == [s EXCEPT !.lru[<<i, c>>] = d, !.lru[<<i, NoCtx>>] = d]
      first == PersistentSet(inMemory, <<i, c>>, d)
  IN IF c = NoCtx THEN first
     ELSE {a \in first : ~a.ok}
          \cup UNION {PersistentSet(a.store, <<i, NoCtx>>, d) : a \in {b \in first : b.ok}}

\* Mutant: a failure is stored like a description.
CacheableAny(d) == TRUE

\* The isCacheable callback of processImage(): not a failure placeholder.
Cacheable(d) == d.kind = "ok"

\* getOrCompute() with a computed value: what is cached wins, otherwise the
\* value is stored if it may be. "desc" is what the caller gets.
GetOrCompute(s, i, c, d) ==
  LET hit == Lookup(s, i, c) IN
  IF hit.desc # None THEN {[ok |-> TRUE, store |-> hit.store, desc |-> hit.desc]}
  ELSE IF ~Cacheable(d) THEN {[ok |-> TRUE, store |-> hit.store, desc |-> d]}
  ELSE {[ok |-> a.ok, store |-> a.store, desc |-> d] : a \in StoreDescription(hit.store, i, c, d)}

-----------------------------------------------------------------------------
\* Time: the LRU map drops an entry (full, or its TTL); a key's persistent
\* entries pass their TTL. The two clocks differ: warming and promotion start
\* the first one anew.
Forgotten(s, k) == [s EXCEPT !.lru[k] = None]

Expired(s, k) ==
  [s EXCEPT !.rows[k].old = (s.rows[k].desc # None),
            !.pend = [j \in DOMAIN s.pend |->
                        [s.pend[j] EXCEPT !.old = @ \/ s.pend[j].key = k]]]

\* close() at the end of a shutdown (one more flush), or a crash; then the
\* next start reads fresh rows back into memory.
Warmed(s) ==
  [s EXCEPT !.lru = [k \in Key |-> IF s.rows[k].old THEN None ELSE s.rows[k].desc],
            !.pend = <<>>, !.timer = FALSE, !.retries = 0, !.fallen = Abandoned(s)]

Restarted(s) == {Warmed(t) : t \in FlushNow(s) \cup {s}}
=============================================================================
