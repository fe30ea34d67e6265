---------------------------- MODULE VisionProofs ----------------------------
(***************************************************************************)
(* Proofs about Vision and the DescriptionStore under it, for any number of*)
(* requests, images and questions, every size of the batches and of the    *)
(* table, and every failure; and about VisionBody, for every body.         *)
(***************************************************************************)
EXTENDS Vision, VisionBody, SequenceLemmas, TLAPS

(***************************************************************************)
(* The store.                                                              *)
(***************************************************************************)
\* A description that may stand under a key, in memory and on its way to the
\* table: of the key's image, and there an answer to the key's question too.
Fits(k, d) == d \in Desc /\ d.kind = "ok" /\ d.img = k[1]
Answers(k, d) == Fits(k, d) /\ (k[2] # NoCtx => d.asked = k[2][1])

Write == [key: Key, desc: Desc, old: BOOLEAN]
Store == [persist: BOOLEAN, lru: [Key -> Desc \cup {None}], pend: Seq(Write), timer: BOOLEAN,
          retries: Nat, rows: [Key -> [desc: Desc \cup {None}, old: BOOLEAN]],
          latest: [Key -> Desc \cup {None}], fallen: SUBSET Key]

\* The pending writes of a key, and the one that counts.
Mine(s, k) == {j \in DOMAIN s.pend : s.pend[j].key = k}
Newest(s, k) == CHOOSE j \in Mine(s, k) : \A l \in Mine(s, k) : l <= j

MemoryFits(s) == \A k \in Key : s.lru[k] # None => Fits(k, s.lru[k])
RowsFit(s) == \A k \in Key : s.rows[k].desc # None => Answers(k, s.rows[k].desc)
PendingFits(s) == \A j \in DOMAIN s.pend : Answers(s.pend[j].key, s.pend[j].desc)

\* What is read for a key that has lost no write: its newest pending write is
\* the last one, and without one its row is, unless it is gone.
LatestKept(s) ==
  \A k \in Key \ s.fallen :
    IF Mine(s, k) # {} THEN s.pend[Newest(s, k)].desc = s.latest[k]
    ELSE s.rows[k].desc \in {None, s.latest[k]}

StoreOK(s) == s \in Store /\ MemoryFits(s) /\ RowsFit(s) /\ PendingFits(s) /\ LatestKept(s)

-----------------------------------------------------------------------------
\* The newest pending write of a key is one of them.
LEMMA NewestIsMine ==
  ASSUME NEW s \in Store, NEW k, Mine(s, k) # {}
  PROVE  /\ Newest(s, k) \in Mine(s, k) /\ Newest(s, k) \in DOMAIN s.pend
         /\ \A l \in Mine(s, k) : l <= Newest(s, k)
         /\ s.pend[Newest(s, k)] \in Write /\ s.pend[Newest(s, k)].key = k
<1>1. s.pend \in Seq(Write)
  BY DEF Store
<1>2. Mine(s, k) \in SUBSET (1 .. Len(s.pend)) /\ Len(s.pend) \in Nat
  BY <1>1 DEF Mine
<1>3. \E j \in Mine(s, k) : \A l \in Mine(s, k) : l <= j
  BY <1>2, LastPosition
<1>4. Newest(s, k) \in Mine(s, k) /\ \A l \in Mine(s, k) : l <= Newest(s, k)
  BY <1>3 DEF Newest
<1> QED
  BY <1>1, <1>4 DEF Mine

\* get() of the persistent store: nothing, or an answer of the key that is the
\* last one written if the key lost none.
LEMMA Got ==
  ASSUME NEW s, StoreOK(s), NEW k \in Key
  PROVE  /\ PersistentGet(s, k) # None => Answers(k, PersistentGet(s, k))
         /\ k \notin s.fallen => PersistentGet(s, k) \in {None, s.latest[k]}
<1> DEFINE entry == IF Mine(s, k) # {} THEN s.pend[Newest(s, k)] ELSE s.rows[k]
<1>1. PersistentGet(s, k) = IF entry.old THEN None ELSE entry.desc
  BY DEF PersistentGet, Mine, Newest
<1>2. s \in Store /\ RowsFit(s) /\ PendingFits(s) /\ LatestKept(s)
  BY DEF StoreOK
<1>3. CASE Mine(s, k) # {}
  <2>1. Newest(s, k) \in DOMAIN s.pend /\ s.pend[Newest(s, k)].key = k
    BY <1>2, <1>3, NewestIsMine
  <2>2. Answers(k, entry.desc)
    BY <1>2, <1>3, <2>1 DEF PendingFits
  <2>3. k \notin s.fallen => entry.desc = s.latest[k]
    BY <1>2, <1>3 DEF LatestKept
  <2> HIDE DEF entry
  <2> QED
    BY <1>1, <2>2, <2>3
<1>4. CASE Mine(s, k) = {}
  <2>1. entry.desc # None => Answers(k, entry.desc)
    BY <1>2, <1>4 DEF RowsFit
  <2>2. k \notin s.fallen => entry.desc \in {None, s.latest[k]}
    BY <1>2, <1>4 DEF LatestKept
  <2> HIDE DEF entry
  <2> QED
    BY <1>1, <2>1, <2>2
<1> QED
  BY <1>3, <1>4

-----------------------------------------------------------------------------
\* A store whose memory alone changes, and still fits, is as good.
LEMMA MemoryChanged ==
  ASSUME NEW s, StoreOK(s), NEW m \in [Key -> Desc \cup {None}],
         \A k \in Key : m[k] # None => Fits(k, m[k])
  PROVE  /\ StoreOK([s EXCEPT !.lru = m])
         /\ [s EXCEPT !.lru = m].lru = m /\ [s EXCEPT !.lru = m].persist = s.persist
<1> DEFINE t == [s EXCEPT !.lru = m]
<1>1. /\ t \in Store /\ t.lru = m /\ t.pend = s.pend /\ t.rows = s.rows
      /\ t.latest = s.latest /\ t.fallen = s.fallen /\ t.persist = s.persist
  BY DEF StoreOK, Store
<1> HIDE DEF t
<1>2. MemoryFits(t) /\ RowsFit(t) /\ PendingFits(t)
  BY <1>1 DEF StoreOK, MemoryFits, RowsFit, PendingFits
<1>3. \A k : Mine(t, k) = Mine(s, k) /\ Newest(t, k) = Newest(s, k)
  BY <1>1 DEF Mine, Newest
<1>4. LatestKept(t)
  BY <1>1, <1>3 DEF StoreOK, LatestKept
<1> QED
  BY <1>1, <1>2, <1>4 DEF StoreOK, t

\* One entry of the memory changes.
LEMMA EntryChanged ==
  ASSUME NEW s, StoreOK(s), NEW k \in Key, NEW d, d = None \/ Fits(k, d)
  PROVE  /\ StoreOK([s EXCEPT !.lru[k] = d])
         /\ [s EXCEPT !.lru[k] = d].persist = s.persist
         /\ [s EXCEPT !.lru[k] = d].lru = [s.lru EXCEPT ![k] = d]
<1> DEFINE m == [s.lru EXCEPT ![k] = d]
<1>1. s.lru \in [Key -> Desc \cup {None}] /\ MemoryFits(s)
  BY DEF StoreOK, Store
<1>2. d \in Desc \cup {None}
  BY DEF Fits
<1>3. m \in [Key -> Desc \cup {None}] /\ \A q \in Key : m[q] # None => Fits(q, m[q])
  BY <1>1, <1>2 DEF MemoryFits
<1>4. [s EXCEPT !.lru[k] = d] = [s EXCEPT !.lru = m]
  BY DEF StoreOK, Store
<1> HIDE DEF m
<1>5. /\ StoreOK([s EXCEPT !.lru = m])
      /\ [s EXCEPT !.lru = m].lru = m /\ [s EXCEPT !.lru = m].persist = s.persist
  BY <1>3, MemoryChanged
<1> QED
  BY <1>4, <1>5 DEF m

\* One tier is asked: what is found fits and goes to memory.
LEMMA TierKeeps ==
  ASSUME NEW s, StoreOK(s), NEW k \in Key
  PROVE  /\ StoreOK(Tier(s, k).store) /\ Tier(s, k).store.persist = s.persist
         /\ Tier(s, k).desc # None => Fits(k, Tier(s, k).desc)
<1> DEFINE found == IF s.lru[k] # None THEN s.lru[k] ELSE PersistentGet(s, k)
           t == [s EXCEPT !.lru[k] = found]
<1>1. Tier(s, k) = [desc |-> found, store |-> t]
  BY DEF Tier
<1>2. found = None \/ Fits(k, found)
  <2>1. CASE s.lru[k] # None
    BY <2>1 DEF StoreOK, MemoryFits
  <2>2. CASE s.lru[k] = None
    BY <2>2, Got DEF Answers
  <2> QED
    BY <2>1, <2>2
<1> HIDE DEF found
<1>3. StoreOK(t) /\ t.persist = s.persist
  BY <1>2, EntryChanged
<1> HIDE DEF t
<1> QED
  BY <1>1, <1>2, <1>3

\* Both tiers: a description of the image, if any.
LEMMA LookupKeeps ==
  ASSUME NEW s, StoreOK(s), NEW i \in Img, NEW c \in Ctx
  PROVE  /\ StoreOK(Lookup(s, i, c).store) /\ Lookup(s, i, c).store.persist = s.persist
         /\ Lookup(s, i, c).desc # None => Fits(<<i, c>>, Lookup(s, i, c).desc)
<1> DEFINE own == Tier(s, <<i, c>>)
           imageOnly == Tier(own.store, <<i, NoCtx>>)
           promoted == [imageOnly.store EXCEPT !.lru[<<i, c>>] = imageOnly.desc]
<1>1. Lookup(s, i, c) = IF own.desc # None \/ c = NoCtx THEN own
                        ELSE IF imageOnly.desc = None THEN imageOnly
                        ELSE [desc |-> imageOnly.desc, store |-> promoted]
  BY DEF Lookup
<1>2. <<i, c>> \in Key /\ <<i, NoCtx>> \in Key
  BY StoreAssumption DEF Key
<1>3. StoreOK(own.store) /\ own.store.persist = s.persist
      /\ (own.desc # None => Fits(<<i, c>>, own.desc))
  BY <1>2, TierKeeps
<1> HIDE DEF own
<1>4. StoreOK(imageOnly.store) /\ imageOnly.store.persist = own.store.persist
      /\ (imageOnly.desc # None => Fits(<<i, NoCtx>>, imageOnly.desc))
  BY <1>2, <1>3, TierKeeps
<1> HIDE DEF imageOnly
<1>5. imageOnly.desc # None => Fits(<<i, c>>, imageOnly.desc)
  BY <1>4 DEF Fits
<1>6. imageOnly.desc # None => StoreOK(promoted) /\ promoted.persist = imageOnly.store.persist
  BY <1>2, <1>4, <1>5, EntryChanged
<1> HIDE DEF promoted
<1> QED
  BY <1>1, <1>3, <1>4, <1>5, <1>6

-----------------------------------------------------------------------------
\* No write is pending after the queue was emptied.
LEMMA NonePending ==
  ASSUME NEW t, t.pend = <<>>
  PROVE  (\A k : Mine(t, k) = {}) /\ PendingFits(t)
BY DEF Mine, PendingFits

\* upserts: every key ends up with its newest pending write.
LEMMA UpsertedRows ==
  ASSUME NEW s, StoreOK(s)
  PROVE  /\ Upserted(s) \in [Key -> [desc: Desc \cup {None}, old: BOOLEAN]]
         /\ \A k \in Key : Upserted(s)[k].desc # None => Answers(k, Upserted(s)[k].desc)
         /\ \A k \in Key \ s.fallen : Upserted(s)[k].desc \in {None, s.latest[k]}
<1>0. s \in Store /\ RowsFit(s) /\ PendingFits(s) /\ LatestKept(s)
  BY DEF StoreOK
<1>1. \A k \in Key : Upserted(s)[k] = IF Mine(s, k) = {} THEN s.rows[k]
                        ELSE [desc |-> s.pend[Newest(s, k)].desc, old |-> s.pend[Newest(s, k)].old]
  BY DEF Upserted, Mine, Newest
<1>2. ASSUME NEW k \in Key
      PROVE  /\ Upserted(s)[k] \in [desc: Desc \cup {None}, old: BOOLEAN]
             /\ Upserted(s)[k].desc # None => Answers(k, Upserted(s)[k].desc)
             /\ k \notin s.fallen => Upserted(s)[k].desc \in {None, s.latest[k]}
  <2>1. CASE Mine(s, k) = {}
    <3>1. Upserted(s)[k] = s.rows[k] /\ s.rows[k] \in [desc: Desc \cup {None}, old: BOOLEAN]
      BY <1>0, <1>1, <2>1 DEF Store
    <3> QED
      BY <1>0, <2>1, <3>1 DEF RowsFit, LatestKept
  <2>2. CASE Mine(s, k) # {}
    <3>1. /\ s.pend[Newest(s, k)] \in Write /\ s.pend[Newest(s, k)].key = k
          /\ Newest(s, k) \in DOMAIN s.pend
      BY <1>0, <2>2, NewestIsMine
    <3>2. Upserted(s)[k] = [desc |-> s.pend[Newest(s, k)].desc, old |-> s.pend[Newest(s, k)].old]
      BY <1>1, <2>2
    <3>3. Upserted(s)[k] \in [desc: Desc \cup {None}, old: BOOLEAN]
      BY <3>1, <3>2 DEF Write
    <3>4. Answers(k, Upserted(s)[k].desc)
      BY <1>0, <3>1, <3>2 DEF PendingFits
    <3>5. k \notin s.fallen => Upserted(s)[k].desc = s.latest[k]
      BY <1>0, <2>2, <3>2 DEF LatestKept
    <3> QED
      BY <3>3, <3>4, <3>5
  <2> QED
    BY <2>1, <2>2
<1>3. Upserted(s) = [k \in Key |-> Upserted(s)[k]]
  BY DEF Upserted
<1> QED
  BY <1>2, <1>3

\* A store with an empty queue.
LEMMA DrainedOK ==
  ASSUME NEW s, StoreOK(s), NEW t \in Store, t.pend = <<>>, t.lru = s.lru, t.latest = s.latest,
         \A k \in Key : t.rows[k].desc # None => Answers(k, t.rows[k].desc),
         \A k \in Key \ t.fallen : t.rows[k].desc \in {None, t.latest[k]}
  PROVE  StoreOK(t)
<1>1. (\A k : Mine(t, k) = {}) /\ PendingFits(t)
  BY NonePending
<1>2. LatestKept(t)
  BY <1>1 DEF LatestKept
<1>3. MemoryFits(t) /\ RowsFit(t)
  BY DEF StoreOK, MemoryFits, RowsFit
<1> QED
  BY <1>1, <1>2, <1>3 DEF StoreOK

\* The rows of the keys that have not lost a write and have none pending.
LEMMA RestRows ==
  ASSUME NEW s, StoreOK(s)
  PROVE  /\ Abandoned(s) \in SUBSET Key /\ s.fallen \subseteq Abandoned(s)
         /\ \A k \in Key \ Abandoned(s) : s.rows[k].desc \in {None, s.latest[k]}
<1>0. s \in Store /\ LatestKept(s)
  BY DEF StoreOK
<1>1. \A j \in DOMAIN s.pend : s.pend[j].key \in Key
  <2>1. s.pend \in Seq(Write)
    BY <1>0 DEF Store
  <2>2. \A j \in DOMAIN s.pend : s.pend[j] \in Write
    BY <2>1
  <2> QED
    BY <2>2 DEF Write
<1>2. Abandoned(s) \in SUBSET Key /\ s.fallen \subseteq Abandoned(s)
  BY <1>0, <1>1 DEF Abandoned, Store
<1>3. ASSUME NEW k \in Key \ Abandoned(s) PROVE s.rows[k].desc \in {None, s.latest[k]}
  <2>1. Mine(s, k) = {} /\ k \notin s.fallen
    BY <1>3 DEF Abandoned, Mine
  <2> QED
    BY <1>0, <2>1 DEF LatestKept
<1> QED
  BY <1>2, <1>3

\* flushNow(): the batch is written, goes back, or is given up.
LEMMA FlushKeeps ==
  ASSUME NEW s, StoreOK(s), NEW t \in FlushNow(s)
  PROVE  StoreOK(t) /\ t.persist = s.persist
<1> DEFINE written == [s EXCEPT !.timer = FALSE, !.pend = <<>>, !.rows = Upserted(s), !.retries = 0]
           requeued == [s EXCEPT !.timer = FALSE, !.retries = @ + 1]
           dropped == [s EXCEPT !.timer = FALSE, !.retries = 0, !.pend = <<>>,
                                !.fallen = Abandoned(s)]
           untimed == [s EXCEPT !.timer = FALSE]
<1>0. s \in Store /\ FALSE \in BOOLEAN /\ <<>> \in Seq(Write) /\ s.retries + 1 \in Nat
  BY DEF StoreOK, Store
<1>1. t \in {written, requeued, dropped, untimed}
  BY DEF FlushNow
<1>2. CASE t = written
  <2>1. Upserted(s) \in [Key -> [desc: Desc \cup {None}, old: BOOLEAN]]
    BY UpsertedRows
  <2>2. /\ t \in Store /\ t.pend = <<>> /\ t.lru = s.lru /\ t.latest = s.latest
        /\ t.rows = Upserted(s) /\ t.fallen = s.fallen /\ t.persist = s.persist
    BY <1>0, <1>2, <2>1 DEF Store
  <2>3. /\ \A k \in Key : t.rows[k].desc # None => Answers(k, t.rows[k].desc)
        /\ \A k \in Key \ t.fallen : t.rows[k].desc \in {None, t.latest[k]}
    BY <2>2, UpsertedRows
  <2> QED
    BY <2>2, <2>3, DrainedOK
<1>3. CASE t = dropped
  <2>1. Abandoned(s) \in SUBSET Key
    BY RestRows
  <2>2. /\ t \in Store /\ t.pend = <<>> /\ t.lru = s.lru /\ t.latest = s.latest
        /\ t.rows = s.rows /\ t.fallen = Abandoned(s) /\ t.persist = s.persist
    BY <1>0, <1>3, <2>1 DEF Store
  <2>3. /\ \A k \in Key : t.rows[k].desc # None => Answers(k, t.rows[k].desc)
        /\ \A k \in Key \ t.fallen : t.rows[k].desc \in {None, t.latest[k]}
    BY <2>2, RestRows DEF StoreOK, RowsFit
  <2> QED
    BY <2>2, <2>3, DrainedOK
<1>4. CASE t \in {requeued, untimed}
  <2>1. /\ t \in Store /\ t.pend = s.pend /\ t.lru = s.lru /\ t.latest = s.latest
        /\ t.rows = s.rows /\ t.fallen = s.fallen /\ t.persist = s.persist
    BY <1>0, <1>4 DEF Store
  <2>2. \A k : Mine(t, k) = Mine(s, k) /\ Newest(t, k) = Newest(s, k)
    BY <2>1 DEF Mine, Newest
  <2>3. LatestKept(t)
    BY <2>1, <2>2 DEF StoreOK, LatestKept
  <2> QED
    BY <2>1, <2>3 DEF StoreOK, MemoryFits, RowsFit, PendingFits
<1> QED
  BY <1>1, <1>2, <1>3, <1>4

\* evict(): rows go, none changes.
LEMMA EvictKeeps ==
  ASSUME NEW s, StoreOK(s), NEW t \in Evicted(s)
  PROVE  StoreOK(t) /\ t.persist = s.persist
<1> DEFINE none == [desc |-> None, old |-> FALSE]
<1>0. s \in Store /\ none \in [desc: Desc \cup {None}, old: BOOLEAN]
  BY DEF StoreOK
<1>1. PICK S \in SUBSET Key :
         t = [s EXCEPT !.rows = [k \in Key |-> IF k \in S THEN s.rows[k] ELSE none]]
  BY DEF Evicted
<1> DEFINE kept == [k \in Key |-> IF k \in S THEN s.rows[k] ELSE none]
<1>2. kept \in [Key -> [desc: Desc \cup {None}, old: BOOLEAN]]
  <2>1. s.rows \in [Key -> [desc: Desc \cup {None}, old: BOOLEAN]]
    BY <1>0 DEF Store
  <2> HIDE DEF none
  <2> QED
    BY <1>0, <2>1
<1>3. \A k \in Key : kept[k].desc \in {None, s.rows[k].desc}
  OBVIOUS
<1> HIDE DEF kept
<1>4. /\ t \in Store /\ t.pend = s.pend /\ t.lru = s.lru /\ t.latest = s.latest
      /\ t.rows = kept /\ t.fallen = s.fallen /\ t.persist = s.persist
  BY <1>0, <1>1, <1>2 DEF Store, kept
<1>5. RowsFit(t)
  BY <1>3, <1>4 DEF StoreOK, RowsFit
<1>6. \A k : Mine(t, k) = Mine(s, k) /\ Newest(t, k) = Newest(s, k)
  BY <1>4 DEF Mine, Newest
<1>7. LatestKept(t)
  BY <1>3, <1>4, <1>6 DEF StoreOK, LatestKept
<1> QED
  BY <1>4, <1>5, <1>7 DEF StoreOK, MemoryFits, PendingFits

\* A write is queued: it is the newest of its key and the last one written.
LEMMA QueueKeeps ==
  ASSUME NEW s, StoreOK(s), NEW k \in Key, NEW d, Answers(k, d),
         NEW t, t = [s EXCEPT !.pend = Append(@, [key |-> k, desc |-> d, old |-> FALSE]),
                              !.latest[k] = d, !.fallen = @ \ {k}]
  PROVE  StoreOK(t) /\ t.persist = s.persist
<1> DEFINE w == [key |-> k, desc |-> d, old |-> FALSE]
           n == Len(s.pend) + 1
<1>0. /\ s \in Store /\ s.pend \in Seq(Write) /\ s.latest \in [Key -> Desc \cup {None}]
      /\ s.fallen \in SUBSET Key
  BY DEF StoreOK, Store
<1>1. w \in Write
  BY DEF Answers, Fits, Write
<1>2. /\ Append(s.pend, w) \in Seq(Write) /\ Len(Append(s.pend, w)) = n
      /\ Append(s.pend, w)[n] = w /\ n \in Nat
      /\ \A j \in 1 .. Len(s.pend) : Append(s.pend, w)[j] = s.pend[j]
      /\ DOMAIN Append(s.pend, w) = 1 .. n /\ DOMAIN s.pend = 1 .. Len(s.pend)
  <2> HIDE DEF w
  <2> QED
    BY <1>0, <1>1
<1>3. /\ [s.latest EXCEPT ![k] = d] \in [Key -> Desc \cup {None}]
      /\ s.fallen \ {k} \in SUBSET Key
  BY <1>0 DEF Answers, Fits
<1>4. /\ t.pend = Append(s.pend, w) /\ t.lru = s.lru /\ t.latest = [s.latest EXCEPT ![k] = d]
      /\ t.rows = s.rows /\ t.fallen = s.fallen \ {k} /\ t.persist = s.persist
      /\ t.timer = s.timer /\ t.retries = s.retries
  <2> HIDE DEF w
  <2>1. t = [s EXCEPT !.pend = Append(@, w), !.latest[k] = d, !.fallen = @ \ {k}]
    BY DEF w
  <2> QED
    BY <1>0, <2>1 DEF Store
<1>5. t \in Store
  <2> HIDE DEF w
  <2>1. t = [s EXCEPT !.pend = Append(@, w), !.latest[k] = d, !.fallen = @ \ {k}]
    BY DEF w
  <2> QED
    BY <1>0, <1>2, <1>3, <2>1 DEF Store
<1>6. w.key = k /\ w.desc = d
  OBVIOUS
<1> HIDE DEF w, n
<1>7. Mine(t, k) = Mine(s, k) \cup {n} /\ \A q : q # k => Mine(t, q) = Mine(s, q)
  <2>1. \A j : j \in 1 .. n <=> j \in 1 .. Len(s.pend) \/ j = n
    BY <1>0 DEF n
  <2> QED
    BY <1>2, <1>4, <1>6, <2>1 DEF Mine
<1>8. Newest(t, k) = n
  <2>1. \A l \in Mine(s, k) : l <= n
    BY <1>2 DEF Mine, n
  <2>2. n \in Mine(t, k) /\ \A l \in Mine(t, k) : l <= n
    BY <1>2, <1>7, <2>1
  <2>3. \A j \in Mine(t, k) : (\A l \in Mine(t, k) : l <= j) => j = n
    <3>1. Mine(t, k) \subseteq Nat
      BY <1>2, <1>7 DEF Mine
    <3> QED
      BY <1>2, <2>2, <3>1
  <2> QED
    BY <2>2, <2>3 DEF Newest
<1>9. PendingFits(t)
  <2>1. \A j : j \in 1 .. n <=> j \in 1 .. Len(s.pend) \/ j = n
    BY <1>0 DEF n
  <2> QED
    BY <1>2, <1>4, <1>6, <2>1 DEF StoreOK, PendingFits
<1>10. LatestKept(t)
  <2>1. Mine(t, k) # {} /\ t.pend[Newest(t, k)].desc = t.latest[k]
    <3>1. Mine(t, k) # {} /\ t.pend[Newest(t, k)] = w
      BY <1>2, <1>4, <1>7, <1>8
    <3>2. t.latest[k] = d
      BY <1>0, <1>4
    <3> QED
      BY <1>6, <3>1, <3>2
  <2>2. ASSUME NEW q \in Key \ t.fallen, q # k
        PROVE  IF Mine(t, q) # {} THEN t.pend[Newest(t, q)].desc = t.latest[q]
               ELSE t.rows[q].desc \in {None, t.latest[q]}
    <3>1. Mine(t, q) = Mine(s, q) /\ Newest(t, q) = Newest(s, q) /\ q \notin s.fallen
          /\ t.latest[q] = s.latest[q]
      BY <1>0, <1>4, <1>7, <2>2 DEF Newest
    <3>2. Mine(s, q) # {} => t.pend[Newest(s, q)] = s.pend[Newest(s, q)]
      BY <1>0, <1>2, <1>4, NewestIsMine
    <3>3. IF Mine(s, q) # {} THEN s.pend[Newest(s, q)].desc = s.latest[q]
          ELSE s.rows[q].desc \in {None, s.latest[q]}
      BY <3>1 DEF StoreOK, LatestKept
    <3>4. t.rows = s.rows
      BY <1>4
    <3> QED
      BY <3>1, <3>2, <3>3, <3>4
  <2>3. ASSUME NEW q \in Key \ t.fallen
        PROVE  IF Mine(t, q) # {} THEN t.pend[Newest(t, q)].desc = t.latest[q]
               ELSE t.rows[q].desc \in {None, t.latest[q]}
    <3>1. CASE q = k
      BY <2>1, <3>1
    <3>2. CASE q # k
      BY <2>2, <3>2
    <3> QED
      BY <3>1, <3>2
  <2> QED
    BY <2>3 DEF LatestKept
<1> QED
  BY <1>4, <1>5, <1>9, <1>10 DEF StoreOK, MemoryFits, RowsFit

\* set() of the persistent store, whatever the flush and the eviction do.
LEMMA SetKeeps ==
  ASSUME NEW s, StoreOK(s), NEW k \in Key, NEW d, Answers(k, d), NEW a \in PersistentSet(s, k, d)
  PROVE  StoreOK(a.store) /\ a.store.persist = s.persist
<1> DEFINE queued == [s EXCEPT !.pend = Append(@, [key |-> k, desc |-> d, old |-> FALSE]),
                               !.latest[k] = d, !.fallen = @ \ {k}]
           timed == [queued EXCEPT !.timer = TRUE]
           after == IF Len(queued.pend) >= FlushBatch THEN FlushNow(queued) ELSE {timed}
<1>1. \/ a = [ok |-> TRUE, store |-> s]
      \/ a \in {[ok |-> TRUE, store |-> t] : t \in after \cup UNION {Evicted(u) : u \in after}}
      \/ a \in {[ok |-> FALSE, store |-> t] : t \in after}
  BY DEF PersistentSet
<1>2. \/ a = [ok |-> TRUE, store |-> s]
      \/ \E t \in after : a = [ok |-> TRUE, store |-> t] \/ a = [ok |-> FALSE, store |-> t]
      \/ \E u \in after : \E t \in Evicted(u) : a = [ok |-> TRUE, store |-> t]
  <2> HIDE DEF after
  <2> QED
    BY <1>1
<1>3. StoreOK(queued) /\ queued.persist = s.persist
  BY QueueKeeps
<1> HIDE DEF queued
<1>4. StoreOK(timed) /\ timed.persist = queued.persist
  <2>1. /\ timed \in Store /\ timed.pend = queued.pend /\ timed.lru = queued.lru
        /\ timed.latest = queued.latest /\ timed.rows = queued.rows
        /\ timed.fallen = queued.fallen /\ timed.persist = queued.persist
    BY <1>3 DEF StoreOK, Store
  <2> HIDE DEF timed
  <2>2. \A q : Mine(timed, q) = Mine(queued, q) /\ Newest(timed, q) = Newest(queued, q)
    BY <2>1 DEF Mine, Newest
  <2>3. LatestKept(timed)
    BY <1>3, <2>1, <2>2 DEF StoreOK, LatestKept
  <2> QED
    BY <1>3, <2>1, <2>3 DEF StoreOK, MemoryFits, RowsFit, PendingFits
<1> HIDE DEF timed
<1>5. \A t \in after : StoreOK(t) /\ t.persist = s.persist
  BY <1>3, <1>4, FlushKeeps
<1> HIDE DEF after
<1>6. \A u \in after : \A t \in Evicted(u) : StoreOK(t) /\ t.persist = s.persist
  BY <1>5, EvictKeeps
<1>7. \E t : a.store = t /\ (t = s \/ t \in after \/ \E u \in after : t \in Evicted(u))
  BY <1>2
<1> QED
  BY <1>5, <1>6, <1>7

\* storeDual(): both tiers in memory, then both in the persistent store.
LEMMA DescriptionStored ==
  ASSUME NEW s, StoreOK(s), NEW i \in Img, NEW c \in Ctx, NEW d, Answers(<<i, c>>, d),
         NEW a \in StoreDescription(s, i, c, d)
  PROVE  StoreOK(a.store) /\ a.store.persist = s.persist
<1> DEFINE inMemory == [s EXCEPT !.lru[<<i, c>>] = d, !.lru[<<i, NoCtx>>] = d]
           first == PersistentSet(inMemory, <<i, c>>, d)
<1>1. <<i, c>> \in Key /\ <<i, NoCtx>> \in Key /\ Answers(<<i, NoCtx>>, d)
      /\ Fits(<<i, NoCtx>>, d) /\ Fits(<<i, c>>, d)
  BY StoreAssumption DEF Key, Answers, Fits
<1>2. StoreOK(inMemory) /\ inMemory.persist = s.persist
  <2> DEFINE t == [s EXCEPT !.lru[<<i, c>>] = d]
  <2>1. StoreOK(t) /\ t.persist = s.persist
    BY <1>1, EntryChanged
  <2>2. inMemory = [t EXCEPT !.lru[<<i, NoCtx>>] = d]
    OBVIOUS
  <2> HIDE DEF t, inMemory
  <2>3. StoreOK([t EXCEPT !.lru[<<i, NoCtx>>] = d])
        /\ [t EXCEPT !.lru[<<i, NoCtx>>] = d].persist = t.persist
    BY <1>1, <2>1, EntryChanged
  <2> QED
    BY <2>1, <2>2, <2>3
<1>3. a \in first \/ \E b \in first : a \in PersistentSet(b.store, <<i, NoCtx>>, d)
  BY DEF StoreDescription
<1> HIDE DEF inMemory
<1>4. \A b \in first : StoreOK(b.store) /\ b.store.persist = s.persist
  BY <1>1, <1>2, SetKeeps
<1> HIDE DEF first
<1>5. CASE a \in first
  BY <1>4, <1>5
<1>6. ASSUME NEW b \in first, a \in PersistentSet(b.store, <<i, NoCtx>>, d)
      PROVE  StoreOK(a.store) /\ a.store.persist = s.persist
  BY <1>1, <1>4, <1>6, SetKeeps
<1> QED
  BY <1>3, <1>5, <1>6

\* getOrCompute() with a value that answers the key, or a failure: the caller
\* gets a description of the image, or that failure.
LEMMA Computed ==
  ASSUME NEW s, StoreOK(s), NEW i \in Img, NEW c \in Ctx, NEW d \in Desc,
         d.kind = "ok" => Answers(<<i, c>>, d), NEW a \in GetOrCompute(s, i, c, d)
  PROVE  /\ StoreOK(a.store) /\ a.store.persist = s.persist
         /\ a.desc \in Desc /\ (a.desc.kind = "ok" => a.desc.img = i)
<1> DEFINE hit == Lookup(s, i, c)
<1>1. StoreOK(hit.store) /\ hit.store.persist = s.persist
      /\ (hit.desc # None => Fits(<<i, c>>, hit.desc))
  BY LookupKeeps
<1>2. \/ hit.desc # None /\ a = [ok |-> TRUE, store |-> hit.store, desc |-> hit.desc]
      \/ d.kind # "ok" /\ a = [ok |-> TRUE, store |-> hit.store, desc |-> d]
      \/ /\ d.kind = "ok"
         /\ \E b \in StoreDescription(hit.store, i, c, d) :
              a = [ok |-> b.ok, store |-> b.store, desc |-> d]
  BY DEF GetOrCompute, Cacheable
<1> HIDE DEF hit
<1>3. CASE hit.desc # None /\ a = [ok |-> TRUE, store |-> hit.store, desc |-> hit.desc]
  BY <1>1, <1>3 DEF Fits
<1>4. CASE d.kind # "ok" /\ a = [ok |-> TRUE, store |-> hit.store, desc |-> d]
  BY <1>1, <1>4
<1>5. ASSUME d.kind = "ok", NEW b \in StoreDescription(hit.store, i, c, d),
             a = [ok |-> b.ok, store |-> b.store, desc |-> d]
      PROVE  /\ StoreOK(a.store) /\ a.store.persist = s.persist
             /\ a.desc \in Desc /\ (a.desc.kind = "ok" => a.desc.img = i)
  <2>1. StoreOK(b.store) /\ b.store.persist = hit.store.persist
    BY <1>1, <1>5, DescriptionStored
  <2> QED
    BY <1>1, <1>5, <2>1 DEF Answers, Fits
<1> QED
  BY <1>2, <1>3, <1>4, <1>5

-----------------------------------------------------------------------------
\* A new store.
LEMMA EmptyStoreOK == \A p \in BOOLEAN : StoreOK(EmptyStore(p))
<1> SUFFICES ASSUME NEW p \in BOOLEAN PROVE StoreOK(EmptyStore(p))
  OBVIOUS
<1> DEFINE t == EmptyStore(p)
<1>1. /\ t.pend = <<>> /\ t.lru = [k \in Key |-> None] /\ t.latest = [k \in Key |-> None]
      /\ t.rows = [k \in Key |-> [desc |-> None, old |-> FALSE]] /\ t.fallen = {}
      /\ t.persist = p /\ t.timer = FALSE /\ t.retries = 0
  BY DEF EmptyStore
<1>2. t \in Store
  <2>1. /\ <<>> \in Seq(Write) /\ FALSE \in BOOLEAN /\ 0 \in Nat
        /\ [k \in Key |-> None] \in [Key -> Desc \cup {None}]
        /\ [k \in Key |-> [desc |-> None, old |-> FALSE]]
             \in [Key -> [desc: Desc \cup {None}, old: BOOLEAN]]
        /\ {} \in SUBSET Key
    OBVIOUS
  <2> QED
    BY <2>1 DEF EmptyStore, Store
<1> HIDE DEF t
<1>3. (\A k : Mine(t, k) = {}) /\ PendingFits(t)
  BY <1>1, NonePending
<1>4. MemoryFits(t) /\ RowsFit(t)
  BY <1>1 DEF MemoryFits, RowsFit
<1>5. LatestKept(t)
  BY <1>1, <1>3 DEF LatestKept
<1> QED
  BY <1>2, <1>3, <1>4, <1>5 DEF StoreOK, t

\* The memory forgets an entry.
LEMMA ForgottenOK ==
  ASSUME NEW s, StoreOK(s), NEW k \in Key
  PROVE  StoreOK(Forgotten(s, k))
BY EntryChanged DEF Forgotten

\* The persistent entries of a key pass their TTL.
LEMMA ExpiredOK ==
  ASSUME NEW s, StoreOK(s), NEW k \in Key
  PROVE  StoreOK(Expired(s, k))
<1> DEFINE t == Expired(s, k)
           rows1 == [s.rows EXCEPT ![k].old = (s.rows[k].desc # None)]
           pend1 == [j \in DOMAIN s.pend |-> [s.pend[j] EXCEPT !.old = @ \/ s.pend[j].key = k]]
<1>0. /\ s \in Store /\ s.pend \in Seq(Write)
      /\ s.rows \in [Key -> [desc: Desc \cup {None}, old: BOOLEAN]]
  BY DEF StoreOK, Store
<1>1. t = [s EXCEPT !.rows = rows1, !.pend = pend1]
  BY DEF Expired
<1>2. /\ rows1 \in [Key -> [desc: Desc \cup {None}, old: BOOLEAN]]
      /\ \A q \in Key : rows1[q].desc = s.rows[q].desc
  BY <1>0
<1>3. /\ pend1 \in Seq(Write) /\ DOMAIN pend1 = DOMAIN s.pend
      /\ \A j \in DOMAIN s.pend : pend1[j].key = s.pend[j].key /\ pend1[j].desc = s.pend[j].desc
  <2>1. \A j \in DOMAIN s.pend : s.pend[j] \in Write
    BY <1>0
  <2>2. \A j \in DOMAIN s.pend : /\ pend1[j] \in Write
                                 /\ pend1[j].key = s.pend[j].key /\ pend1[j].desc = s.pend[j].desc
    BY <2>1 DEF Write
  <2>3. DOMAIN pend1 = 1 .. Len(s.pend) /\ Len(s.pend) \in Nat /\ DOMAIN pend1 = DOMAIN s.pend
    BY <1>0
  <2>4. pend1 = [j \in 1 .. Len(s.pend) |-> pend1[j]]
    BY <2>3
  <2> HIDE DEF pend1
  <2>5. pend1 \in Seq(Write)
    BY <2>2, <2>3, <2>4
  <2> QED
    BY <2>2, <2>3, <2>5
<1> HIDE DEF t, rows1, pend1
<1>4. /\ t \in Store /\ t.pend = pend1 /\ t.lru = s.lru /\ t.latest = s.latest
      /\ t.rows = rows1 /\ t.fallen = s.fallen
  BY <1>0, <1>1, <1>2, <1>3 DEF Store
<1>5. \A q : Mine(t, q) = Mine(s, q) /\ Newest(t, q) = Newest(s, q)
  BY <1>3, <1>4 DEF Mine, Newest
<1>6. MemoryFits(t) /\ RowsFit(t) /\ PendingFits(t)
  BY <1>2, <1>3, <1>4 DEF StoreOK, MemoryFits, RowsFit, PendingFits
<1>7. LatestKept(t)
  <2> SUFFICES ASSUME NEW q \in Key \ t.fallen
               PROVE  IF Mine(t, q) # {} THEN t.pend[Newest(t, q)].desc = t.latest[q]
                      ELSE t.rows[q].desc \in {None, t.latest[q]}
    BY DEF LatestKept
  <2>1. Mine(s, q) # {} => t.pend[Newest(s, q)].desc = s.pend[Newest(s, q)].desc
    BY <1>0, <1>3, <1>4, NewestIsMine
  <2> QED
    BY <1>2, <1>4, <1>5, <2>1 DEF StoreOK, LatestKept
<1> QED
  BY <1>4, <1>6, <1>7 DEF StoreOK, t

\* A restart: the fresh rows are read into memory, what was pending is lost.
LEMMA RestartedOK ==
  ASSUME NEW s, StoreOK(s), NEW t \in Restarted(s)
  PROVE  StoreOK(t)
<1>1. PICK u \in FlushNow(s) \cup {s} : t = Warmed(u)
  BY DEF Restarted
<1>2. StoreOK(u)
  BY FlushKeeps
<1> DEFINE lru1 == [k \in Key |-> IF u.rows[k].old THEN None ELSE u.rows[k].desc]
<1>3. u \in Store /\ u.rows \in [Key -> [desc: Desc \cup {None}, old: BOOLEAN]]
  BY <1>2 DEF StoreOK, Store
<1>4. /\ lru1 \in [Key -> Desc \cup {None}] /\ <<>> \in Seq(Write) /\ FALSE \in BOOLEAN
      /\ Abandoned(u) \in SUBSET Key
  BY <1>2, <1>3, RestRows
<1>5. t = [u EXCEPT !.lru = lru1, !.pend = <<>>, !.timer = FALSE, !.retries = 0,
                    !.fallen = Abandoned(u)]
  BY <1>1 DEF Warmed
<1>6. \A k \in Key : lru1[k] # None => Fits(k, lru1[k])
  BY <1>2 DEF StoreOK, RowsFit, Answers
<1> HIDE DEF lru1
<1>7. /\ t \in Store /\ t.pend = <<>> /\ t.lru = lru1 /\ t.latest = u.latest
      /\ t.rows = u.rows /\ t.fallen = Abandoned(u)
  BY <1>3, <1>4, <1>5 DEF Store
<1>8. (\A k : Mine(t, k) = {}) /\ PendingFits(t)
  BY <1>7, NonePending
<1>9. MemoryFits(t) /\ RowsFit(t)
  BY <1>2, <1>6, <1>7 DEF StoreOK, MemoryFits, RowsFit
<1>10. LatestKept(t)
  BY <1>2, <1>7, <1>8, RestRows DEF LatestKept
<1> QED
  BY <1>7, <1>8, <1>9, <1>10 DEF StoreOK

(***************************************************************************)
(* The requests.                                                           *)
(***************************************************************************)
Splitting == {"splitGate", "splitting"}
OnImage == AtWork \cup {"joined", "resumed"}
Steps == {"idle", "image", "done"} \cup Splitting \cup OnImage

RowStates == OpenRow \cup {"none", "done", "failed"}

RequestTypes ==
  /\ pc \in [Req -> Steps] /\ body \in [Req -> Bodies \cup {NoBody}] /\ out \in [Req -> Seq(Desc)]
  /\ got \in [Req -> Desc \cup {None}] /\ held \in [Req -> BOOLEAN]
  /\ row \in [Req -> RowStates] /\ unmarked \in [Req -> Nat]
  /\ inflight \in [Img -> Req \cup {NoReq}] /\ orphaned \in SUBSET Img /\ cfg \in Configs

\* A request works on the images of its body one after the other; before an
\* image is transcoded a row can only be open from an earlier one that could not
\* be marked; and what it has got so far, from the cache, a call or another
\* request, is of its images.
Progress(r) ==
  /\ pc[r] # "idle" => body[r] \in Bodies
  /\ pc[r] \in {"idle"} \cup Splitting => out[r] = <<>>
  /\ pc[r] = "image" => Len(out[r]) <= Len(body[r].parts)
  /\ pc[r] \in OnImage => Len(out[r]) < Len(body[r].parts)
  /\ pc[r] = "transcoding" => (row[r] \in OpenRow => MarkThrew(r))
  /\ pc[r] = "resumed" => got[r] \in Desc /\ (got[r].kind = "ok" => got[r].img = Current(r).img)
  /\ \A j \in DOMAIN out[r] : out[r][j].kind = "ok" => out[r][j].img = body[r].parts[j].img

\* The entry left behind by a row that cannot be inserted or marked stays.
FlightInv == InflightOwned /\ \A i \in orphaned : inflight[i] # NoReq

VisionInv ==
  /\ RequestTypes /\ (\A r \in Req : Progress(r)) /\ FlightInv /\ NothingLeftOpen
  /\ StoreOK(store)

-----------------------------------------------------------------------------
\* The image a request is at, and the key and the answer of its question.
LEMMA CurrentPart ==
  ASSUME NEW r \in Req, body[r] \in Bodies, out[r] \in Seq(Desc),
         Len(out[r]) < Len(body[r].parts)
  PROVE  /\ Len(out[r]) + 1 \in DOMAIN body[r].parts /\ Current(r) \in Part
         /\ Current(r).img \in Img /\ Context(r) \in Ctx
         /\ Answers(<<Current(r).img, Context(r)>>, Described(Current(r).img, Asked(r)))
<1>1. /\ body[r].parts \in Seq(Part) /\ NoCtx \in Ctx
      /\ \A j \in DOMAIN body[r].parts :
            {<<"sub", body[r].text, body[r].parts[j].pos, 0>>,
             <<"ask", body[r].text, body[r].parts[j].pos, body[r].parts[j].batch>>} \subseteq Ctx
  BY VisionAssumption, StoreAssumption
<1>2. Len(out[r]) + 1 \in DOMAIN body[r].parts
  BY <1>1
<1>3. Current(r) \in Part /\ Current(r).img \in Img
  <2>1. body[r].parts[Len(out[r]) + 1] \in Part
    BY <1>1, <1>2
  <2>2. Current(r) \in Part
    BY <2>1 DEF Current
  <2> QED
    BY <2>2 DEF Part
<1>4. /\ <<"sub", Text(r), Current(r).pos, 0>> \in Ctx
      /\ <<"ask", Text(r), Current(r).pos, Current(r).batch>> \in Ctx
  BY <1>1, <1>2 DEF Current, Text
<1>5. Context(r) \in Ctx
  BY <1>1, <1>4 DEF Context
<1>6. Asked(r) \in {"plain", "ask", "sub"} /\ (Context(r) # NoCtx => Asked(r) = Context(r)[1])
  BY DEF Asked, Context
<1>7. /\ Described(Current(r).img, Asked(r)) \in Desc
      /\ Described(Current(r).img, Asked(r)).kind = "ok"
      /\ Described(Current(r).img, Asked(r)).img = Current(r).img
      /\ Described(Current(r).img, Asked(r)).asked = Asked(r)
  BY <1>3, <1>6 DEF Desc, Described
<1> QED
  BY <1>2, <1>3, <1>5, <1>6, <1>7 DEF Answers, Fits

\* The same for a request of the invariant.
LEMMA AtImage ==
  ASSUME VisionInv, NEW r \in Req,
         pc[r] \in OnImage \/ (pc[r] = "image" /\ Len(out[r]) < Len(body[r].parts))
  PROVE  /\ body[r] \in Bodies /\ out[r] \in Seq(Desc) /\ Len(out[r]) < Len(body[r].parts)
         /\ Len(out[r]) + 1 \in DOMAIN body[r].parts /\ Current(r).img \in Img
         /\ Context(r) \in Ctx
         /\ Answers(<<Current(r).img, Context(r)>>, Described(Current(r).img, Asked(r)))
<1>1. body[r] \in Bodies /\ out[r] \in Seq(Desc) /\ Len(out[r]) < Len(body[r].parts)
  BY DEF VisionInv, Progress, RequestTypes, OnImage, AtWork
<1> QED
  BY <1>1, CurrentPart

\* Failed and Empty are descriptions of no image.
LEMMA Placeholders ==
  /\ Failed \in Desc /\ Failed.kind = "failed" /\ Empty \in Desc /\ Empty.kind = "empty"
BY DEF Desc, Failed, Empty

\* A description is appended: it is of the image the request is at.
LEMMA Appended ==
  ASSUME VisionInv, NEW r \in Req, NEW d \in Desc,
         pc[r] \in OnImage \/ (pc[r] = "image" /\ Len(out[r]) < Len(body[r].parts)),
         d.kind = "ok" => d.img = Current(r).img
  PROVE  /\ Append(out[r], d) \in Seq(Desc) /\ Len(Append(out[r], d)) <= Len(body[r].parts)
         /\ \A j \in DOMAIN Append(out[r], d) :
              Append(out[r], d)[j].kind = "ok" => Append(out[r], d)[j].img = body[r].parts[j].img
<1>1. body[r] \in Bodies /\ out[r] \in Seq(Desc) /\ Len(out[r]) < Len(body[r].parts)
  BY AtImage
<1>2. body[r].parts \in Seq(Part) /\ Len(body[r].parts) \in Nat
  BY <1>1, VisionAssumption
<1>3. /\ Append(out[r], d) \in Seq(Desc) /\ Len(Append(out[r], d)) = Len(out[r]) + 1
      /\ DOMAIN Append(out[r], d) = 1 .. Len(out[r]) + 1 /\ DOMAIN out[r] = 1 .. Len(out[r])
      /\ Append(out[r], d)[Len(out[r]) + 1] = d
      /\ \A j \in 1 .. Len(out[r]) : Append(out[r], d)[j] = out[r][j]
  BY <1>1
<1>4. \A j \in 1 .. Len(out[r]) : out[r][j].kind = "ok" => out[r][j].img = body[r].parts[j].img
  BY <1>3 DEF VisionInv, Progress
<1>5. d.kind = "ok" => d.img = body[r].parts[Len(out[r]) + 1].img
  BY DEF Current
<1>6. \A j \in 1 .. Len(out[r]) + 1 : j \in 1 .. Len(out[r]) \/ j = Len(out[r]) + 1
  BY <1>1
<1> QED
  BY <1>1, <1>2, <1>3, <1>4, <1>5, <1>6

\* The mark of an earlier image stays, and that of the image a request is at is
\* set when its placeholder is delivered.
LEMMA MarkAppended ==
  ASSUME NEW r \in Req, out[r] \in Seq(Desc), NEW d \in Desc, out'[r] = Append(out[r], d),
         \/ MarkThrew(r) /\ unmarked'[r] = unmarked[r]
         \/ d = Failed /\ unmarked'[r] = CurrentPlace(r)
  PROVE  MarkThrew(r)'
<1>1. /\ DOMAIN out'[r] = 1 .. Len(out[r]) + 1 /\ DOMAIN out[r] = 1 .. Len(out[r])
      /\ out'[r][Len(out[r]) + 1] = d /\ Len(out[r]) \in Nat
      /\ \A j \in 1 .. Len(out[r]) : out'[r][j] = out[r][j]
  OBVIOUS
<1>2. CASE MarkThrew(r) /\ unmarked'[r] = unmarked[r]
  BY <1>1, <1>2 DEF MarkThrew
<1>3. CASE d = Failed /\ unmarked'[r] = CurrentPlace(r)
  BY <1>1, <1>3 DEF MarkThrew, CurrentPlace
<1> QED
  BY <1>2, <1>3

\* Nobody starts, ends or joins a call, and those who did stay where they are.
LEMMA SameFlight ==
  ASSUME FlightInv, UNCHANGED <<inflight, orphaned>>,
         \A q \in Req : /\ pc'[q] \in AtWork <=> pc[q] \in AtWork
                        /\ pc'[q] = "joined" <=> pc[q] = "joined"
                        /\ pc[q] \in AtWork \cup {"joined"} => UNCHANGED <<body[q], out[q]>>
  PROVE  FlightInv'
<1>1. \A q \in Req : pc[q] \in AtWork \cup {"joined"} => Current(q)' = Current(q)
  BY DEF Current
<1>2. \A i \in Img : {q \in Req : pc'[q] \in AtWork /\ Current(q)'.img = i}
                   = {q \in Req : pc[q] \in AtWork /\ Current(q).img = i}
  BY <1>1
<1>3. \A i \in Img : \A q \in Req : (pc'[q] = "joined" /\ Current(q)'.img = i)
                                      => (pc[q] = "joined" /\ Current(q).img = i)
  BY <1>1
<1> QED
  BY <1>2, <1>3 DEF FlightInv, InflightOwned

-----------------------------------------------------------------------------
\* A step of one request r that touches neither the store nor the in-flight
\* map, and neither starts nor ends a call.
LEMMA LocalStep ==
  ASSUME VisionInv, NEW r \in Req, NEW p \in Steps, pc' = [pc EXCEPT ![r] = p],
         p \in AtWork <=> pc[r] \in AtWork, p # "joined", pc[r] # "joined",
         \A q \in Req \ {r} : UNCHANGED <<body[q], out[q], got[q], held[q], row[q], unmarked[q]>>,
         pc[r] \in AtWork => UNCHANGED <<body[r], out[r]>>,
         UNCHANGED <<inflight, orphaned, cfg>>, StoreOK(store'), RequestTypes', Progress(r)',
         held'[r] <=> p \in {"splitting", "crafting", "fetching"},
         row'[r] \in OpenRow => p \in AtWork \/ MarkThrew(r)'
  PROVE  VisionInv'
<1>0. pc \in [Req -> Steps] /\ NothingLeftOpen /\ FlightInv
  BY DEF VisionInv, RequestTypes
<1>1. \A q \in Req : pc'[q] = IF q = r THEN p ELSE pc[q]
  BY <1>0
<1>2. FlightInv'
  BY <1>0, <1>1, SameFlight
<1>3. ASSUME NEW q \in Req, q # r PROVE Progress(q)'
  <2>1. Progress(q) /\ pc'[q] = pc[q] /\ Current(q)' = Current(q) /\ (MarkThrew(q)' <=> MarkThrew(q))
    BY <1>1, <1>3 DEF VisionInv, Current, MarkThrew
  <2> QED
    BY <1>3, <2>1 DEF Progress
<1>4. NothingLeftOpen'
  <2> SUFFICES ASSUME NEW q \in Req
               PROVE  /\ held'[q] <=> pc'[q] \in {"splitting", "crafting", "fetching"}
                      /\ row'[q] \in OpenRow => pc'[q] \in AtWork \/ MarkThrew(q)'
    BY DEF NothingLeftOpen
  <2>1. CASE q = r
    BY <1>1, <2>1
  <2>2. CASE q # r
    <3>1. MarkThrew(q)' <=> MarkThrew(q)
      BY <2>2 DEF MarkThrew
    <3> QED
      BY <1>0, <1>1, <2>2, <3>1 DEF NothingLeftOpen
  <2> QED
    BY <2>1, <2>2
<1> QED
  BY <1>2, <1>3, <1>4 DEF VisionInv

\* A description is delivered outside a call.
LEMMA DeliverStep ==
  ASSUME VisionInv, NEW r \in Req, NEW d \in Desc, Deliver(r, d),
         pc[r] = "resumed" \/ (pc[r] = "image" /\ Len(out[r]) < Len(body[r].parts)),
         d.kind = "ok" => d.img = Current(r).img,
         got' \in [Req -> Desc \cup {None}], \A q \in Req \ {r} : UNCHANGED got[q],
         UNCHANGED <<body, held, row, inflight, orphaned, unmarked, cfg>>, StoreOK(store')
  PROVE  VisionInv'
<1>0. /\ pc \in [Req -> Steps] /\ out \in [Req -> Seq(Desc)] /\ RequestTypes
      /\ pc[r] \in OnImage \/ (pc[r] = "image" /\ Len(out[r]) < Len(body[r].parts))
  BY DEF VisionInv, RequestTypes, OnImage
<1>1. out' = [out EXCEPT ![r] = Append(out[r], d)] /\ pc' = [pc EXCEPT ![r] = "image"]
  BY DEF Deliver
<1>2. /\ Append(out[r], d) \in Seq(Desc) /\ Len(Append(out[r], d)) <= Len(body[r].parts)
      /\ \A j \in DOMAIN Append(out[r], d) :
           Append(out[r], d)[j].kind = "ok" => Append(out[r], d)[j].img = body[r].parts[j].img
  BY <1>0, Appended
<1>3. out'[r] = Append(out[r], d) /\ \A q \in Req \ {r} : out'[q] = out[q]
  BY <1>0, <1>1
<1>4. pc'[r] = "image" /\ "image" \in Steps
  BY <1>0, <1>1 DEF Steps
<1>5. RequestTypes'
  BY <1>0, <1>1, <1>2, <1>4 DEF RequestTypes
<1>6. Progress(r)'
  <2>1. body[r] \in Bodies
    BY <1>0, AtImage
  <2> QED
    BY <1>2, <1>3, <1>4, <2>1 DEF Progress, OnImage, AtWork, Splitting
<1>7. /\ ~held[r] /\ (row[r] \in OpenRow => MarkThrew(r))
      /\ pc[r] \notin AtWork /\ pc[r] # "joined"
  BY DEF VisionInv, NothingLeftOpen, AtWork
<1>8. row'[r] \in OpenRow => MarkThrew(r)'
  BY <1>0, <1>3, <1>7, MarkAppended
<1> QED
  BY <1>0, <1>1, <1>3, <1>4, <1>5, <1>6, <1>7, <1>8, LocalStep DEF AtWork

-----------------------------------------------------------------------------
\* processImage() up to its first await.
LEMMA ImageRefusedStep == ASSUME VisionInv, NEW r \in Req, ImageRefused(r) PROVE VisionInv'
<1>1. /\ pc[r] = "image" /\ Len(out[r]) < Len(body[r].parts) /\ Deliver(r, Failed)
      /\ UNCHANGED <<body, got, held, row, inflight, orphaned, unmarked, store, cfg>>
  BY DEF ImageRefused, ghosts
<1>2. /\ StoreOK(store') /\ got' \in [Req -> Desc \cup {None}]
      /\ \A q \in Req \ {r} : UNCHANGED got[q]
      /\ Failed \in Desc /\ (Failed.kind = "ok" => Failed.img = Current(r).img)
  BY <1>1, Placeholders DEF VisionInv, RequestTypes
<1> QED
  BY <1>1, <1>2, DeliverStep

\* ... with the answer of the caches, which StoreOK vouches for.
LEMMA ImageCachedStep == ASSUME VisionInv, NEW r \in Req, ImageCached(r) PROVE VisionInv'
<1> DEFINE i == Current(r).img
           hit == Lookup(store, i, Context(r))
<1>1. /\ pc[r] = "image" /\ Len(out[r]) < Len(body[r].parts) /\ Deliver(r, hit.desc)
      /\ hit.desc # None /\ store' = hit.store
      /\ UNCHANGED <<body, got, held, row, inflight, orphaned, unmarked, cfg>>
  BY DEF ImageCached, ghosts
<1>2. i \in Img /\ Context(r) \in Ctx /\ StoreOK(store)
  BY <1>1, AtImage DEF VisionInv
<1>3. StoreOK(hit.store) /\ Fits(<<i, Context(r)>>, hit.desc)
  BY <1>1, <1>2, LookupKeeps
<1>4. hit.desc \in Desc /\ (hit.desc.kind = "ok" => hit.desc.img = Current(r).img)
  BY <1>3 DEF Fits
<1>5. /\ StoreOK(store') /\ got' \in [Req -> Desc \cup {None}]
      /\ \A q \in Req \ {r} : UNCHANGED got[q]
  BY <1>1, <1>3 DEF VisionInv, RequestTypes
<1> HIDE DEF hit
<1> QED
  BY <1>1, <1>4, <1>5, DeliverStep

\* One that had joined goes on with what the leader resolved.
LEMMA ResumeStep == ASSUME VisionInv, NEW r \in Req, Resume(r) PROVE VisionInv'
<1>1. /\ pc[r] = "resumed" /\ Deliver(r, got[r]) /\ got' = [got EXCEPT ![r] = None]
      /\ UNCHANGED <<body, held, row, inflight, orphaned, unmarked, store, cfg>>
  BY DEF Resume, ghosts
<1>2. got[r] \in Desc /\ (got[r].kind = "ok" => got[r].img = Current(r).img)
  BY <1>1 DEF VisionInv, Progress
<1>3. /\ StoreOK(store') /\ got' \in [Req -> Desc \cup {None}]
      /\ \A q \in Req \ {r} : UNCHANGED got[q]
  BY <1>1 DEF VisionInv, RequestTypes
<1> QED
  BY <1>1, <1>2, <1>3, DeliverStep

\* The decomposition, and the end of the images.
LEMMA SplitSteps ==
  ASSUME VisionInv, NEW r \in Req, SplitGate(r) \/ Split(r) \/ AllImages(r)
  PROVE  VisionInv'
<1>0. RequestTypes /\ Progress(r) /\ StoreOK(store) /\ NothingLeftOpen
  BY DEF VisionInv
<1>1. /\ UNCHANGED <<body, out, got, row, inflight, orphaned, unmarked, store, cfg>>
      /\ \/ /\ pc[r] = "splitGate" /\ pc' = [pc EXCEPT ![r] = "splitting"]
            /\ held' = [held EXCEPT ![r] = TRUE]
         \/ pc[r] = "splitGate" /\ pc' = [pc EXCEPT ![r] = "image"] /\ held' = held
         \/ /\ pc[r] = "splitting" /\ pc' = [pc EXCEPT ![r] = "image"]
            /\ held' = [held EXCEPT ![r] = FALSE]
         \/ pc[r] = "image" /\ pc' = [pc EXCEPT ![r] = "done"] /\ held' = held
  BY DEF SplitGate, Split, AllImages, ghosts
<1>2. pc \in [Req -> Steps] /\ held \in [Req -> BOOLEAN]
  BY <1>0 DEF RequestTypes
<1>3. PICK p \in {"splitting", "image", "done"} :
         /\ pc' = [pc EXCEPT ![r] = p] /\ pc'[r] = p
         /\ p = "splitting" => held'[r] = TRUE
         /\ p = "image" => held'[r] = FALSE /\ pc[r] \in Splitting
         /\ p = "done" => held'[r] = held[r] /\ held[r] = FALSE /\ pc[r] = "image"
         /\ \A q \in Req \ {r} : held'[q] = held[q]
  BY <1>0, <1>1, <1>2 DEF NothingLeftOpen, Splitting
<1>4. held' \in [Req -> BOOLEAN]
  BY <1>1, <1>2
<1>5. /\ pc[r] \in Splitting \cup {"image"} /\ p \in Steps
      /\ row[r] \in OpenRow => MarkThrew(r)
  BY <1>0, <1>1 DEF Splitting, Steps, NothingLeftOpen, AtWork
<1>6. RequestTypes'
  BY <1>0, <1>1, <1>3, <1>4, <1>5 DEF RequestTypes
<1>7. Progress(r)'
  <2>1. body[r] \in Bodies /\ (p \in {"splitting", "image"} => out[r] = <<>>)
    BY <1>0, <1>1, <1>3, <1>5 DEF Progress, Splitting
  <2>2. Len(body[r].parts) \in Nat
    BY <2>1, VisionAssumption
  <2> QED
    BY <1>0, <1>1, <1>3, <2>1, <2>2 DEF Progress, Splitting, OnImage, AtWork
<1>8. held'[r] <=> p \in {"splitting", "crafting", "fetching"}
  BY <1>3
<1>9. p \notin AtWork /\ pc[r] \notin AtWork /\ p # "joined" /\ pc[r] # "joined"
  BY <1>5 DEF AtWork, Splitting
<1>10. StoreOK(store') /\ (row'[r] \in OpenRow => MarkThrew(r)')
       /\ \A q \in Req \ {r} : UNCHANGED <<body[q], out[q], got[q], held[q], row[q], unmarked[q]>>
  BY <1>0, <1>1, <1>3, <1>5 DEF MarkThrew
<1> QED
  BY <1>1, <1>3, <1>5, <1>6, <1>7, <1>8, <1>9, <1>10, LocalStep

\* Within a call: the row is inserted, the question crafted, the permits taken.
LEMMA CallSteps ==
  ASSUME VisionInv, NEW r \in Req, Transcoded(r) \/ CraftGate(r) \/ Craft(r) \/ GateGrants(r)
  PROVE  VisionInv'
<1>0. RequestTypes /\ Progress(r) /\ StoreOK(store) /\ NothingLeftOpen
  BY DEF VisionInv
<1>1. /\ UNCHANGED <<body, out, got, inflight, orphaned, store, cfg>>
      /\ unmarked' \in {unmarked, [unmarked EXCEPT ![r] = 0]}
      /\ \/ /\ pc[r] = "transcoding" /\ row' = [row EXCEPT ![r] = "streaming"] /\ held' = held
            /\ \E p \in {"gate", "craftGate"} : pc' = [pc EXCEPT ![r] = p]
         \/ /\ pc[r] = "craftGate" /\ row' = row
            /\ pc' = [pc EXCEPT ![r] = "crafting"] /\ held' = [held EXCEPT ![r] = TRUE]
         \/ pc[r] = "craftGate" /\ row' = row /\ pc' = [pc EXCEPT ![r] = "gate"] /\ held' = held
         \/ /\ pc[r] = "crafting" /\ row' = row
            /\ pc' = [pc EXCEPT ![r] = "gate"] /\ held' = [held EXCEPT ![r] = FALSE]
         \/ /\ pc[r] = "gate" /\ row' = row
            /\ pc' = [pc EXCEPT ![r] = "fetching"] /\ held' = [held EXCEPT ![r] = TRUE]
  <2>1. CASE Transcoded(r)
    <3>1. \E p \in {"gate", "craftGate"} : pc' = [pc EXCEPT ![r] = p]
      BY <2>1 DEF Transcoded
    <3> QED
      BY <2>1, <3>1 DEF Transcoded
  <2>2. CASE CraftGate(r) \/ Craft(r) \/ GateGrants(r)
    BY <2>2 DEF CraftGate, Craft, GateGrants, ghosts
  <2> QED
    BY <2>1, <2>2
<1>2. pc \in [Req -> Steps] /\ held \in [Req -> BOOLEAN]
      /\ row \in [Req -> RowStates] /\ unmarked \in [Req -> Nat] /\ "streaming" \in RowStates
  BY <1>0 DEF RequestTypes, RowStates, OpenRow
<1>3. PICK p \in {"gate", "craftGate", "crafting", "fetching"} :
         /\ pc' = [pc EXCEPT ![r] = p] /\ pc'[r] = p
         /\ p \in {"crafting", "fetching"} => held'[r] = TRUE
         /\ p \in {"gate", "craftGate"} => held'[r] = FALSE
         /\ \A q \in Req \ {r} : held'[q] = held[q]
  <2>1. pc[r] \in {"transcoding", "craftGate"} => held[r] = FALSE
    BY <1>0, <1>2 DEF NothingLeftOpen
  <2> QED
    BY <1>1, <1>2, <2>1
<1>4. /\ held' \in [Req -> BOOLEAN] /\ row' \in [Req -> RowStates] /\ unmarked' \in [Req -> Nat]
      /\ \A q \in Req \ {r} : row'[q] = row[q] /\ unmarked'[q] = unmarked[q]
  <2>1. held' \in [Req -> BOOLEAN]
    BY <1>1, <1>2
  <2>2. row' \in [Req -> RowStates] /\ \A q \in Req \ {r} : row'[q] = row[q]
    BY <1>1, <1>2
  <2>3. unmarked' \in [Req -> Nat] /\ \A q \in Req \ {r} : unmarked'[q] = unmarked[q]
    <3>1. unmarked' = unmarked \/ unmarked' = [unmarked EXCEPT ![r] = 0]
      BY <1>1
    <3> QED
      BY <1>2, <3>1
  <2> QED
    BY <2>1, <2>2, <2>3
<1>5. pc[r] \in AtWork /\ p \in AtWork /\ p \in Steps
  BY <1>1 DEF AtWork, Steps, OnImage
<1>6. RequestTypes'
  BY <1>0, <1>1, <1>3, <1>4, <1>5 DEF RequestTypes
<1>7. Progress(r)'
  BY <1>0, <1>1, <1>3, <1>5 DEF Progress, Splitting, OnImage, AtWork
<1>8. held'[r] <=> p \in {"splitting", "crafting", "fetching"}
  BY <1>3
<1>9. p # "joined" /\ pc[r] # "joined"
  BY <1>5 DEF AtWork
<1>10. StoreOK(store') /\ UNCHANGED <<body[r], out[r]>>
       /\ \A q \in Req \ {r} : UNCHANGED <<body[q], out[q], got[q], held[q], row[q], unmarked[q]>>
  BY <1>0, <1>1, <1>3, <1>4
<1> QED
  BY <1>1, <1>3, <1>5, <1>6, <1>7, <1>8, <1>9, <1>10, LocalStep

\* processBodyCacheOnly(): the cache stays in order, and when all images are
\* found their descriptions are of these images.
LEMMA CacheOnlyKeeps ==
  ASSUME StoreOK(store), NEW b \in Bodies
  PROVE  /\ StoreOK(CacheOnly(b).store)
         /\ CacheOnly(b).all =>
              /\ CacheOnly(b).descs \in Seq(Desc)
              /\ \A j \in DOMAIN CacheOnly(b).descs :
                   CacheOnly(b).descs[j].kind = "ok" => CacheOnly(b).descs[j].img = b.parts[j].img
<1> DEFINE found == [j \in DOMAIN b.parts |-> Lookup(store, b.parts[j].img, NoCtx).desc]
<1>0. b.parts \in Seq(Part) /\ Len(b.parts) \in Nat /\ DOMAIN b.parts = 1 .. Len(b.parts)
  BY VisionAssumption
<1>1. \A i \in Img : Lookup(store, i, NoCtx).desc # None
                       => Fits(<<i, NoCtx>>, Lookup(store, i, NoCtx).desc)
  BY LookupKeeps, StoreAssumption
<1>2. \E known : CacheOnly(b) =
        [all |-> \A j \in DOMAIN found : b.parts[j].enc = "base64" /\ found[j] # None,
         store |-> [store EXCEPT !.lru =
                   [k \in Key |-> IF k[2] = NoCtx /\ k[1] \in known
                                  THEN Lookup(store, k[1], NoCtx).desc ELSE store.lru[k]]],
         descs |-> found]
  BY DEF CacheOnly
<1>3. PICK known : CacheOnly(b) =
        [all |-> \A j \in DOMAIN found : b.parts[j].enc = "base64" /\ found[j] # None,
         store |-> [store EXCEPT !.lru =
                   [k \in Key |-> IF k[2] = NoCtx /\ k[1] \in known
                                  THEN Lookup(store, k[1], NoCtx).desc ELSE store.lru[k]]],
         descs |-> found]
  BY <1>2
<1> DEFINE m == [k \in Key |-> IF k[2] = NoCtx /\ k[1] \in known
                               THEN Lookup(store, k[1], NoCtx).desc ELSE store.lru[k]]
<1>4. \A k \in Key : /\ m[k] \in Desc \cup {None}
                     /\ m[k] # None => Fits(k, m[k])
  <2> SUFFICES ASSUME NEW k \in Key
               PROVE  m[k] \in Desc \cup {None} /\ (m[k] # None => Fits(k, m[k]))
    OBVIOUS
  <2>1. CASE k[2] = NoCtx /\ k[1] \in known
    <3>1. k[1] \in Img /\ k = <<k[1], NoCtx>>
      BY <2>1 DEF Key
    <3>2. m[k] = Lookup(store, k[1], NoCtx).desc
      BY <2>1
    <3> HIDE DEF m
    <3>3. m[k] # None => Fits(k, m[k])
      BY <1>1, <3>1, <3>2
    <3> QED
      BY <3>3 DEF Fits
  <2>2. CASE ~(k[2] = NoCtx /\ k[1] \in known)
    <3>1. m[k] = store.lru[k]
      BY <2>2
    <3> QED
      BY <3>1 DEF StoreOK, Store, MemoryFits
  <2> QED
    BY <2>1, <2>2
<1>5. m \in [Key -> Desc \cup {None}]
  BY <1>4
<1>6. CacheOnly(b).store = [store EXCEPT !.lru = m] /\ CacheOnly(b).descs = found
  BY <1>3
<1>7. CacheOnly(b).all => \A j \in DOMAIN found : found[j] # None
  <2> DEFINE full == \A j \in DOMAIN found : b.parts[j].enc = "base64" /\ found[j] # None
             warm == [store EXCEPT !.lru = m]
  <2>1. CacheOnly(b) = [all |-> full, store |-> warm, descs |-> found]
    BY <1>3
  <2>2. full => \A j \in DOMAIN found : found[j] # None
    OBVIOUS
  <2>3. CASE full
    BY <2>2, <2>3
  <2>4. CASE ~full
    <3>1. full = FALSE
      BY <2>4
    <3> HIDE DEF full, warm, found
    <3>2. CacheOnly(b) = [all |-> FALSE, store |-> warm, descs |-> found]
      BY <2>1, <3>1
    <3>3. ~CacheOnly(b).all
      BY <3>2
    <3> QED
      BY <3>3
  <2> QED
    BY <2>3, <2>4
<1> HIDE DEF m
<1>8. StoreOK([store EXCEPT !.lru = m])
  BY <1>4, <1>5, MemoryChanged
<1>9. ASSUME \A j \in DOMAIN found : found[j] # None
      PROVE  /\ found \in Seq(Desc)
             /\ \A j \in DOMAIN found : found[j].kind = "ok" => found[j].img = b.parts[j].img
  <2>1. \A j \in 1 .. Len(b.parts) : b.parts[j] \in Part
    BY <1>0
  <2>2. \A j \in 1 .. Len(b.parts) : b.parts[j].img \in Img
    BY <2>1 DEF Part
  <2>3. \A j \in 1 .. Len(b.parts) : Fits(<<b.parts[j].img, NoCtx>>, found[j])
    BY <1>0, <1>1, <1>9, <2>2
  <2>4. found = [j \in 1 .. Len(b.parts) |-> found[j]] /\ DOMAIN found = 1 .. Len(b.parts)
    BY <1>0
  <2> HIDE DEF found
  <2>5. found \in Seq(Desc)
    <3>1. \A j \in 1 .. Len(b.parts) : found[j] \in Desc
      BY <2>3 DEF Fits
    <3> QED
      BY <1>0, <2>4, <3>1
  <2> QED
    BY <2>3, <2>4, <2>5 DEF Fits
<1> HIDE DEF found
<1> QED
  BY <1>6, <1>7, <1>8, <1>9

\* A request arrives, from the cache or to be worked on.
LEMMA BeginStep ==
  ASSUME VisionInv, NEW r \in Req, NEW b \in cfg.traffic[r], Begin(r, b)
  PROVE  VisionInv'
<1> DEFINE fast == CacheOnly(b)
<1>0. RequestTypes /\ Progress(r) /\ StoreOK(store) /\ NothingLeftOpen
  BY DEF VisionInv
<1>1. b \in Bodies /\ Len(b.parts) \in Nat
  BY <1>0, VisionAssumption DEF RequestTypes
<1>2. /\ pc[r] = "idle" /\ body' = [body EXCEPT ![r] = b]
      /\ UNCHANGED <<got, held, row, inflight, orphaned, unmarked, cfg>>
      /\ store' \in {fast.store, store}
      /\ \/ /\ fast.all /\ out' = [out EXCEPT ![r] = fast.descs]
            /\ pc' = [pc EXCEPT ![r] = "done"]
         \/ out' = out /\ \E p \in {"splitGate", "image"} : pc' = [pc EXCEPT ![r] = p]
  BY DEF Begin, ghosts
<1>3. StoreOK(store')
  BY <1>0, <1>1, <1>2, CacheOnlyKeeps
<1>4. /\ pc \in [Req -> Steps] /\ body \in [Req -> Bodies \cup {NoBody}]
      /\ out \in [Req -> Seq(Desc)] /\ out[r] = <<>>
  BY <1>0, <1>2 DEF RequestTypes, Progress
<1>5. fast.all => /\ fast.descs \in Seq(Desc)
                  /\ \A j \in DOMAIN fast.descs :
                       fast.descs[j].kind = "ok" => fast.descs[j].img = b.parts[j].img
  BY <1>0, <1>1, CacheOnlyKeeps
<1> HIDE DEF fast
<1>6. PICK p \in {"splitGate", "image", "done"} :
         /\ pc' = [pc EXCEPT ![r] = p] /\ pc'[r] = p
         /\ p = "done" => fast.all /\ out'[r] = fast.descs
         /\ p # "done" => out'[r] = <<>>
         /\ \A q \in Req \ {r} : out'[q] = out[q]
         /\ out' \in [Req -> Seq(Desc)]
  BY <1>2, <1>4, <1>5
<1>7. body'[r] = b /\ (\A q \in Req \ {r} : body'[q] = body[q])
      /\ body' \in [Req -> Bodies \cup {NoBody}]
  BY <1>1, <1>2, <1>4
<1>8. p \in Steps /\ p \notin AtWork /\ pc[r] \notin AtWork /\ p # "joined" /\ pc[r] # "joined"
  BY <1>2 DEF Steps, Splitting, AtWork
<1>9. RequestTypes'
  BY <1>0, <1>2, <1>6, <1>7, <1>8 DEF RequestTypes
<1>10. Progress(r)'
  BY <1>1, <1>5, <1>6, <1>7 DEF Progress, Splitting, OnImage, AtWork
<1>11. (held'[r] <=> p \in {"splitting", "crafting", "fetching"}) /\ row'[r] \notin OpenRow
  <2>1. ~MarkThrew(r)
    BY <1>4 DEF MarkThrew
  <2> QED
    BY <1>0, <1>2, <1>6, <2>1 DEF NothingLeftOpen, AtWork
<1>12. \A q \in Req \ {r} : UNCHANGED <<body[q], out[q], got[q], held[q], row[q], unmarked[q]>>
  BY <1>2, <1>6, <1>7
<1> QED
  BY <1>2, <1>3, <1>6, <1>8, <1>9, <1>10, <1>11, <1>12, LocalStep

\* handoff() returns: the request may come again with another body.
LEMMA FinishStep == ASSUME VisionInv, NEW r \in Req, Finish(r) PROVE VisionInv'
<1>0. RequestTypes /\ StoreOK(store) /\ NothingLeftOpen
  BY DEF VisionInv
<1>1. /\ pc[r] = "done" /\ pc' = [pc EXCEPT ![r] = "idle"]
      /\ body' = [body EXCEPT ![r] = NoBody] /\ out' = [out EXCEPT ![r] = <<>>]
      /\ row' = [row EXCEPT ![r] = "none"] /\ unmarked' = [unmarked EXCEPT ![r] = 0]
      /\ UNCHANGED <<got, held, inflight, orphaned, store, cfg>>
  BY DEF Finish
<1>2. /\ RequestTypes' /\ pc'[r] = "idle" /\ out'[r] = <<>> /\ row'[r] = "none"
      /\ \A q \in Req \ {r} : UNCHANGED <<body[q], out[q], got[q], held[q], row[q], unmarked[q]>>
  BY <1>0, <1>1 DEF RequestTypes, Steps, RowStates
<1>3. Progress(r)' /\ row'[r] \notin OpenRow
  BY <1>2 DEF Progress, Splitting, OnImage, AtWork, OpenRow
<1>4. "idle" \in Steps /\ "idle" \notin AtWork /\ pc[r] \notin AtWork
  BY <1>1 DEF Steps, AtWork
<1>5. held'[r] <=> "idle" \in {"splitting", "crafting", "fetching"}
  BY <1>0, <1>1 DEF NothingLeftOpen
<1> QED
  BY <1>0, <1>1, <1>2, <1>3, <1>4, <1>5, LocalStep

-----------------------------------------------------------------------------
\* Steps that change who works on an image.
LEMMA ImageJoinedStep == ASSUME VisionInv, NEW r \in Req, ImageJoined(r) PROVE VisionInv'
<1>0. RequestTypes /\ StoreOK(store) /\ NothingLeftOpen /\ FlightInv /\ \A q \in Req : Progress(q)
  BY DEF VisionInv
<1>1. /\ pc[r] = "image" /\ Len(out[r]) < Len(body[r].parts)
      /\ inflight[Current(r).img] # NoReq /\ pc' = [pc EXCEPT ![r] = "joined"]
      /\ UNCHANGED <<body, out, got, held, row, inflight, orphaned, unmarked, store, cfg>>
  BY DEF ImageJoined, ghosts
<1>2. \A q \in Req : Current(q)' = Current(q) /\ (MarkThrew(q)' <=> MarkThrew(q))
  BY <1>1 DEF Current, MarkThrew
<1>3. RequestTypes' /\ (\A q \in Req : pc'[q] = IF q = r THEN "joined" ELSE pc[q])
  BY <1>0, <1>1 DEF RequestTypes, Steps, OnImage
<1>4. \A q \in Req : Progress(q)'
  BY <1>0, <1>1, <1>2, <1>3 DEF Progress, OnImage, AtWork, Splitting
<1>5. NothingLeftOpen'
  BY <1>0, <1>1, <1>2, <1>3 DEF NothingLeftOpen, AtWork
<1>6. FlightInv'
  <2>1. \A i \in Img : {q \in Req : pc'[q] \in AtWork /\ Current(q)'.img = i}
                     = {q \in Req : pc[q] \in AtWork /\ Current(q).img = i}
    BY <1>1, <1>2, <1>3 DEF AtWork
  <2>2. \A i \in Img : \A q \in Req : (pc'[q] = "joined" /\ Current(q)'.img = i)
                                        => inflight[i] # NoReq
    BY <1>0, <1>1, <1>2, <1>3 DEF FlightInv, InflightOwned
  <2> QED
    BY <1>0, <1>1, <2>1, <2>2 DEF FlightInv, InflightOwned
<1> QED
  BY <1>0, <1>1, <1>3, <1>4, <1>5, <1>6 DEF VisionInv

\* The first request for an image becomes the owner of its entry in flight.
LEMMA ImageLeadsStep == ASSUME VisionInv, NEW r \in Req, ImageLeads(r) PROVE VisionInv'
<1> DEFINE n == Current(r).img
<1>0. RequestTypes /\ StoreOK(store) /\ NothingLeftOpen /\ FlightInv /\ \A q \in Req : Progress(q)
  BY DEF VisionInv
<1>1. /\ pc[r] = "image" /\ Len(out[r]) < Len(body[r].parts)
      /\ inflight[n] = NoReq /\ inflight' = [inflight EXCEPT ![n] = r]
      /\ pc' = [pc EXCEPT ![r] = "transcoding"]
      /\ UNCHANGED <<body, out, got, held, row, orphaned, unmarked, store, cfg>>
  BY DEF ImageLeads, ghosts
<1>2. \A q \in Req : Current(q)' = Current(q) /\ (MarkThrew(q)' <=> MarkThrew(q))
  BY <1>1 DEF Current, MarkThrew
<1>3. n \in Img /\ r # NoReq
  BY <1>1, AtImage, VisionAssumption
<1>4. RequestTypes' /\ (\A q \in Req : pc'[q] = IF q = r THEN "transcoding" ELSE pc[q])
      /\ (\A i \in Img : inflight'[i] = IF i = n THEN r ELSE inflight[i])
  BY <1>0, <1>1, <1>3 DEF RequestTypes, Steps, OnImage, AtWork
<1>5. \A q \in Req : Progress(q)'
  <2>1. row'[r] \in OpenRow => MarkThrew(r)'
    BY <1>0, <1>1, <1>2 DEF NothingLeftOpen, AtWork
  <2> QED
    BY <1>0, <1>1, <1>2, <1>4, <2>1 DEF Progress, OnImage, AtWork, Splitting
<1>6. NothingLeftOpen'
  BY <1>0, <1>1, <1>2, <1>4 DEF NothingLeftOpen, AtWork
<1>7. FlightInv'
  <2> DEFINE before(i) == {q \in Req : pc[q] \in AtWork /\ Current(q).img = i}
             after(i) == {q \in Req : pc'[q] \in AtWork /\ Current(q)'.img = i}
  <2>1. after(n) = before(n) \cup {r} /\ \A i \in Img : i # n => after(i) = before(i)
    BY <1>1, <1>2, <1>4 DEF AtWork
  <2>2. before(n) = {} /\ n \notin orphaned
    BY <1>0, <1>1, <1>3 DEF FlightInv, InflightOwned
  <2>3. \A i \in Img : /\ inflight[i] = NoReq => before(i) = {}
                       /\ inflight[i] # NoReq => before(i) = IF i \in orphaned THEN {} ELSE {inflight[i]}
    BY <1>0 DEF FlightInv, InflightOwned
  <2>4. \A i \in Img : \A q \in Req : (pc'[q] = "joined" /\ Current(q)'.img = i)
                                        => inflight'[i] # NoReq
    BY <1>0, <1>2, <1>3, <1>4 DEF FlightInv, InflightOwned
  <2>5. \A i \in orphaned : inflight'[i] # NoReq
    BY <1>0, <1>3, <1>4 DEF FlightInv, RequestTypes
  <2>6. \A i \in Img : /\ inflight'[i] = NoReq => after(i) = {}
                       /\ inflight'[i] # NoReq => after(i) = IF i \in orphaned THEN {} ELSE {inflight'[i]}
    <3> HIDE DEF before, after
    <3> QED
      BY <1>3, <1>4, <2>1, <2>2, <2>3
  <2> QED
    BY <1>1, <2>4, <2>5, <2>6 DEF FlightInv, InflightOwned
<1> QED
  BY <1>0, <1>1, <1>4, <1>5, <1>6, <1>7 DEF VisionInv

\* The row cannot be inserted or marked: the entry stays without a leader, and
\* counts as orphaned.
LEMMA InsertFailsStep == ASSUME VisionInv, NEW r \in Req, InsertFails(r) PROVE VisionInv'
<1> DEFINE n == Current(r).img
<1>0. RequestTypes /\ StoreOK(store) /\ NothingLeftOpen /\ FlightInv /\ \A q \in Req : Progress(q)
  BY DEF VisionInv
<1>1. /\ pc[r] = "transcoding" /\ out' = [out EXCEPT ![r] = Append(out[r], Failed)]
      /\ pc' = [pc EXCEPT ![r] = "image"] /\ orphaned' = orphaned \cup {n}
      /\ UNCHANGED <<body, got, held, inflight, store, cfg>>
      /\ \/ UNCHANGED <<row, unmarked>>
         \/ /\ row' = [row EXCEPT ![r] = "enqueued"]
            /\ unmarked' = [unmarked EXCEPT ![r] = CurrentPlace(r)]
  BY DEF InsertFails, Deliver
<1>2. pc[r] \in OnImage /\ pc[r] \in AtWork
  BY <1>1 DEF OnImage, AtWork
<1>3. n \in Img /\ body[r] \in Bodies
  BY <1>2, AtImage
<1>4. /\ Append(out[r], Failed) \in Seq(Desc) /\ Len(Append(out[r], Failed)) <= Len(body[r].parts)
      /\ \A j \in DOMAIN Append(out[r], Failed) : Append(out[r], Failed)[j].kind = "ok"
           => Append(out[r], Failed)[j].img = body[r].parts[j].img
  BY <1>2, Placeholders, Appended
<1>10. /\ row' \in [Req -> RowStates] /\ unmarked' \in [Req -> Nat]
       /\ \A q \in Req \ {r} : row'[q] = row[q] /\ unmarked'[q] = unmarked[q]
       /\ \/ UNCHANGED <<row[r], unmarked[r]>>
          \/ row'[r] = "enqueued" /\ unmarked'[r] = CurrentPlace(r)
  <2>1. /\ row \in [Req -> RowStates] /\ unmarked \in [Req -> Nat] /\ out[r] \in Seq(Desc)
        /\ "enqueued" \in RowStates
    BY <1>0 DEF RequestTypes, RowStates, OpenRow
  <2>2. CurrentPlace(r) \in Nat
    BY <2>1 DEF CurrentPlace
  <2> QED
    BY <1>1, <2>1, <2>2
<1>5. /\ RequestTypes' /\ \A q \in Req : /\ pc'[q] = IF q = r THEN "image" ELSE pc[q]
                                         /\ out'[q] = IF q = r THEN Append(out[r], Failed) ELSE out[q]
  BY <1>0, <1>1, <1>3, <1>4, <1>10 DEF RequestTypes, Steps
<1>6. \A q \in Req \ {r} : Current(q)' = Current(q) /\ (MarkThrew(q)' <=> MarkThrew(q))
  BY <1>1, <1>5, <1>10 DEF Current, MarkThrew
<1>7. \A q \in Req : Progress(q)'
  <2>1. Progress(r)'
    BY <1>1, <1>3, <1>4, <1>5 DEF Progress, OnImage, AtWork, Splitting
  <2>2. \A q \in Req \ {r} : Progress(q)'
    BY <1>0, <1>1, <1>5, <1>6, <1>10 DEF Progress
  <2> QED
    BY <2>1, <2>2
<1>8. NothingLeftOpen'
  <2>1. (row[r] \in OpenRow => MarkThrew(r)) /\ ~held[r] /\ out[r] \in Seq(Desc)
    BY <1>0, <1>1 DEF Progress, NothingLeftOpen, RequestTypes
  <2>2. row'[r] \in OpenRow => MarkThrew(r)'
    BY <1>5, <1>10, <2>1, Placeholders, MarkAppended
  <2> QED
    BY <1>0, <1>1, <1>5, <1>6, <1>10, <2>1, <2>2 DEF NothingLeftOpen, AtWork
<1>9. FlightInv'
  <2> DEFINE before(i) == {q \in Req : pc[q] \in AtWork /\ Current(q).img = i}
             after(i) == {q \in Req : pc'[q] \in AtWork /\ Current(q)'.img = i}
  <2>1. \A i \in Img : /\ inflight[i] = NoReq => before(i) = {}
                       /\ inflight[i] # NoReq => before(i) = IF i \in orphaned THEN {} ELSE {inflight[i]}
    BY <1>0 DEF FlightInv, InflightOwned
  <2>2. r \in before(n) /\ \A i \in Img : i # n => r \notin before(i)
    BY <1>2
  <2>3. \A i \in Img : after(i) = before(i) \ {r}
    BY <1>5, <1>6 DEF AtWork
  <2>4. \A i \in Img : \A q \in Req : (pc'[q] = "joined" /\ Current(q)'.img = i)
                                        => inflight[i] # NoReq
    BY <1>0, <1>5, <1>6 DEF FlightInv, InflightOwned
  <2> HIDE DEF before, after
  <2>5. inflight[n] = r /\ inflight[n] # NoReq /\ n \notin orphaned /\ before(n) = {r}
    BY <1>3, <2>1, <2>2
  <2>6. \A i \in Img : /\ inflight[i] = NoReq => after(i) = {}
                       /\ inflight[i] # NoReq
                            => after(i) = IF i \in orphaned \cup {n} THEN {} ELSE {inflight[i]}
    BY <2>1, <2>2, <2>3, <2>5
  <2>7. \A i \in orphaned \cup {n} : inflight[i] # NoReq
    BY <1>0, <2>5 DEF FlightInv
  <2> QED
    BY <1>1, <2>4, <2>6, <2>7 DEF FlightInv, InflightOwned, after
<1> QED
  BY <1>0, <1>1, <1>5, <1>7, <1>8, <1>9 DEF VisionInv

\* A call ends: the entry goes, its waiters are woken with d, and the request
\* delivers own.
LEMMA ResolveStep ==
  ASSUME VisionInv, NEW r \in Req, pc[r] \in AtWork, NEW d \in Desc, NEW own \in Desc,
         d.kind = "ok" => d.img = Current(r).img, own.kind = "ok" => own.img = Current(r).img,
         ResolveAndDeliver(r, d, own), UNCHANGED <<body, orphaned, cfg>>, StoreOK(store'),
         held' = [held EXCEPT ![r] = FALSE],
         row' \in [Req -> RowStates], unmarked' \in [Req -> Nat],
         row'[r] \in OpenRow => MarkThrew(r)',
         \A q \in Req \ {r} : row'[q] = row[q] /\ unmarked'[q] = unmarked[q]
  PROVE  VisionInv'
<1> DEFINE n == Current(r).img
           waiting == {q \in Req : pc[q] = "joined" /\ Current(q).img = n}
<1>0. RequestTypes /\ StoreOK(store) /\ NothingLeftOpen /\ FlightInv /\ \A q \in Req : Progress(q)
  BY DEF VisionInv
<1>1. /\ inflight' = [inflight EXCEPT ![n] = NoReq]
      /\ got' = [q \in Req |-> IF q \in waiting THEN d ELSE got[q]]
      /\ out' = [out EXCEPT ![r] = Append(out[r], own)]
      /\ pc' = [q \in Req |-> IF q = r THEN "image" ELSE IF q \in waiting THEN "resumed" ELSE pc[q]]
  BY DEF ResolveAndDeliver
<1>2. pc[r] \in OnImage /\ pc[r] # "joined"
  BY DEF OnImage, AtWork
<1>3. n \in Img /\ body[r] \in Bodies
  BY <1>2, AtImage
<1>4. /\ Append(out[r], own) \in Seq(Desc) /\ Len(Append(out[r], own)) <= Len(body[r].parts)
      /\ \A j \in DOMAIN Append(out[r], own) : Append(out[r], own)[j].kind = "ok"
           => Append(out[r], own)[j].img = body[r].parts[j].img
  BY <1>2, Appended
<1>5. /\ r \notin waiting /\ waiting \subseteq Req
      /\ \A q \in waiting : pc[q] = "joined" /\ Current(q).img = n
  BY <1>2
<1>6. \A q \in Req : pc[q] = "joined" /\ Current(q).img = n => q \in waiting
  OBVIOUS
<1> HIDE DEF waiting
<1>7. RequestTypes'
  <2>1. pc' \in [Req -> Steps]
    BY <1>0, <1>1 DEF RequestTypes, Steps, OnImage
  <2>2. got' \in [Req -> Desc \cup {None}] /\ out' \in [Req -> Seq(Desc)]
        /\ held' \in [Req -> BOOLEAN] /\ inflight' \in [Img -> Req \cup {NoReq}]
    BY <1>0, <1>1, <1>4 DEF RequestTypes
  <2> QED
    BY <1>0, <2>1, <2>2 DEF RequestTypes
<1>8. \A q \in Req : /\ pc'[q] = IF q = r THEN "image" ELSE IF q \in waiting THEN "resumed" ELSE pc[q]
                     /\ got'[q] = IF q \in waiting THEN d ELSE got[q]
                     /\ out'[q] = IF q = r THEN Append(out[r], own) ELSE out[q]
                     /\ held'[q] = IF q = r THEN FALSE ELSE held[q]
  BY <1>0, <1>1 DEF RequestTypes
<1>9. \A q \in Req \ {r} : Current(q)' = Current(q) /\ (MarkThrew(q)' <=> MarkThrew(q))
  BY <1>8 DEF Current, MarkThrew
<1>10. \A q \in Req : Progress(q)'
  <2>1. Progress(r)'
    BY <1>3, <1>4, <1>8 DEF Progress, OnImage, AtWork, Splitting
  <2>2. ASSUME NEW q \in waiting PROVE Progress(q)'
    <3>1. q \in Req \ {r} /\ Progress(q) /\ pc[q] = "joined" /\ pc'[q] = "resumed" /\ got'[q] = d
          /\ out'[q] = out[q] /\ body'[q] = body[q] /\ Current(q)'.img = n
      BY <1>0, <1>5, <1>8, <1>9
    <3> QED
      BY <3>1 DEF Progress, OnImage, AtWork, Splitting
  <2>3. ASSUME NEW q \in Req \ {r}, q \notin waiting PROVE Progress(q)'
    <3>1. /\ Progress(q) /\ Current(q)' = Current(q) /\ pc'[q] = pc[q] /\ got'[q] = got[q]
          /\ out'[q] = out[q] /\ row'[q] = row[q] /\ body'[q] = body[q]
          /\ MarkThrew(q)' <=> MarkThrew(q)
      BY <1>0, <1>8, <1>9, <2>3
    <3> QED
      BY <3>1 DEF Progress
  <2> QED
    BY <2>1, <2>2, <2>3
<1>11. NothingLeftOpen'
  <2> SUFFICES ASSUME NEW q \in Req
               PROVE  /\ held'[q] <=> pc'[q] \in {"splitting", "crafting", "fetching"}
                      /\ row'[q] \in OpenRow => pc'[q] \in AtWork \/ MarkThrew(q)'
    BY DEF NothingLeftOpen
  <2>1. CASE q = r
    BY <1>8, <2>1
  <2>2. CASE q \in waiting
    BY <1>0, <1>5, <1>8, <1>9, <2>2 DEF NothingLeftOpen, AtWork
  <2>3. CASE q # r /\ q \notin waiting
    BY <1>0, <1>8, <1>9, <2>3 DEF NothingLeftOpen
  <2> QED
    BY <2>1, <2>2, <2>3
<1>12. FlightInv'
  <2> DEFINE before(i) == {q \in Req : pc[q] \in AtWork /\ Current(q).img = i}
             after(i) == {q \in Req : pc'[q] \in AtWork /\ Current(q)'.img = i}
  <2>1. \A i \in Img : /\ inflight[i] = NoReq => before(i) = {}
                       /\ inflight[i] # NoReq => before(i) = IF i \in orphaned THEN {} ELSE {inflight[i]}
    BY <1>0 DEF FlightInv, InflightOwned
  <2>2. r \in before(n) /\ \A i \in Img : i # n => r \notin before(i)
    OBVIOUS
  <2>3. \A i \in Img : after(i) = before(i) \ {r}
    <3>1. pc'[r] \notin AtWork
      BY <1>8 DEF AtWork
    <3>2. \A q \in Req \ {r} : pc'[q] \in AtWork <=> pc[q] \in AtWork
      BY <1>5, <1>8 DEF AtWork
    <3> QED
      BY <1>9, <3>1, <3>2
  <2>4. \A i \in Img : \A q \in Req : (pc'[q] = "joined" /\ Current(q)'.img = i)
                                        => i # n /\ inflight[i] # NoReq
    <3>1. \A q \in Req : pc'[q] = "joined" => q # r /\ q \notin waiting /\ pc[q] = "joined"
      BY <1>8
    <3> HIDE DEF n
    <3>2. \A i \in Img : \A q \in Req : pc[q] = "joined" /\ Current(q).img = i => inflight[i] # NoReq
      BY <1>0 DEF FlightInv, InflightOwned
    <3> QED
      BY <1>6, <1>9, <3>1, <3>2
  <2>5. \A i \in Img : inflight'[i] = IF i = n THEN NoReq ELSE inflight[i]
    BY <1>0, <1>1, <1>3 DEF RequestTypes
  <2> HIDE DEF before, after, n
  <2>6. n \notin orphaned /\ before(n) = {r}
    BY <1>3, <2>1, <2>2
  <2>7. \A i \in Img : /\ inflight'[i] = NoReq => after(i) = {}
                       /\ inflight'[i] # NoReq
                            => after(i) = IF i \in orphaned THEN {} ELSE {inflight'[i]}
    BY <1>3, <2>1, <2>2, <2>3, <2>5, <2>6
  <2>8. \A i \in orphaned : inflight'[i] # NoReq
    BY <1>0, <2>5, <2>6 DEF FlightInv, RequestTypes
  <2>9. \A i \in Img : \A q \in Req : (pc'[q] = "joined" /\ Current(q)'.img = i)
                                        => inflight'[i] # NoReq
    BY <2>4, <2>5
  <2> QED
    BY <2>7, <2>8, <2>9 DEF FlightInv, InflightOwned, after
<1> QED
  BY <1>7, <1>10, <1>11, <1>12 DEF VisionInv

\* The transcoder fails: the waiters get the empty string.
LEMMA TranscodeFailsStep == ASSUME VisionInv, NEW r \in Req, TranscodeFails(r) PROVE VisionInv'
<1>0. RequestTypes /\ StoreOK(store) /\ NothingLeftOpen /\ Progress(r)
  BY DEF VisionInv
<1>1. /\ pc[r] = "transcoding" /\ ResolveAndDeliver(r, Empty, Failed)
      /\ UNCHANGED <<body, held, row, orphaned, unmarked, store, cfg>>
  BY DEF TranscodeFails, ghosts
<1>2. /\ pc[r] \in AtWork /\ held[r] = FALSE /\ (row[r] \in OpenRow => MarkThrew(r))
      /\ out \in [Req -> Seq(Desc)]
  BY <1>0, <1>1 DEF AtWork, NothingLeftOpen, Progress, RequestTypes
<1>3. held' = [held EXCEPT ![r] = FALSE]
  BY <1>0, <1>1, <1>2 DEF RequestTypes
<1>4. /\ row' \in [Req -> RowStates] /\ unmarked' \in [Req -> Nat]
      /\ \A q \in Req \ {r} : row'[q] = row[q] /\ unmarked'[q] = unmarked[q]
      /\ StoreOK(store')
  BY <1>0, <1>1, <1>2 DEF RequestTypes
<1>6. row'[r] \in OpenRow => MarkThrew(r)'
  <2>1. out'[r] = Append(out[r], Failed)
    BY <1>1, <1>2 DEF ResolveAndDeliver
  <2> QED
    BY <1>1, <1>2, <2>1, Placeholders, MarkAppended
<1>5. /\ Empty \in Desc /\ Failed \in Desc /\ (Empty.kind = "ok" => Empty.img = Current(r).img)
      /\ (Failed.kind = "ok" => Failed.img = Current(r).img)
  BY Placeholders
<1> QED
  BY <1>1, <1>2, <1>3, <1>4, <1>5, <1>6, ResolveStep

\* The call is over, with a description or without.
LEMMA CallEndsStep ==
  ASSUME VisionInv, NEW r \in Req, pc[r] \in AtWork,
         NEW d \in {Failed, Described(Current(r).img, Asked(r))}, CallEnds(r, d),
         held' = [held EXCEPT ![r] = FALSE], UNCHANGED <<body, orphaned, cfg>>
  PROVE  VisionInv'
<1> DEFINE i == Current(r).img
<1>0. /\ row \in [Req -> RowStates] /\ unmarked \in [Req -> Nat] /\ out \in [Req -> Seq(Desc)]
      /\ StoreOK(store)
  BY DEF VisionInv, RequestTypes
<1>1. pc[r] \in OnImage
  BY DEF OnImage
<1>2. i \in Img /\ Context(r) \in Ctx /\ Answers(<<i, Context(r)>>, Described(i, Asked(r)))
  BY <1>1, AtImage
<1>3. d \in Desc /\ (d.kind = "ok" => Answers(<<i, Context(r)>>, d))
  BY <1>2, Placeholders DEF Answers, Fits
<1>4. PICK a \in GetOrCompute(store, i, Context(r), d), written \in BOOLEAN, marked \in BOOLEAN :
         /\ store' = a.store
         /\ ResolveAndDeliver(r, IF a.ok THEN a.desc ELSE Empty,
                                 IF a.ok /\ (written \/ marked) THEN a.desc ELSE Failed)
         /\ row' = [row EXCEPT ![r] = RowAfter(a.ok /\ written, marked)]
         /\ unmarked' = [unmarked EXCEPT ![r] =
                           IF (a.ok /\ written) \/ marked THEN 0 ELSE CurrentPlace(r)]
  BY DEF CallEnds, Succeeds
<1> DEFINE answer == IF a.ok THEN a.desc ELSE Empty
           own == IF a.ok /\ (written \/ marked) THEN a.desc ELSE Failed
<1> HIDE DEF i
<1>5. StoreOK(a.store) /\ a.desc \in Desc /\ (a.desc.kind = "ok" => a.desc.img = i)
  BY <1>0, <1>2, <1>3, Computed
<1>6. /\ answer \in Desc /\ (answer.kind = "ok" => answer.img = Current(r).img)
      /\ own \in Desc /\ (own.kind = "ok" => own.img = Current(r).img)
  BY <1>5, Placeholders DEF i
<1>7. /\ row' \in [Req -> RowStates] /\ unmarked' \in [Req -> Nat]
      /\ \A q \in Req \ {r} : row'[q] = row[q] /\ unmarked'[q] = unmarked[q]
  <2>1. RowAfter(a.ok /\ written, marked) \in RowStates
    BY DEF RowAfter, RowStates, OpenRow
  <2>2. out[r] \in Seq(Desc)
    BY <1>0
  <2>3. CurrentPlace(r) \in Nat
    BY <2>2 DEF CurrentPlace
  <2> QED
    BY <1>0, <1>4, <2>1, <2>3
\* A row stays open only when the last write threw, and then own is Failed.
<1>8. row'[r] \in OpenRow => MarkThrew(r)'
  <2> SUFFICES ASSUME row'[r] \in OpenRow PROVE MarkThrew(r)'
    OBVIOUS
  <2>1. ~((a.ok /\ written) \/ marked)
    BY <1>0, <1>4 DEF RowAfter, OpenRow
  <2>2. own = Failed /\ unmarked'[r] = CurrentPlace(r)
    BY <1>0, <1>4, <2>1
  <2>3. out'[r] = Append(out[r], own) /\ out[r] \in Seq(Desc)
    BY <1>0, <1>4 DEF ResolveAndDeliver
  <2> QED
    BY <2>2, <2>3, Placeholders, MarkAppended
<1>9. StoreOK(store') /\ ResolveAndDeliver(r, answer, own)
  BY <1>4, <1>5
<1> HIDE DEF answer, own
<1> QED
  BY <1>6, <1>7, <1>8, <1>9, ResolveStep

\* The call ends: the gate refused it, or the fetch came back either way.
LEMMA CallOverSteps ==
  ASSUME VisionInv, NEW r \in Req, GateRefuses(r) \/ Fetched(r)
  PROVE  VisionInv'
<1>0. held \in [Req -> BOOLEAN] /\ NothingLeftOpen
  BY DEF VisionInv, RequestTypes
<1>1. CASE GateRefuses(r)
  <2>1. pc[r] = "gate" /\ CallEnds(r, Failed) /\ UNCHANGED <<body, held, orphaned, cfg>>
    BY <1>1 DEF GateRefuses
  <2>2. pc[r] \in AtWork /\ held[r] = FALSE
    BY <1>0, <2>1 DEF AtWork, NothingLeftOpen
  <2>3. held' = [held EXCEPT ![r] = FALSE]
    BY <1>0, <2>1, <2>2
  <2> QED
    BY <2>1, <2>2, <2>3, CallEndsStep
<1>2. CASE Fetched(r)
  <2>1. PICK d \in {Failed, Described(Current(r).img, Asked(r))} : CallEnds(r, d)
    BY <1>2 DEF Fetched
  <2>2. /\ pc[r] \in AtWork /\ held' = [held EXCEPT ![r] = FALSE]
        /\ UNCHANGED <<body, orphaned, cfg>>
    BY <1>2 DEF Fetched, AtWork
  <2> QED
    BY <2>1, <2>2, CallEndsStep
<1> QED
  BY <1>1, <1>2

\* A step of the store alone.
LEMMA StoreStep ==
  ASSUME VisionInv, FlushTimer \/ Age \/ UNCHANGED vars
  PROVE  VisionInv'
<1>1. UNCHANGED <<pc, body, out, got, held, row, inflight, orphaned, unmarked, cfg>>
  BY DEF FlushTimer, Age, vars, ghosts
<1>2. StoreOK(store')
  <2>0. StoreOK(store)
    BY DEF VisionInv
  <2>1. CASE FlushTimer
    BY <2>0, <2>1, FlushKeeps DEF FlushTimer
  <2>2. CASE Age
    BY <2>0, <2>2, ForgottenOK, ExpiredOK DEF Age
  <2>3. CASE UNCHANGED vars
    BY <2>0, <2>3 DEF vars
  <2> QED
    BY <2>1, <2>2, <2>3
<1>3. \A q \in Req : Current(q)' = Current(q) /\ (MarkThrew(q)' <=> MarkThrew(q))
  BY <1>1 DEF Current, MarkThrew
<1>4. (\A q \in Req : Progress(q)') /\ NothingLeftOpen' /\ RequestTypes'
  BY <1>1, <1>3 DEF VisionInv, Progress, NothingLeftOpen, RequestTypes
<1>5. FlightInv'
  BY <1>1, SameFlight DEF VisionInv
<1> QED
  BY <1>2, <1>4, <1>5 DEF VisionInv

\* An idle process with a store in order.
Fresh ==
  /\ pc = [r \in Req |-> "idle"] /\ body = [r \in Req |-> NoBody] /\ out = [r \in Req |-> <<>>]
  /\ got = [r \in Req |-> None] /\ held = [r \in Req |-> FALSE] /\ row = [r \in Req |-> "none"]
  /\ inflight = [i \in Img |-> NoReq] /\ orphaned = {} /\ unmarked = [r \in Req |-> 0]
  /\ cfg \in Configs /\ StoreOK(store)

\* Such a process satisfies the invariant.
LEMMA FreshInv == Fresh => VisionInv
<1> SUFFICES ASSUME Fresh PROVE VisionInv
  OBVIOUS
<1>1. RequestTypes
  <2>1. "idle" \in Steps /\ <<>> \in Seq(Desc)
    BY DEF Steps
  <2> QED
    BY <2>1 DEF Fresh, RequestTypes, RowStates
<1>2. \A r \in Req : Progress(r)
  BY DEF Fresh, Progress, Splitting, OnImage, AtWork
<1>3. FlightInv
  BY DEF Fresh, FlightInv, InflightOwned, AtWork
<1>4. NothingLeftOpen
  BY DEF Fresh, NothingLeftOpen, AtWork, OpenRow
<1> QED
  BY <1>1, <1>2, <1>3, <1>4 DEF Fresh, VisionInv

\* The first start is one, with an empty store.
LEMMA InitVision == Init => VisionInv
<1> SUFFICES ASSUME Init PROVE VisionInv
  OBVIOUS
<1>1. StoreOK(store)
  BY EmptyStoreOK, VisionAssumption DEF Init
<1>2. Fresh
  BY <1>1 DEF Init, Fresh
<1> QED
  BY <1>2, FreshInv

\* A restart: nothing but the table, the configuration and the keys that lost
\* a write is left.
LEMMA RestartStep == VisionInv /\ Restart => VisionInv'
<1>1. VisionInv /\ Restart => Fresh'
  <2> SUFFICES ASSUME VisionInv, Restart PROVE Fresh'
    OBVIOUS
  <2>1. StoreOK(store')
    BY RestartedOK DEF VisionInv, Restart
  <2>2. cfg' \in Configs
    BY DEF VisionInv, RequestTypes, Restart
  <2> QED
    BY <2>1, <2>2 DEF Restart, Fresh
<1> QED
  BY <1>1, FreshInv, PTL

\* Every step preserves the invariant.
LEMMA NextVision == VisionInv /\ [Next]_vars => VisionInv'
<1> SUFFICES ASSUME VisionInv, [Next]_vars PROVE VisionInv'
  OBVIOUS
<1>1. ASSUME NEW r \in Req, Step(r) PROVE VisionInv'
  <2>1. CASE SplitGate(r) \/ Split(r) \/ AllImages(r)
    BY <2>1, SplitSteps
  <2>2. CASE ImageRefused(r) \/ ImageCached(r) \/ Resume(r)
    BY <2>2, ImageRefusedStep, ImageCachedStep, ResumeStep
  <2>3. CASE ImageJoined(r) \/ ImageLeads(r)
    BY <2>3, ImageJoinedStep, ImageLeadsStep
  <2>4. CASE TranscodeFails(r) \/ InsertFails(r)
    BY <2>4, TranscodeFailsStep, InsertFailsStep
  <2>5. CASE Transcoded(r) \/ CraftGate(r) \/ Craft(r) \/ GateGrants(r)
    BY <2>5, CallSteps
  <2>6. CASE GateRefuses(r) \/ Fetched(r)
    BY <2>6, CallOverSteps
  <2> QED
    BY <1>1, <2>1, <2>2, <2>3, <2>4, <2>5, <2>6 DEF Step
<1>2. ASSUME NEW r \in Req, Finish(r) PROVE VisionInv'
  BY <1>2, FinishStep
<1>3. ASSUME NEW r \in Req, NEW b \in cfg.traffic[r], Begin(r, b) PROVE VisionInv'
  BY <1>3, BeginStep
<1>4. CASE FlushTimer \/ Age \/ UNCHANGED vars
  BY <1>4, StoreStep
<1>5. CASE Restart
  BY <1>5, RestartStep
<1> QED
  BY <1>1, <1>2, <1>3, <1>4, <1>5 DEF Next

\* Hence it holds always.
LEMMA AlwaysVision == Spec => []VisionInv
  BY InitVision, NextVision, PTL DEF Spec

-----------------------------------------------------------------------------
\* A request is only ever given descriptions of its own images, whether they
\* come from the cache, from a call of its own or from the call of a request it
\* joined; and what the caches hold under a key is a description of that image.
\* The question is bound only for what is written or pending under a context:
\* whoever joined a call, and memory after a promotion, may have the answer to
\* another question (image-processor.ts, cache.ts, persistent-cache.ts).
THEOREM DescriptionsMatch == Spec => []DescribesItsImage
<1>1. VisionInv => DescribesItsImage
  <2> SUFFICES ASSUME VisionInv PROVE DescribesItsImage
    OBVIOUS
  <2>1. \A r \in Req : \A j \in DOMAIN out[r] :
          out[r][j].kind = "ok" => out[r][j].img = body[r].parts[j].img
    BY DEF VisionInv, Progress
  <2>2. \A k \in Key : store.lru[k] # None => store.lru[k].kind = "ok" /\ store.lru[k].img = k[1]
    BY DEF VisionInv, StoreOK, MemoryFits, Fits
  <2>3. \A k \in Key : store.rows[k].desc # None => Answers(k, store.rows[k].desc)
    BY DEF VisionInv, StoreOK, RowsFit
  <2>4. \A j \in DOMAIN store.pend : Answers(store.pend[j].key, store.pend[j].desc)
    BY DEF VisionInv, StoreOK, PendingFits
  <2>5. ASSUME NEW w \in {[key |-> k, desc |-> store.rows[k].desc] : k \in Key}
                 \cup {[key |-> store.pend[j].key, desc |-> store.pend[j].desc]
                          : j \in DOMAIN store.pend}
        PROVE  w.desc # None => Answers(w.key, w.desc)
    BY <2>3, <2>4
  <2> QED
    BY <2>1, <2>2, <2>5 DEF DescribesItsImage, Answers, Fits
<1> QED
  BY <1>1, AlwaysVision, PTL

\* At most one request works on an image, its entry in the in-flight map is
\* that request's, and whoever waits for an image waits for such an entry, but for
\* the one that is left behind when inserting or marking the row of the call
\* throws (image-processor.ts:325-409).
THEOREM OneLeader == Spec => []InflightOwned
<1>1. VisionInv => InflightOwned
  BY DEF VisionInv, FlightInv
<1> QED
  BY <1>1, AlwaysVision, PTL

\* No request goes on with a permit, nor with a row that is still enqueued or
\* streams, but for a row that cannot be marked: its image then got the
\* placeholder of a failure (the finally blocks of craft.ts and decompose.ts, and
\* image-processor.ts:386-483).
THEOREM AllSettled == Spec => []NothingLeftOpen
<1>1. VisionInv => NothingLeftOpen
  BY DEF VisionInv
<1> QED
  BY <1>1, AlwaysVision, PTL

\* The persistent store answers with the last write of a key, or with nothing, if
\* that write was not given up: for every mixture of pending, failed, flushed, evicted
\* and expired writes and for restarts between them (persistent-cache.ts).
THEOREM LatestRead == Spec => []ReadsLatest
<1>1. VisionInv => ReadsLatest
  BY Got DEF VisionInv, ReadsLatest
<1> QED
  BY <1>1, AlwaysVision, PTL

(***************************************************************************)
(* The images of a body.                                                   *)
(***************************************************************************)
\* Bodies whose images both walks see: inline or by URL.
ShownBlock == [kind: {"text", "base64", "url"}, tool: BOOLEAN]
ShownBody == Seq(Seq(ShownBlock))

\* The places in walking order, each of them once.
LEMMA Walk ==
  ASSUME NEW S \in SUBSET (Nat \X Nat), IsFiniteSet(S)
  PROVE  LET n == Cardinality(S) IN
         /\ n \in Nat /\ Walked(S) \in [1 .. n -> S] /\ Len(Walked(S)) = n
         /\ \A k \in 1 .. n : Cardinality(UpTo(S, Walked(S)[k])) = k
<1> DEFINE n == Cardinality(S)
           up == [p \in S |-> UpTo(S, p)]
           nth(k) == CHOOSE p \in S : Cardinality(UpTo(S, p)) = k
           w == [k \in 1 .. n |-> nth(k)]
<1>1. \A p \in S : p[1] \in Nat /\ p[2] \in Nat /\ p = <<p[1], p[2]>>
  OBVIOUS
<1>2. up \in [S -> SUBSET S] /\ \A p \in S : p \in up[p]
  BY <1>1 DEF UpTo
<1>3. \A j, k \in S : j # k => (up[j] \subseteq up[k] /\ k \notin up[j])
                               \/ (up[k] \subseteq up[j] /\ j \notin up[k])
  BY <1>1 DEF UpTo
<1>4. \A p \in S : up[p] = UpTo(S, p)
  OBVIOUS
<1> HIDE DEF up
<1>5. n \in Nat /\ \A k \in 1 .. n : \E p \in S : Cardinality(up[p]) = k
  BY <1>2, <1>3, Ranks
<1>6. \A k \in 1 .. n : nth(k) \in S /\ Cardinality(UpTo(S, nth(k))) = k
  BY <1>4, <1>5
<1> HIDE DEF nth
<1>7. w \in [1 .. n -> S] /\ Len(w) = n /\ \A k \in 1 .. n : Cardinality(UpTo(S, w[k])) = k
  BY <1>5, <1>6
<1> QED
  BY <1>5, <1>7 DEF Walked, nth

\* A body has finitely many places.
LEMMA PlacesFinite ==
  ASSUME NEW msgs \in ShownBody, NEW kinds
  PROVE  /\ PlacesOf(kinds, msgs) \in SUBSET (Nat \X Nat) /\ IsFiniteSet(PlacesOf(kinds, msgs))
         /\ \A p \in PlacesOf(kinds, msgs) :
              p[1] \in 1 .. Len(msgs) /\ p[2] \in 1 .. Len(msgs[p[1]]) /\ At(msgs, p) \in ShownBlock
<1> DEFINE rowOf(m) == {<<m, i>> : i \in DOMAIN msgs[m]}
           T == {rowOf(m) : m \in DOMAIN msgs}
<1>1. /\ Len(msgs) \in Nat /\ DOMAIN msgs = 1 .. Len(msgs)
      /\ \A m \in 1 .. Len(msgs) : msgs[m] \in Seq(ShownBlock)
  BY DEF ShownBody
<1>2. \A b \in Seq(ShownBlock) : Len(b) \in Nat /\ DOMAIN b = 1 .. Len(b)
                                 /\ \A i \in 1 .. Len(b) : b[i] \in ShownBlock
  OBVIOUS
<1>3. \A m \in 1 .. Len(msgs) :
        /\ Len(msgs[m]) \in Nat /\ DOMAIN msgs[m] = 1 .. Len(msgs[m])
        /\ \A i \in 1 .. Len(msgs[m]) : msgs[m][i] \in ShownBlock
  BY <1>1, <1>2
<1>4. \A m \in 1 .. Len(msgs) : IsFiniteSet(rowOf(m))
  <2> SUFFICES ASSUME NEW m \in 1 .. Len(msgs) PROVE IsFiniteSet(rowOf(m))
    OBVIOUS
  <2> DEFINE I == 1 .. Len(msgs[m])
             f == [i \in I |-> <<m, i>>]
  <2>1. IsFiniteSet(I)
    BY <1>3, FS_Interval
  <2>2. rowOf(m) = {<<m, i>> : i \in I}
    BY <1>3
  <2>3. f \in Surjection(I, rowOf(m))
    BY <2>2 DEF Surjection
  <2> HIDE DEF f, I, rowOf
  <2> QED
    BY <2>1, <2>3, FS_Surjection
<1>5. IsFiniteSet(T)
  <2> DEFINE I == 1 .. Len(msgs)
             f == [m \in I |-> rowOf(m)]
  <2>1. IsFiniteSet(I)
    BY <1>1, FS_Interval
  <2>2. T = {rowOf(m) : m \in I}
    BY <1>1
  <2>3. f \in Surjection(I, T)
    <3> HIDE DEF rowOf, T
    <3> QED
      BY <2>2 DEF Surjection
  <2> HIDE DEF f, I, rowOf, T
  <2> QED
    BY <2>1, <2>3, FS_Surjection
<1>6. IsFiniteSet(Places(msgs))
  <2>1. \A t \in T : IsFiniteSet(t)
    BY <1>1, <1>4
  <2>2. Places(msgs) = UNION T
    BY DEF Places
  <2> HIDE DEF T
  <2> QED
    BY <1>5, <2>1, <2>2, FS_UNION
<1>7. \A p \in Places(msgs) : /\ p = <<p[1], p[2]>> /\ p[1] \in 1 .. Len(msgs)
                              /\ p[2] \in 1 .. Len(msgs[p[1]]) /\ At(msgs, p) \in ShownBlock
  BY <1>1, <1>3 DEF Places, At
<1>8. PlacesOf(kinds, msgs) \in SUBSET Places(msgs)
  BY DEF PlacesOf
<1>9. IsFiniteSet(PlacesOf(kinds, msgs))
  BY <1>6, <1>8, FS_Subset
<1>10. PlacesOf(kinds, msgs) \in SUBSET (Nat \X Nat)
  <2> SUFFICES ASSUME NEW p \in PlacesOf(kinds, msgs) PROVE p \in Nat \X Nat
    OBVIOUS
  <2>1. p = <<p[1], p[2]>> /\ p[1] \in 1 .. Len(msgs) /\ p[2] \in 1 .. Len(msgs[p[1]])
    BY <1>7, <1>8
  <2>2. Len(msgs) \in Nat /\ Len(msgs[p[1]]) \in Nat
    BY <1>1, <1>3, <2>1
  <2>3. p[1] \in Nat /\ p[2] \in Nat
    BY <2>1, <2>2
  <2> QED
    BY <2>1, <2>3
<1> QED
  BY <1>7, <1>8, <1>9, <1>10

\* Finder and replacer see the same images.
LEMMA SameImages ==
  ASSUME NEW msgs \in ShownBody
  PROVE  PlacesOf(ImageKinds, msgs) = PlacesOf({"base64", "url"}, msgs)
<1>1. \A p \in PlacesOf(ImageKinds, msgs) : At(msgs, p).kind \in {"text", "base64", "url"}
  BY PlacesFinite DEF ShownBlock
<1> QED
  BY <1>1 DEF PlacesOf, ImageKinds

\* The parts that are found and the images that are replaced.
LEMMA PartsFound ==
  ASSUME NEW msgs \in ShownBody, NEW api
  PROVE  LET S == PlacesOf(ImageKinds, msgs)
             images == ImagePlaces(msgs)
             parts == FindImageParts(api, msgs) IN
         /\ Cardinality(S) \in Nat /\ Len(images) = Cardinality(S) /\ DOMAIN images = 1 .. Len(images)
         /\ Len(parts) = Len(images) /\ DOMAIN parts = 1 .. Len(images)
         /\ \A k \in 1 .. Len(images) : images[k] \in S /\ parts[k].place = images[k]
                                        /\ Cardinality(UpTo(S, images[k])) = k
<1> DEFINE S == PlacesOf(ImageKinds, msgs)
           n == Cardinality(S)
           images == ImagePlaces(msgs)
           parts == FindImageParts(api, msgs)
<1>1. S \in SUBSET (Nat \X Nat) /\ IsFiniteSet(S)
  BY PlacesFinite
<1>2. images = Walked(S) /\ Walked(PlacesOf({"base64", "url"}, msgs)) = images
  BY SameImages DEF ImagePlaces
<1>3. /\ n \in Nat /\ images \in [1 .. n -> S] /\ Len(images) = n
      /\ \A k \in 1 .. n : Cardinality(UpTo(S, images[k])) = k
  <2> HIDE DEF S, images
  <2> QED
    BY <1>1, <1>2, Walk
<1>4. DOMAIN parts = DOMAIN images /\ \A k \in DOMAIN images : parts[k].place = images[k]
  <2> HIDE DEF images
  <2> QED
    BY <1>2 DEF FindImageParts
<1>5. Len(parts) = n
  <2>1. DOMAIN parts = 1 .. n
    BY <1>3, <1>4
  <2>2. parts = [k \in 1 .. n |-> parts[k]]
    <3>1. parts = [k \in DOMAIN parts |-> parts[k]]
      BY DEF FindImageParts
    <3> HIDE DEF parts
    <3> QED
      BY <2>1, <3>1
  <2> HIDE DEF parts, n
  <2> QED
    BY <1>3, <2>2
<1> HIDE DEF S, images, parts
<1> QED
  BY <1>3, <1>4, <1>5 DEF S, images, parts

\* An image block is only ever replaced by the description of that very block,
\* every image that is kept is replaced, and the note on omitted images is there
\* exactly when processBody() omitted some, behind the last description; what
\* processBodyCacheOnly() serves from the cache has none: for every API, body and
\* maximum (FindImageParts, applyMaxImagesPolicy() and replaceImageBlocks()).
THEOREM ImagesAligned ==
  ASSUME NEW api \in Api, NEW msgs \in ShownBody, NEW maxImages \in Nat
  PROVE  RewriteAligned(api, msgs, maxImages)
<1> SUFFICES ASSUME NEW cached \in BOOLEAN
             PROVE  LET images == ImagePlaces(msgs)
                        kept == Kept(FindImageParts(api, msgs), maxImages)
                        result == Rewrite(api, msgs, maxImages, cached) IN
                    /\ \A k \in DOMAIN images : result.blocks[k].text => result.blocks[k].is = images[k]
                    /\ \A j \in DOMAIN kept : \E k \in DOMAIN images :
                         images[k] = kept[j].place /\ result.blocks[k].text
                    /\ result.omitted # 0 <=> (~cached /\ Len(images) > maxImages)
                    /\ result.omitted # 0 => \A j \in DOMAIN kept : kept[j].place[1] <= result.omitted
  <2>1. \A kept : FromCache(kept) \subseteq BOOLEAN
    BY DEF FromCache
  <2> QED
    BY <2>1 DEF RewriteAligned
<1> DEFINE S == PlacesOf(ImageKinds, msgs)
           images == ImagePlaces(msgs)
           parts == FindImageParts(api, msgs)
           n == Len(images)
           kept == Kept(parts, maxImages)
           c == IF n > maxImages THEN maxImages ELSE n
           descriptions == [k \in DOMAIN kept |-> kept[k].place]
           overflow == IF cached THEN 0 ELSE Overflow(parts, maxImages)
           blocks == Replaced(msgs, descriptions)
<1>1. /\ n \in Nat /\ n = Cardinality(S) /\ DOMAIN images = 1 .. n /\ Len(parts) = n /\ DOMAIN parts = 1 .. n
      /\ \A k \in 1 .. n : images[k] \in S /\ parts[k].place = images[k]
                           /\ Cardinality(UpTo(S, images[k])) = k
  BY PartsFound
<1>2. parts \in Seq({parts[k] : k \in 1 .. n})
  <2>1. parts = [k \in DOMAIN parts |-> parts[k]]
    BY DEF FindImageParts
  <2> HIDE DEF parts, n
  <2> QED
    BY <1>1, <2>1
<1> HIDE DEF images, parts
<1>3. Len(kept) = c /\ DOMAIN kept = 1 .. c /\ \A k \in 1 .. c : kept[k] = parts[k]
  <2>1. CASE n > maxImages
    <3>1. kept = SubSeq(parts, 1, maxImages)
      BY <1>1, <2>1 DEF Kept
    <3> HIDE DEF n, kept
    <3>2. Len(kept) = maxImages /\ DOMAIN kept = 1 .. maxImages /\ \A k \in 1 .. maxImages : kept[k] = parts[k]
      BY <1>1, <1>2, <2>1, <3>1
    <3> QED
      BY <2>1, <3>2
  <2>2. CASE ~(n > maxImages)
    BY <1>1, <2>2 DEF Kept
  <2> QED
    BY <2>1, <2>2
<1>4. c \in 0 .. n
  BY <1>1
<1>5. overflow = IF cached THEN 0 ELSE n - c
  BY <1>1, <1>3 DEF Overflow
<1> HIDE DEF kept
<1>6. DOMAIN descriptions = 1 .. c /\ Len(descriptions) = c
      /\ \A k \in 1 .. c : descriptions[k] = images[k]
  <2>1. \A k \in 1 .. c : kept[k].place = images[k]
    BY <1>1, <1>3, <1>4
  <2>2. DOMAIN descriptions = 1 .. c /\ \A k \in 1 .. c : descriptions[k] = images[k]
    BY <1>3, <2>1
  <2>3. descriptions = [k \in 1 .. c |-> images[k]]
    BY <1>3, <2>1
  <2> HIDE DEF descriptions, c, n
  <2> QED
    BY <1>1, <1>4, <2>2, <2>3
<1> HIDE DEF descriptions
<1>7. blocks = [k \in 1 .. n |-> IF k <= c THEN [text |-> TRUE, is |-> descriptions[k]]
                                 ELSE [text |-> FALSE, is |-> images[k]]]
  BY <1>1, <1>6 DEF Replaced, images
<1>8. \A k \in 1 .. n : blocks[k].is = images[k] /\ (blocks[k].text <=> k <= c)
  <2> SUFFICES ASSUME NEW k \in 1 .. n PROVE blocks[k].is = images[k] /\ (blocks[k].text <=> k <= c)
    OBVIOUS
  <2>1. CASE k <= c
    <3>1. k \in 1 .. c
      BY <1>1, <1>4, <2>1
    <3>2. blocks[k] = [text |-> TRUE, is |-> descriptions[k]]
      <4> HIDE DEF blocks, c, n
      <4> QED
        BY <1>7, <2>1
    <3> HIDE DEF blocks, c, n
    <3> QED
      BY <1>6, <2>1, <3>1, <3>2
  <2>2. CASE ~(k <= c)
    <3>1. blocks[k] = [text |-> FALSE, is |-> images[k]]
      <4> HIDE DEF blocks, c, n
      <4> QED
        BY <1>7, <2>2
    <3> HIDE DEF blocks, c, n
    <3> QED
      BY <2>2, <3>1
  <2> QED
    BY <2>1, <2>2
<1> HIDE DEF blocks
<1>9. \A j \in DOMAIN kept : \E k \in DOMAIN images : images[k] = kept[j].place /\ blocks[k].text
  <2> SUFFICES ASSUME NEW j \in 1 .. c PROVE images[j] = kept[j].place /\ blocks[j].text /\ j \in 1 .. n
    BY <1>1, <1>3
  <2> HIDE DEF c, n
  <2> QED
    BY <1>1, <1>3, <1>4, <1>8
<1> DEFINE note == OverflowAt(msgs, descriptions, overflow)
           upTo(m) == {p \in S : p[1] <= m}
           full == {m \in DOMAIN msgs : Cardinality(upTo(m)) >= c}
<1>10. /\ note = IF overflow = 0 \/ full = {} THEN 0 ELSE CHOOSE m \in full : \A o \in full : m <= o
       /\ Len(msgs) \in Nat /\ DOMAIN msgs = 1 .. Len(msgs) /\ full \in SUBSET Nat /\ 0 \notin full
       /\ S \in SUBSET (Nat \X Nat) /\ IsFiniteSet(S)
  <2>1. note = IF overflow = 0 \/ full = {} THEN 0 ELSE CHOOSE m \in full : \A o \in full : m <= o
    BY <1>6 DEF OverflowAt
  <2>2. Len(msgs) \in Nat /\ DOMAIN msgs = 1 .. Len(msgs)
    BY DEF ShownBody
  <2>3. S \in SUBSET (Nat \X Nat) /\ IsFiniteSet(S)
    BY PlacesFinite
  <2>4. full \in SUBSET Nat /\ 0 \notin full
    <3>1. full \subseteq 1 .. Len(msgs)
      BY <2>2
    <3> HIDE DEF full
    <3> QED
      BY <2>2, <3>1
  <2> HIDE DEF note, full, S
  <2> QED
    BY <2>1, <2>2, <2>3, <2>4
<1>11. full # {} => (CHOOSE m \in full : \A o \in full : m <= o) \in full
  <2> HIDE DEF full
  <2>1. full # {} => \E m \in full : \A o \in full : m <= o
    BY <1>10, LeastNumber
  <2> QED
    BY <2>1
<1>12. note # 0 <=> (~cached /\ n > maxImages)
  <2>1. overflow = 0 <=> (cached \/ ~(n > maxImages))
    BY <1>1, <1>5
  <2>2. ASSUME n > maxImages PROVE full # {}
    <3>1. images[1] \in S
      BY <1>1, <2>2
    <3>2. \A p \in S : p[1] \in 1 .. Len(msgs)
      BY PlacesFinite
    <3> HIDE DEF S
    <3>3. Len(msgs) \in DOMAIN msgs /\ upTo(Len(msgs)) = S
      BY <1>10, <3>1, <3>2
    <3>4. Cardinality(upTo(Len(msgs))) >= c
      <4> HIDE DEF upTo, n
      <4> QED
        BY <1>1, <1>4, <3>3
    <3> QED
      BY <3>3, <3>4
  <2> HIDE DEF n, overflow, note, full
  <2> QED
    BY <1>10, <1>11, <2>1, <2>2
\* The images up to the note are at least as many as the descriptions, and
\* among the first j there are only j.
<1>13. note # 0 => \A j \in DOMAIN kept : kept[j].place[1] <= note
  <2> SUFFICES ASSUME note # 0, NEW j \in 1 .. c PROVE images[j][1] <= note
    <3> HIDE DEF c, n, note
    <3> QED
      BY <1>1, <1>3, <1>4
  <2>1. note \in full
    <3> HIDE DEF full, overflow, note
    <3> QED
      BY <1>10, <1>11
  <2>2. note \in Nat /\ Cardinality(upTo(note)) >= c
    <3> HIDE DEF note, c, upTo
    <3> QED
      BY <1>10, <2>1
  <2>3. j \in 1 .. n /\ j <= c /\ j \in Nat /\ c \in Nat
    <3> HIDE DEF c, n
    <3> QED
      BY <1>1, <1>4
  <2> DEFINE p == images[j]
             U == UpTo(S, p)
  <2>4. p \in S /\ Cardinality(U) = j
    <3> HIDE DEF n, S
    <3> QED
      BY <1>1, <2>3
  <2>5. U \in SUBSET S /\ IsFiniteSet(U)
    BY <1>10, FS_Subset DEF UpTo
  <2>6. ASSUME p[1] > note PROVE FALSE
    <3>1. upTo(note) \in SUBSET U /\ p \in U /\ p \notin upTo(note)
      <4>1. \A q \in S : q[1] \in Nat /\ q[2] \in Nat
        BY <1>10
      <4>2. U = {q \in S : q[1] < p[1] \/ (q[1] = p[1] /\ q[2] <= p[2])}
        BY DEF UpTo
      <4> HIDE DEF note, p, S, U
      <4>3. p \in U /\ p \notin upTo(note)
        BY <2>2, <2>4, <2>6, <4>1, <4>2
      <4>4. ASSUME NEW q \in upTo(note) PROVE q \in U
        BY <2>2, <2>4, <2>6, <4>1, <4>2
      <4> HIDE DEF upTo
      <4> QED
        BY <4>3, <4>4
    <3> HIDE DEF note, p, U, upTo, c, S, n
    <3>2. Cardinality(upTo(note)) <= j /\ Cardinality(upTo(note)) # j
      BY <2>4, <2>5, <3>1, FS_Subset
    <3>3. Cardinality(upTo(note)) \in Nat
      BY <2>5, <3>1, FS_Subset, FS_CardinalityType
    <3> QED
      BY <2>2, <2>3, <3>2, <3>3
  <2>7. p[1] \in Nat
    <3> HIDE DEF p, S
    <3> QED
      BY <1>10, <2>4
  <2> HIDE DEF p, note
  <2>8. p[1] <= note
    BY <2>2, <2>6, <2>7
  <2> QED
    BY <2>8 DEF p
<1> HIDE DEF note
<1>14. Rewrite(api, msgs, maxImages, cached) = [blocks |-> blocks, omitted |-> note]
  BY DEF Rewrite, blocks, descriptions, kept, parts, note
<1> HIDE DEF c, overflow, full, upTo
<1> QED
  BY <1>1, <1>8, <1>9, <1>12, <1>13, <1>14 DEF images, parts, kept

\* In a body of one message the strategy of the batch is that of each of its
\* images, and the k-th image is asked the k-th question: for every message,
\* text and mode (findOpenAIImageParts(), emitAnthropicImages() and
\* resolveTriageStrategy()).
THEOREM QuestionsAgree ==
  ASSUME NEW api \in Api, NEW message \in Seq(ShownBlock), NEW text, NEW mode
  PROVE  StrategiesAgree(api, message, text, mode)
<1> DEFINE msgs == <<message>>
           S == PlacesOf(ImageKinds, msgs)
           images == ImagePlaces(msgs)
           parts == FindImageParts(api, msgs)
           n == Len(images)
           L == Len(message)
           I == {i \in DOMAIN message : message[i].kind \in ImageKinds}
<1>1. msgs \in ShownBody /\ Len(msgs) = 1 /\ msgs[1] = message /\ L \in Nat /\ DOMAIN message = 1 .. L
      /\ \A i \in 1 .. L : message[i].kind \in {"text", "base64", "url"}
  <2>1. \A b \in ShownBlock : b.kind \in {"text", "base64", "url"}
    BY DEF ShownBlock
  <2> QED
    BY <2>1 DEF ShownBody
<1>2. /\ n \in Nat /\ n = Cardinality(S) /\ DOMAIN images = 1 .. n /\ Len(parts) = n /\ DOMAIN parts = 1 .. n
      /\ \A k \in 1 .. n : /\ images[k] \in S /\ parts[k].place = images[k]
                           /\ Cardinality(UpTo(S, images[k])) = k
  BY <1>1, PartsFound
<1>3. /\ \A p \in S : p = <<1, p[2]>> /\ p[2] \in I
      /\ \A i \in I : <<1, i>> \in S
      /\ S \in SUBSET (Nat \X Nat) /\ IsFiniteSet(S)
  <2>1. S \in SUBSET (Nat \X Nat) /\ IsFiniteSet(S)
        /\ \A p \in S : p[1] \in 1 .. 1 /\ p[2] \in 1 .. L
    BY <1>1, PlacesFinite
  <2>2. \A p \in S : p = <<1, p[2]>>
    BY <2>1
  <2>3. \A p \in S : message[p[2]].kind \in ImageKinds
    BY <1>1, <2>2 DEF PlacesOf, At
  <2>4. \A i \in I : <<1, i>> \in S
    <3> SUFFICES ASSUME NEW i \in I PROVE <<1, i>> \in S
      OBVIOUS
    <3>1. 1 \in DOMAIN msgs /\ i \in DOMAIN msgs[1] /\ msgs[1][i].kind \in ImageKinds
      BY <1>1
    <3> HIDE DEF msgs
    <3>2. <<1, i>> \in Places(msgs)
      BY <3>1 DEF Places
    <3> QED
      BY <3>1, <3>2 DEF PlacesOf, At
  <2> QED
    BY <1>1, <2>1, <2>2, <2>3, <2>4
\* Places of the message and positions in it.
<1>4. ASSUME NEW U \in SUBSET S, NEW J \in SUBSET I, \A p \in S : p \in U <=> p[2] \in J
      PROVE  Cardinality(J) = Cardinality(U)
  <2> DEFINE f == [p \in U |-> p[2]]
  <2>1. IsFiniteSet(U)
    BY <1>3, FS_Subset
  <2>2. f \in [U -> J] /\ \A p, q \in U : f[p] = f[q] => p = q
    BY <1>3, <1>4
  <2>3. \A i \in J : <<1, i>> \in U /\ f[<<1, i>>] = i
    BY <1>3, <1>4
  <2> HIDE DEF f
  <2>4. f \in Bijection(U, J)
    BY <2>2, <2>3 DEF Bijection, Injection, Surjection, IsInjective
  <2> QED
    BY <2>1, <2>4, FS_Bijection DEF ExistsBijection
<1> HIDE DEF images, S
\* batchSize and the position cursor.
<1>5. ASSUME NEW k \in 1 .. n
      PROVE  parts[k].batch = n /\ parts[k].pos = k
  <2> DEFINE p == images[k]
             J == {i \in 1 .. p[2] : Positioned(api, msgs[p[1]][i].kind)}
             B == {i \in DOMAIN msgs[p[1]] : msgs[p[1]][i].kind \in ImageKinds}
  <2>1. p \in S /\ p[1] = 1 /\ p[2] \in I
    BY <1>2, <1>3
  <2>2. Walked(PlacesOf({"base64", "url"}, msgs)) = images
    BY <1>1, SameImages DEF ImagePlaces, images
  <2>3. parts[k].pos = Cardinality(J) /\ parts[k].batch = Cardinality(B)
    BY <1>2, <2>2 DEF FindImageParts
  <2>4. B = I
    BY <1>1, <2>1
  <2>5. Cardinality(I) = n
    BY <1>2, <1>3, <1>4
  <2>6. J = {i \in I : i <= p[2]}
    <3>1. \A i \in 1 .. L : Positioned(api, message[i].kind) <=> message[i].kind \in ImageKinds
      BY <1>1 DEF Positioned, Api, ImageKinds
    <3>2. J = {i \in 1 .. p[2] : Positioned(api, message[i].kind)}
      BY <1>1, <2>1
    <3>3. p[2] \in 1 .. L
      BY <1>1, <2>1
    <3> HIDE DEF p, J, msgs
    <3> QED
      BY <1>1, <3>1, <3>2, <3>3
  <2> HIDE DEF J
  <2>7. Cardinality(J) = Cardinality(UpTo(S, p))
    <3>1. UpTo(S, p) \in SUBSET S /\ J \in SUBSET I
      BY <2>6 DEF UpTo
    <3>2. \A q \in S : q \in UpTo(S, p) <=> q[2] \in J
      <4> SUFFICES ASSUME NEW q \in S PROVE q \in UpTo(S, p) <=> q[2] \in J
        OBVIOUS
      <4>1. q[1] = 1 /\ q[2] \in I /\ q[2] \in Nat /\ p[2] \in Nat
        BY <1>1, <1>3, <2>1
      <4> HIDE DEF p, I
      <4> QED
        BY <2>1, <2>6, <4>1 DEF UpTo
    <3> HIDE DEF I
    <3> QED
      BY <1>4, <3>1, <3>2
  <2> QED
    BY <1>2, <2>3, <2>4, <2>5, <2>7
<1> HIDE DEF parts, msgs
<1>6. ASSUME NEW k \in 1 .. n, parts[k].tool = parts[1].tool
      PROVE  /\ ResolveStrategy(mode, text, parts[k].tool, parts[k].batch)
                  = ResolveStrategy(mode, text, parts[1].tool, Len(parts))
             /\ SubQuestion(parts[k]) = k
  BY <1>2, <1>5, <1>6 DEF SubQuestion
<1>7. \A k \in 1 .. n : SubQuestion(parts[k]) = k
  BY <1>5 DEF SubQuestion
<1> QED
  BY <1>2, <1>6, <1>7 DEF StrategiesAgree, parts, msgs
==============================================================================
