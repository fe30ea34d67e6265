-------------------------------- MODULE Vision --------------------------------
(***************************************************************************)
(* The vision handoff of concurrent requests (vision/handoff.ts and        *)
(* vision/image-processor.ts with craft.ts, decompose.ts and transcode.ts).*)
(* The images of a request are processed one after the other; requests     *)
(* interleave at the awaits: the gate, the network, the transcoder and the *)
(* call of another request for the same image.                             *)
(*                                                                         *)
(* The gate appears as its answers (its own module is Gate). A request     *)
(* that has ended may come again, so histories are unbounded.              *)
(***************************************************************************)
EXTENDS DescriptionStore

CONSTANTS Req, NoReq,
          Bodies,    \* requests: the kept parts and the question
          Configs    \* [mode, configured, background, decompose, persist] and
                     \* the requests (traffic) that come

Strategies == INSTANCE VisionBody

\* A kept part: its image, how it is encoded, whether it is in a tool result,
\* its position among the images of its message and their number.
Part == [img: Img, enc: STRING, tool: BOOLEAN, pos: Nat, batch: Nat]

ASSUME VisionAssumption ==
  /\ NoReq \notin Req
  /\ \A b \in Bodies :
       /\ b.parts \in Seq(Part)
       /\ \A j \in DOMAIN b.parts :
            {<<"sub", b.text, b.parts[j].pos, 0>>,
             <<"ask", b.text, b.parts[j].pos, b.parts[j].batch>>} \subseteq Ctx
  /\ \A c \in Configs : \A r \in Req : c.traffic[r] \subseteq Bodies
  /\ \A c \in Configs : c.persist \in BOOLEAN

VARIABLES pc, body, out, sub, got, held, row, inflight, crafted, decomposed, store, cfg,
          orphaned, unmarked

\* Two ghosts serve the properties. orphaned: the images whose entry was left
\* behind when inserting or marking the row of their call threw; unmarked: of
\* each request, the image whose row could not be marked (0: the row could).
ghosts == <<orphaned, unmarked>>
vars == <<pc, body, out, sub, got, held, row, inflight, crafted, decomposed, store, cfg, ghosts>>

NoBody == [parts |-> <<>>, text |-> {}]

Init ==
  /\ pc = [r \in Req |-> "idle"]
  /\ body = [r \in Req |-> NoBody]
  /\ out = [r \in Req |-> <<>>]
  /\ sub = [r \in Req |-> FALSE]
  /\ got = [r \in Req |-> None]
  /\ held = [r \in Req |-> FALSE]
  /\ row = [r \in Req |-> "none"]
  /\ inflight = [i \in Img |-> NoReq]
  /\ orphaned = {} /\ unmarked = [r \in Req |-> 0]
  /\ crafted = {} /\ decomposed = {}
  /\ cfg \in Configs
  /\ store = EmptyStore(cfg.persist)

-----------------------------------------------------------------------------
Current(r) == body[r].parts[Len(out[r]) + 1]
CurrentPlace(r) == Len(out[r]) + 1
Text(r) == body[r].text

\* The strategy of an image, computed alike for the key and for the call.
Strategy(r) ==
  Strategies!ResolveStrategy(cfg.mode, Text(r), Current(r).tool, Current(r).batch)

\* contextHash: none for "generic" or without a question; the sub-question and
\* the position after a decomposition; otherwise question, position and size.
Context(r) ==
  LET p == Current(r) IN
  IF Strategy(r) = "generic" \/ "present" \notin Text(r) THEN NoCtx
  ELSE IF Strategy(r) = "decomposed" /\ sub[r] THEN <<"sub", Text(r), p.pos, 0>>
  ELSE <<"ask", Text(r), p.pos, p.batch>>

\* What callVisionRecorded() asks the model: the sub-question of the image, the
\* user's question (quoted, or reformulated when crafting succeeded), or the
\* configured prompt alone.
Asked(r) ==
  IF Strategy(r) = "generic" THEN "plain"
  ELSE IF Strategy(r) = "decomposed" /\ sub[r] THEN "sub" ELSE "ask"

\* The next image: its description is appended and the loop goes on.
Deliver(r, d) ==
  /\ out' = [out EXCEPT ![r] = Append(@, d)]
  /\ pc' = [pc EXCEPT ![r] = "image"]

-----------------------------------------------------------------------------
\* processBodyCacheOnly(): all images from the image-only tier, or the full
\* pipeline. The lookups up to the first miss promote what they find; an image
\* that cannot be keyed ends them as well.
CacheOnly(b) ==
  LET found == [j \in DOMAIN b.parts |-> Lookup(store, b.parts[j].img, NoCtx).desc]
      keyed(j) == b.parts[j].enc = "base64"
      asked == {j \in DOMAIN found : /\ \A l \in 1..j : keyed(l)
                                     /\ \A l \in 1..(j - 1) : found[l] # None}
      known == {b.parts[j].img : j \in asked}
  IN [all |-> \A j \in DOMAIN found : keyed(j) /\ found[j] # None,
      store |-> [store EXCEPT !.lru =
                   [k \in Key |-> IF k[2] = NoCtx /\ k[1] \in known
                                  THEN Lookup(store, k[1], NoCtx).desc ELSE store.lru[k]]],
      descs |-> found]

BatchStrategy(b) ==
  Strategies!ResolveStrategy(cfg.mode, b.text, b.parts[1].tool, Len(b.parts))

\* A request with images arrives. It is served from the cache if that is
\* asked for and possible; else a batch may first be split into
\* sub-questions, unless the same batch was split before.
Begin(r, b) ==
  LET fast == CacheOnly(b)
      split == BatchStrategy(b) = "decomposed" /\ cfg.decompose
      known == <<b.text, Len(b.parts)>> \in decomposed
  IN /\ pc[r] = "idle"
     /\ body' = [body EXCEPT ![r] = b]
     /\ store' = IF cfg.background THEN fast.store ELSE store
     /\ IF cfg.background /\ fast.all
        THEN /\ out' = [out EXCEPT ![r] = fast.descs]
             /\ pc' = [pc EXCEPT ![r] = "done"]
             /\ UNCHANGED sub
        ELSE /\ pc' = [pc EXCEPT ![r] = IF split /\ ~known /\ Len(b.parts) > 1
                                        THEN "splitGate" ELSE "image"]
             /\ sub' = [sub EXCEPT ![r] = split /\ known]
             /\ UNCHANGED out
     /\ UNCHANGED <<got, held, row, inflight, crafted, decomposed, cfg, ghosts>>

\* decomposeIfNeeded(): a permit, a call, and as many questions as images, or
\* no decomposition. The permit is returned either way.
SplitGate(r) ==
  /\ pc[r] = "splitGate"
  /\ \/ pc' = [pc EXCEPT ![r] = "splitting"] /\ held' = [held EXCEPT ![r] = TRUE]
     \/ pc' = [pc EXCEPT ![r] = "image"] /\ UNCHANGED held
  /\ UNCHANGED <<body, out, sub, got, row, inflight, crafted, decomposed, store, cfg, ghosts>>

Split(r) ==
  /\ pc[r] = "splitting"
  /\ \/ /\ sub' = [sub EXCEPT ![r] = TRUE]
        /\ decomposed' = decomposed \cup {<<Text(r), Len(body[r].parts)>>}
     \/ UNCHANGED <<sub, decomposed>>
  /\ held' = [held EXCEPT ![r] = FALSE]
  /\ pc' = [pc EXCEPT ![r] = "image"]
  /\ UNCHANGED <<body, out, got, row, inflight, crafted, store, cfg, ghosts>>

-----------------------------------------------------------------------------
\* processImage() up to its first await.
\* URL images, undecodable data and a failing read end in a placeholder.
ImageRefused(r) ==
  /\ pc[r] = "image" /\ Len(out[r]) < Len(body[r].parts)
  /\ \/ Current(r).enc # "base64"
     \/ "read" \in Faults
  /\ Deliver(r, Failed)
  /\ UNCHANGED <<body, sub, got, held, row, inflight, crafted, decomposed, store, cfg, ghosts>>

ImageCached(r) ==
  /\ pc[r] = "image" /\ Len(out[r]) < Len(body[r].parts)
  /\ Current(r).enc = "base64"
  /\ LET hit == Lookup(store, Current(r).img, Context(r)) IN
       /\ hit.desc # None
       /\ store' = hit.store
       /\ Deliver(r, hit.desc)
  /\ UNCHANGED <<body, sub, got, held, row, inflight, crafted, decomposed, cfg, ghosts>>

\* Another request is at work on the same image: wait for its answer.
ImageJoined(r) ==
  /\ pc[r] = "image" /\ Len(out[r]) < Len(body[r].parts)
  /\ Current(r).enc = "base64"
  /\ Lookup(store, Current(r).img, Context(r)).desc = None
  /\ inflight[Current(r).img] # NoReq
  /\ pc' = [pc EXCEPT ![r] = "joined"]
  /\ UNCHANGED <<body, out, sub, got, held, row, inflight, crafted, decomposed, store, cfg, ghosts>>

\* Mutant: the entry is not registered before the transcoder is awaited.
ImageLeadsLate(r) ==
  /\ pc[r] = "image" /\ Len(out[r]) < Len(body[r].parts)
  /\ Current(r).enc = "base64"
  /\ Lookup(store, Current(r).img, Context(r)).desc = None
  /\ inflight[Current(r).img] = NoReq
  /\ pc' = [pc EXCEPT ![r] = "transcoding"]
  /\ UNCHANGED <<body, out, sub, got, held, row, inflight, crafted, decomposed, store, cfg, ghosts>>

\* Nobody is: the entry is registered before the first await.
ImageLeads(r) ==
  /\ pc[r] = "image" /\ Len(out[r]) < Len(body[r].parts)
  /\ Current(r).enc = "base64"
  /\ Lookup(store, Current(r).img, Context(r)).desc = None
  /\ inflight[Current(r).img] = NoReq
  /\ inflight' = [inflight EXCEPT ![Current(r).img] = r]
  /\ pc' = [pc EXCEPT ![r] = "transcoding"]
  /\ UNCHANGED <<body, out, sub, got, held, row, crafted, decomposed, store, cfg, ghosts>>

\* After the last image the body is rewritten.
AllImages(r) ==
  /\ pc[r] = "image" /\ Len(out[r]) = Len(body[r].parts)
  /\ pc' = [pc EXCEPT ![r] = "done"]
  /\ UNCHANGED <<body, out, sub, got, held, row, inflight, crafted, decomposed, store, cfg, ghosts>>

\* The waiter goes on with the answer of the request it joined.
Resume(r) ==
  /\ pc[r] = "resumed"
  /\ Deliver(r, got[r])
  /\ got' = [got EXCEPT ![r] = None]
  /\ UNCHANGED <<body, sub, held, row, inflight, crafted, decomposed, store, cfg, ghosts>>

-----------------------------------------------------------------------------
\* resolveInflight(d) and inflight.delete(): the waiters of the image are
\* woken with d. The request itself delivers own.
ResolveAndDeliver(r, d, own) ==
  LET i == Current(r).img
      waiting == {q \in Req : pc[q] = "joined" /\ Current(q).img = i}
  IN /\ inflight' = [inflight EXCEPT ![i] = NoReq]
     /\ got' = [q \in Req |-> IF q \in waiting THEN d ELSE got[q]]
     /\ out' = [out EXCEPT ![r] = Append(@, own)]
     /\ pc' = [q \in Req |-> IF q = r THEN "image" ELSE IF q \in waiting THEN "resumed" ELSE pc[q]]

\* transcodeImage() fails: the waiters get the empty string.
TranscodeFails(r) ==
  /\ pc[r] = "transcoding"
  /\ ResolveAndDeliver(r, Empty, Failed)
  /\ UNCHANGED <<body, sub, held, row, crafted, decomposed, store, cfg, ghosts>>

\* The call's row is inserted and marked as streaming, and the call begins:
\* with the crafted question of this text if that is the strategy, else
\* directly at the gate.
Transcoded(r) ==
  /\ pc[r] = "transcoding"
  /\ row' = [row EXCEPT ![r] = "streaming"]
  /\ unmarked' = [unmarked EXCEPT ![r] = 0]
  /\ pc' = [pc EXCEPT ![r] =
       IF ~cfg.configured THEN "gate"
       ELSE IF Strategy(r) = "crafted" /\ "present" \in Text(r) /\ Text(r) \notin crafted
       THEN "craftGate" ELSE "gate"]
  /\ UNCHANGED <<body, out, sub, got, held, inflight, crafted, decomposed, store, cfg, orphaned>>

\* The insert throws, or the state write after it: both stand behind the
\* registration of the entry and before the try that would remove it.
InsertFails(r) ==
  /\ pc[r] = "transcoding"
  /\ \/ "insert" \in Faults /\ UNCHANGED <<row, unmarked>>
     \/ /\ "state" \in Faults
        /\ row' = [row EXCEPT ![r] = "enqueued"]
        /\ unmarked' = [unmarked EXCEPT ![r] = CurrentPlace(r)]
  /\ Deliver(r, Failed)
  /\ orphaned' = orphaned \cup {Current(r).img}
  /\ UNCHANGED <<body, sub, got, held, inflight, crafted, decomposed, store, cfg>>

\* craftVisionQuestion(): a permit of its own for a call of its own.
CraftGate(r) ==
  /\ pc[r] = "craftGate"
  /\ \/ pc' = [pc EXCEPT ![r] = "crafting"] /\ held' = [held EXCEPT ![r] = TRUE]
     \/ pc' = [pc EXCEPT ![r] = "gate"] /\ UNCHANGED held
  /\ UNCHANGED <<body, out, sub, got, row, inflight, crafted, decomposed, store, cfg, ghosts>>

Craft(r) ==
  /\ pc[r] = "crafting"
  /\ \/ crafted' = crafted \cup {Text(r)}
     \/ UNCHANGED crafted
  /\ held' = [held EXCEPT ![r] = FALSE]
  /\ pc' = [pc EXCEPT ![r] = "gate"]
  /\ UNCHANGED <<body, out, sub, got, row, inflight, decomposed, store, cfg, ghosts>>

\* Whether a write of the database succeeds.
Succeeds(write) == {TRUE} \cup (IF write \in Faults THEN {FALSE} ELSE {})

\* Mutant: a row that cannot be updated is only logged, not marked.
RowOnlyLogged(updated, marked) == IF updated THEN "done" ELSE "streaming"

\* The row of a call that is over. When its result cannot be written, the row
\* is marked as failed; when that cannot be written either, it stays.
RowAfter(updated, marked) ==
  IF updated THEN "done" ELSE IF marked THEN "failed" ELSE "streaming"

\* The call is over with d: store it, wake the waiters, finish the row. A store
\* that throws leaves nothing to write to the row. The request's image gets a
\* placeholder when the store or the last write threw; the waiters get the
\* empty text, and only when the store did.
CallEnds(r, d) ==
  \E a \in GetOrCompute(store, Current(r).img, Context(r), d),
     written \in Succeeds("update"), marked \in Succeeds("state") :
    LET updated == a.ok /\ written IN
    /\ store' = a.store
    /\ ResolveAndDeliver(r, IF a.ok THEN a.desc ELSE Empty,
                            IF a.ok /\ (written \/ marked) THEN a.desc ELSE Failed)
    /\ row' = [row EXCEPT ![r] = RowAfter(updated, marked)]
    /\ unmarked' = [unmarked EXCEPT ![r] = IF updated \/ marked THEN 0 ELSE CurrentPlace(r)]

\* The vision call's own permit. Without a target, with the gate's refusal or
\* an abort in the queue, the call ends in a placeholder.
GateRefuses(r) ==
  /\ pc[r] = "gate"
  /\ CallEnds(r, Failed)
  /\ UNCHANGED <<body, sub, held, crafted, decomposed, cfg, orphaned>>

GateGrants(r) ==
  /\ pc[r] = "gate" /\ cfg.configured
  /\ held' = [held EXCEPT ![r] = TRUE]
  /\ pc' = [pc EXCEPT ![r] = "fetching"]
  /\ UNCHANGED <<body, out, sub, got, row, inflight, crafted, decomposed, store, cfg, ghosts>>

\* The model describes the image, or it does not: an error status, a body that
\* cannot be parsed or is empty, a network error, the timeout or the client's
\* abort. The permit goes back in the finally.
Fetched(r) ==
  /\ pc[r] = "fetching"
  /\ \E d \in {Failed, Described(Current(r).img, Asked(r))} : CallEnds(r, d)
  /\ held' = [held EXCEPT ![r] = FALSE]
  /\ UNCHANGED <<body, sub, crafted, decomposed, cfg, orphaned>>

\* The proxy goes on with the rewritten body; the slot is free again.
Finish(r) ==
  /\ pc[r] = "done"
  /\ pc' = [pc EXCEPT ![r] = "idle"]
  /\ body' = [body EXCEPT ![r] = NoBody]
  /\ out' = [out EXCEPT ![r] = <<>>]
  /\ sub' = [sub EXCEPT ![r] = FALSE]
  /\ row' = [row EXCEPT ![r] = "none"]
  /\ unmarked' = [unmarked EXCEPT ![r] = 0]
  /\ UNCHANGED <<got, held, inflight, crafted, decomposed, store, cfg, orphaned>>

-----------------------------------------------------------------------------
FlushTimer ==
  /\ store.timer
  /\ store' \in FlushNow(store)
  /\ UNCHANGED <<pc, body, out, sub, got, held, row, inflight, crafted, decomposed, cfg, ghosts>>

Age ==
  /\ \E k \in Key : \/ store.lru[k] # None /\ store' = Forgotten(store, k)
                    \/ store' = Expired(store, k) /\ store' # store
  /\ UNCHANGED <<pc, body, out, sub, got, held, row, inflight, crafted, decomposed, cfg, ghosts>>

\* A shutdown or a crash, and the next start: only the table survives.
Restart ==
  /\ store' \in Restarted(store)
  /\ pc' = [r \in Req |-> "idle"]
  /\ body' = [r \in Req |-> NoBody]
  /\ out' = [r \in Req |-> <<>>]
  /\ sub' = [r \in Req |-> FALSE]
  /\ got' = [r \in Req |-> None]
  /\ held' = [r \in Req |-> FALSE]
  /\ row' = [r \in Req |-> "none"]
  /\ inflight' = [i \in Img |-> NoReq]
  /\ orphaned' = {} /\ unmarked' = [r \in Req |-> 0]
  /\ crafted' = {} /\ decomposed' = {}
  /\ UNCHANGED cfg

Step(r) ==
  \/ SplitGate(r) \/ Split(r)
  \/ ImageRefused(r) \/ ImageCached(r) \/ ImageJoined(r) \/ ImageLeads(r) \/ AllImages(r)
  \/ Resume(r) \/ TranscodeFails(r) \/ Transcoded(r) \/ InsertFails(r)
  \/ CraftGate(r) \/ Craft(r) \/ GateRefuses(r) \/ GateGrants(r) \/ Fetched(r)

Next ==
  \/ \E r \in Req : Step(r) \/ Finish(r) \/ \E b \in cfg.traffic[r] : Begin(r, b)
  \/ FlushTimer \/ Age \/ Restart

Spec == Init /\ [][Next]_vars

-----------------------------------------------------------------------------
\* What a request is given for an image describes that very image or says that
\* there is no description, and a cache never holds a description under
\* another image's key, a failure, or nothing. What is written under a context
\* answers the question of that context: "the triage decision MUST match
\* callVisionRecorded's" (image-processor.ts:244). Memory may also hold, under a
\* context, the promoted answer to another question.
DescribesItsImage ==
  /\ \A r \in Req : \A j \in DOMAIN out[r] :
       out[r][j].kind = "ok" => out[r][j].img = body[r].parts[j].img
  /\ \A k \in Key : store.lru[k] # None => store.lru[k].kind = "ok" /\ store.lru[k].img = k[1]
  /\ \A w \in {[key |-> k, desc |-> store.rows[k].desc] : k \in Key}
             \cup {[key |-> store.pend[j].key, desc |-> store.pend[j].desc] : j \in DOMAIN store.pend} :
       w.desc # None => /\ w.desc.kind = "ok" /\ w.desc.img = w.key[1]
                        /\ w.key[2] # NoCtx => w.desc.asked = w.key[2][1]

AtWork == {"transcoding", "craftGate", "crafting", "gate", "fetching"}

\* An image is described by at most one request at a time, its entry in the
\* in-flight map belongs to a request that will resolve it, and a request that
\* waits for an image waits for such an entry: otherwise it, and every later
\* request for the image, waits for good (image-processor.ts:325-354). The
\* only exception is a row that cannot be inserted or marked between the two.
InflightOwned ==
  \A i \in Img :
    LET leaders == {r \in Req : pc[r] \in AtWork /\ Current(r).img = i} IN
    /\ inflight[i] = NoReq => leaders = {}
    /\ inflight[i] # NoReq => leaders = IF i \in orphaned THEN {} ELSE {inflight[i]}
    /\ \A r \in Req : (pc[r] = "joined" /\ Current(r).img = i) => inflight[i] # NoReq

\* A row that is not settled, and a request whose image got the placeholder
\* of a failure because its row could not be marked.
OpenRow == {"enqueued", "streaming"}
MarkThrew(r) == unmarked[r] \in DOMAIN out[r] /\ out[r][unmarked[r]] = Failed

\* Every permit is returned before the next await, and a request that goes on
\* leaves no row of a vision call open, neither enqueued nor streaming (the
\* finally blocks of craft.ts, decompose.ts and image-processor.ts, and the
\* catch around the update). The only exception is a state write that throws
\* (image-processor.ts:409, 436, 482), and then that image of the request got
\* the placeholder of a failure, never a description.
NothingLeftOpen ==
  \A r \in Req :
    /\ held[r] <=> pc[r] \in {"splitting", "crafting", "fetching"}
    /\ row[r] \in OpenRow => pc[r] \in AtWork \/ MarkThrew(r)

\* The store never answers with a description older than the last one that
\* was written for the key, whatever mixture of pending, failed, flushed and
\* expired writes there is; only a write that was given up may be missing.
ReadsLatest ==
  \A k \in Key \ store.fallen : PersistentGet(store, k) \in {None, store.latest[k]}
=============================================================================
