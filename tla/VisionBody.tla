------------------------------ MODULE VisionBody ------------------------------
(***************************************************************************)
(* The pure part of the vision handoff: which requests are intercepted,    *)
(* how image blocks are found in a body, which strategy a question gets,   *)
(* and how the blocks are replaced by descriptions (vision/detect.ts,      *)
(* vision/triage.ts, vision/wrapper.ts and the body of handoff.ts).        *)
(*                                                                         *)
(* A body is a sequence of messages and a message a sequence of blocks,    *)
(* with the blocks of tool results in their place: finder and replacer     *)
(* both walk depth first, so nesting is only the flag "tool".              *)
(***************************************************************************)
EXTENDS Naturals, FiniteSets, Sequences

\* "other" is an image whose source is neither inline nor a URL (a file id);
\* "void" is an image block that has no source or URL at all.
ImageKinds == {"base64", "url", "other", "void"}
Api == {"openai", "anthropic"}

\* What triage asks of the text next to the images. The empty set is no text.
TextFeatures == {"present", "generic", "comparative", "reference", "relational", "long"}
VisionModes == {"off", "slotted", "crafted", "auto"}

-----------------------------------------------------------------------------
\* The places of a body, and those of its blocks of some kinds.
Places(body) == UNION {{<<m, i>> : i \in DOMAIN body[m]} : m \in DOMAIN body}
At(body, p) == body[p[1]][p[2]]
PlacesOf(kinds, body) == {p \in Places(body) : At(body, p).kind \in kinds}

\* Places in walking order: the k-th is the one with k of them up to it.
UpTo(S, p) == {q \in S : q[1] < p[1] \/ (q[1] = p[1] /\ q[2] <= p[2])}
Walked(S) == [k \in 1..Cardinality(S) |-> CHOOSE p \in S : Cardinality(UpTo(S, p)) = k]

ImagePlaces(body) == Walked(PlacesOf(ImageKinds, body))

\* Counted by the position cursor: an OpenAI part without a URL is not, an
\* Anthropic image with an unknown kind of source is.
Positioned(api, kind) ==
  kind \in (IF api = "openai" THEN {"base64", "url"} ELSE {"base64", "url", "other"})

\* The parts that are found. batchSize counts every image block of the message.
FindImageParts(api, body) ==
  LET found == Walked(PlacesOf({"base64", "url"}, body))
      upTo(p) == {i \in 1..p[2] : Positioned(api, body[p[1]][i].kind)}
      ofMessage(m) == {i \in DOMAIN body[m] : body[m][i].kind \in ImageKinds}
  IN [k \in DOMAIN found |->
        [place |-> found[k],
         enc   |-> At(body, found[k]).kind,
         tool  |-> At(body, found[k]).tool,
         pos   |-> Cardinality(upTo(found[k])),
         batch |-> Cardinality(ofMessage(found[k][1]))]]

\* Mutant: the newest images are kept.
KeptNewest(parts, maxImages) ==
  IF Len(parts) > maxImages THEN SubSeq(parts, Len(parts) - maxImages + 1, Len(parts)) ELSE parts

\* applyMaxImagesPolicy()
Kept(parts, maxImages) == IF Len(parts) > maxImages THEN SubSeq(parts, 1, maxImages) ELSE parts
Overflow(parts, maxImages) == Len(parts) - Len(Kept(parts, maxImages))

-----------------------------------------------------------------------------
\* triageVision(): the first rule that applies wins.
TriageVision(text, tool, imageCount) ==
  IF tool \/ "present" \notin text \/ "generic" \in text THEN "generic"
  ELSE IF imageCount > 1
       THEN IF "comparative" \in text THEN "generic"
            ELSE IF "reference" \in text THEN "decomposed" ELSE "slotted"
       ELSE IF text \cap {"relational", "long"} # {} THEN "crafted" ELSE "slotted"

\* resolveTriageStrategy(): the configured mode may force a strategy.
ResolveStrategy(mode, text, tool, imageCount) ==
  IF mode = "auto" THEN TriageVision(text, tool, imageCount)
  ELSE IF mode = "off" \/ tool THEN "generic"
  ELSE IF mode = "crafted" /\ imageCount <= 1 THEN "crafted" ELSE "slotted"

\* Index of the sub-question a part is given after a decomposition:
\* perImageQuestions[positionInBatch - 1], counted from one here.
SubQuestion(part) == part.pos

-----------------------------------------------------------------------------
\* replaceImageBlocks(): the k-th image block of the body, whatever its kind,
\* receives the k-th description; the others stay as they are.
Replaced(body, descriptions) ==
  LET images == ImagePlaces(body) IN
  [k \in DOMAIN images |-> IF k <= Len(descriptions)
                           THEN [text |-> TRUE, is |-> descriptions[k]]
                           ELSE [text |-> FALSE, is |-> images[k]]]

\* The message that receives the text about omitted images: the first one
\* after which all descriptions are used (0: no message does).
OverflowAt(body, descriptions, overflow) ==
  LET imagesUpTo(m) == Cardinality({p \in PlacesOf(ImageKinds, body) : p[1] <= m})
      full == {m \in DOMAIN body : imagesUpTo(m) >= Len(descriptions)}
  IN IF overflow = 0 \/ full = {} THEN 0
     ELSE CHOOSE m \in full : \A n \in full : m <= n

\* The rewritten body, every kept image with the description of its own place:
\* processBody(), or processBodyCacheOnly() when all of them are cached. The
\* latter caps the images as well, but passes no overflow on.
Rewrite(api, body, maxImages, cached) ==
  LET parts == FindImageParts(api, body)
      kept == Kept(parts, maxImages)
      descriptions == [k \in DOMAIN kept |-> kept[k].place]
  IN [blocks |-> Replaced(body, descriptions),
      omitted |-> OverflowAt(body, descriptions, IF cached THEN 0 ELSE Overflow(parts, maxImages))]

\* Only inline images are looked up by processBodyCacheOnly().
FromCache(kept) == IF \A k \in DOMAIN kept : kept[k].enc = "base64" THEN BOOLEAN ELSE {FALSE}

-----------------------------------------------------------------------------
\* An image block is only ever replaced by the description of that very block
\* (findOpenAIImageParts, emitAnthropicImages and replaceImageBlocks walk the
\* body separately and must agree), and every kept image is replaced. A body
\* that went through processBody() has a note on omitted images exactly when
\* some were omitted, in no message before the last description: "so the model
\* still sees them in conversation order" (wrapper.ts:148-150). A body served
\* from the cache has none.
RewriteAligned(api, body, maxImages) ==
  LET images == ImagePlaces(body)
      kept == Kept(FindImageParts(api, body), maxImages)
  IN \A cached \in FromCache(kept) :
       LET result == Rewrite(api, body, maxImages, cached) IN
       /\ \A k \in DOMAIN images : result.blocks[k].text => result.blocks[k].is = images[k]
       /\ \A j \in DOMAIN kept : \E k \in DOMAIN images :
            images[k] = kept[j].place /\ result.blocks[k].text
       /\ result.omitted # 0 <=> (~cached /\ Len(images) > maxImages)
       /\ result.omitted # 0 => \A j \in DOMAIN kept : kept[j].place[1] <= result.omitted

\* All strategies that need the question see the same one: in a body of one
\* message, the batch decision of processBody() and the decision processImage()
\* repeats for each part agree, and part k is asked sub-question k.
StrategiesAgree(api, message, text, mode) ==
  LET parts == FindImageParts(api, <<message>>)
      batch == ResolveStrategy(mode, text, parts[1].tool, Len(parts))
  IN parts # <<>> =>
       \A k \in DOMAIN parts :
          /\ parts[k].tool = parts[1].tool =>
               ResolveStrategy(mode, text, parts[k].tool, parts[k].batch) = batch
          /\ SubQuestion(parts[k]) = k
=============================================================================
