----------------------------- MODULE UsageExtract -----------------------------
(***************************************************************************)
(* From a streamed response to token counts (usage/sse-parse.ts,           *)
(* usage/extract.ts, usage/helpers.ts). The network cuts the stream into   *)
(* timed chunks anywhere, also inside an event or inside the blank line    *)
(* between two events.                                                     *)
(*                                                                         *)
(* The text of an event is two symbols, its first and its second half; a   *)
(* newline is a symbol. A block parses when both halves of an event are in *)
(* it, one after the other.                                                *)
(***************************************************************************)
EXTENDS Integers, Sequences, FiniteSets, SequencesExt

None == -1

First(i) == [half |-> 1, ev |-> i]
Second(i) == [half |-> 2, ev |-> i]
Newline == [half |-> 0, ev |-> 0]

\* The text the upstream writes for n events; an aborted one may stop anywhere.
Written(n) == FlattenSeq([i \in 1..n |-> <<First(i), Second(i), Newline, Newline>>])

\* A chunking: the positions after which the text is cut, as chunks with the
\* time of their arrival.
Chunks(text, cuts) ==
  LET ends == SetToSortSeq(cuts \cup {Len(text)}, <)
  IN [k \in DOMAIN ends |->
        [text |-> SubSeq(text, IF k = 1 THEN 1 ELSE ends[k - 1] + 1, ends[k]), time |-> k]]

-----------------------------------------------------------------------------
\* Where the first blank line of a buffer starts, or 0: indexOf("\n\n").
BlankLine(buf) ==
  LET at == {i \in 1..(Len(buf) - 1) : buf[i] = Newline /\ buf[i + 1] = Newline}
  IN IF at = {} THEN 0 ELSE CHOOSE i \in at : \A j \in at : i <= j

\* parseEventBlock() and parseDataLine(): a half line is no JSON and is dropped.
Parsed(block) ==
  LET whole == {i \in 1..(Len(block) - 1) :
                  block[i].half = 1 /\ block[i + 1] = Second(block[i].ev)}
  IN [k \in 1..Cardinality(whole) |-> block[SetToSortSeq(whole, <)[k]].ev]

Timed(evs, time) == [k \in DOMAIN evs |-> [ev |-> evs[k], at |-> time]]

\* The while loop over the complete blocks of a buffer, as at most Len(buf)
\* rounds.
Drained(buf, time) ==
  LET step[n \in 0..Len(buf)] ==
        IF n = 0 THEN [buf |-> buf, out |-> <<>>]
        ELSE LET s == step[n - 1]
                 i == BlankLine(s.buf)
             IN IF i = 0 THEN s
                ELSE [buf |-> SubSeq(s.buf, i + 2, Len(s.buf)),
                      out |-> s.out \o Timed(Parsed(SubSeq(s.buf, 1, i - 1)), time)]
  IN step[Len(buf)]

\* Mutant: every chunk is parsed by itself.
SseUnbuffered(chunks) ==
  FlattenSeq([k \in DOMAIN chunks |-> Timed(Parsed(chunks[k].text), chunks[k].time)])

\* parseAnthropicSse() and parseOpenAiSse(): the rest of the buffer is parsed
\* at the end, with the time of the last chunk.
ParseSse(chunks) ==
  LET Take(s, chunk) == LET d == Drained(s.buf \o chunk.text, chunk.time)
                        IN [buf |-> d.buf, out |-> s.out \o d.out]
      end == FoldLeft(Take, [buf |-> <<>>, out |-> <<>>], chunks)
  IN IF chunks = <<>> THEN <<>>
     ELSE end.out \o Timed(Parsed(end.buf), Last(chunks).time)

-----------------------------------------------------------------------------
\* num(): what is not a number counts as 0.
NumOr0(v) == IF v = None THEN 0 ELSE v

\* computeTps(), in tokens per 1000 time units and never for less than one unit
\* of generation.
computeTps(output, duration, ttft, unit) ==
  LET gen == IF ttft # None /\ ttft > 0 THEN duration - ttft ELSE duration
  IN IF output = None \/ output <= 0 \/ duration = None \/ gen < unit THEN None
     ELSE (output * unit) \div gen

\* An event of a kind "start", "delta" (usage), "content" or "ping", with the
\* counts it carries (None where it carries none).
NoMetrics == [input |-> None, output |-> None, create |-> 0, read |-> 0, total |-> None,
              ttft |-> None, last |-> None, missing |-> TRUE]

Over(new, old) == IF new = None THEN old ELSE new

\* The loop of extractAnthropicStreaming(): a start seeds the input counts, a
\* delta overwrites what it carries, the first content gives the latency.
AnthropicEvent(m, e, at, start) ==
  LET t == [m EXCEPT !.last = at] IN
  CASE e.kind = "start" -> [t EXCEPT !.input = NumOr0(e.input), !.create = NumOr0(e.create),
                                     !.read = NumOr0(e.read), !.missing = FALSE]
    [] e.kind = "delta" -> [t EXCEPT !.output = Over(e.output, m.output),
                                     !.input = Over(e.input, m.input),
                                     !.create = Over(e.create, m.create),
                                     !.read = Over(e.read, m.read),
                                     !.missing = m.missing /\ e.output = None]
    [] e.kind = "content" -> [t EXCEPT !.ttft = IF m.ttft = None THEN at - start ELSE m.ttft]
    [] OTHER -> t

\* What both streaming extractors do after the loop: the duration is the wall
\* clock's, or the last event's if that is later.
Finished(m, start, wall) ==
  LET byEvents == IF m.last = None THEN 0 ELSE m.last - start
  IN [m EXCEPT !.total = IF m.input = None THEN None ELSE m.input + m.create + m.read,
               !.last = IF byEvents > wall THEN byEvents ELSE wall]

extractAnthropicStreaming(events, stream, start, wall) ==
  LET Step(m, x) == AnthropicEvent(m, stream[x.ev], x.at, start)
  IN Finished(FoldLeft(Step, NoMetrics, events), start, wall)

\* extractOpenAiStreaming(): the last usage object counts as a whole, whatever
\* the chunk that carries it looks like.
extractOpenAiStreaming(events, stream, start, wall) ==
  LET Step(m, x) ==
        LET e == stream[x.ev]
            t == [m EXCEPT !.last = x.at,
                           !.ttft = IF m.ttft = None /\ e.kind = "content" THEN x.at - start
                                    ELSE m.ttft]
        IN IF e.kind # "delta" THEN t
           ELSE [t EXCEPT !.input = NumOr0(e.input), !.output = NumOr0(e.output),
                          !.read = NumOr0(e.read), !.missing = FALSE]
      m == Finished(FoldLeft(Step, NoMetrics, events), start, wall)
  IN [m EXCEPT !.total = m.input]

\* The extractors of a body that was not streamed, with usage u.
extractAnthropicNonStreaming(u, wall) ==
  [NoMetrics EXCEPT !.input = NumOr0(u.input), !.output = NumOr0(u.output),
     !.create = NumOr0(u.create), !.read = NumOr0(u.read), !.last = wall,
     !.total = NumOr0(u.input) + NumOr0(u.create) + NumOr0(u.read), !.missing = FALSE]

extractOpenAiNonStreaming(u, wall) ==
  [NoMetrics EXCEPT !.input = NumOr0(u.input), !.output = NumOr0(u.output),
     !.read = NumOr0(u.read), !.last = wall, !.total = NumOr0(u.input), !.missing = FALSE]

\* extractUsage(): dispatch on the provider and on whether the answer was
\* streamed; u is the usage of a body that was not.
extractUsage(anthropic, streaming, chunks, stream, u, wall) ==
  IF streaming
  THEN IF anthropic THEN extractAnthropicStreaming(ParseSse(chunks), stream, 0, wall)
       ELSE extractOpenAiStreaming(ParseSse(chunks), stream, 0, wall)
  ELSE IF anthropic THEN extractAnthropicNonStreaming(u, wall)
       ELSE extractOpenAiNonStreaming(u, wall)

-----------------------------------------------------------------------------
\* What a stream reports, from its events alone.
LastOf(stream, Carries(_), field) ==
  LET at == {i \in DOMAIN stream : Carries(stream[i])}
  IN IF at = {} THEN None ELSE stream[CHOOSE i \in at : \A j \in at : j <= i][field]

\* How a stream was cut into chunks, and where an aborted one stopped, changes
\* no count: the tokens are those a body that is not streamed would report with
\* the last values of the events that arrived whole, never their sum; and the
\* latency never exceeds the duration, so that no rate is computed over a
\* negative time.
ChunkingIrrelevant(anthropic, stream, sent, cuts, wall) ==
  LET text == SubSeq(Written(Len(stream)), 1, sent)
      whole == SubSeq(stream, 1, (sent + 2) \div 4)
      m == extractUsage(anthropic, TRUE, Chunks(text, cuts), stream, <<>>, wall)
      Field(f) == LastOf(whole, LAMBDA e : IF anthropic THEN e.kind \in {"start", "delta"} /\ e[f] # None
                                           ELSE e.kind = "delta", f)
      final == [input |-> Field("input"), create |-> Field("create"), read |-> Field("read"),
                output |-> LastOf(whole, LAMBDA e : e.kind = "delta" /\ (anthropic => e.output # None),
                                  "output")]
      batch == extractUsage(anthropic, FALSE, <<>>, <<>>, final, wall)
      started == \E i \in DOMAIN whole : whole[i].kind = "start"
  IN /\ ~m.missing /\ (anthropic => started /\ final.output # None) =>
          /\ m.input = batch.input /\ m.output = batch.output /\ m.read = batch.read
          /\ m.total = batch.total /\ (anthropic => m.create = batch.create)
     /\ m.missing <=> ~\E i \in DOMAIN whole :
                         IF anthropic THEN whole[i].kind = "start"
                                           \/ (whole[i].kind = "delta" /\ whole[i].output # None)
                         ELSE whole[i].kind = "delta"
     /\ m.ttft # None => 0 <= m.ttft /\ m.ttft <= m.last
     /\ computeTps(m.output, m.last, m.ttft, 1) # None =>
          computeTps(m.output, m.last, m.ttft, 1) >= 0
=============================================================================
