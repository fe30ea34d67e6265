------------------------------ MODULE MCParts -------------------------------
(***************************************************************************)
(* The small parts of the proxy in one run. The pure functions on          *)
(* configurations, requests, responses and days are checked case by case:  *)
(* a step picks a case. The tables of the database and the sliding windows *)
(* are state machines: an initial state picks one, only its steps follow.  *)
(***************************************************************************)
EXTENDS Captures, Economics, UsageHistory, UsageEvents, RewriteIds, RateWindow, Feed, TLC

Cfg == INSTANCE Config
Stamps == INSTANCE Stamping
Usage == INSTANCE UsageExtract
Images == INSTANCE VisionBody
Daily == INSTANCE DailyRow WITH HourLen <- 2, HourCount <- 3, GapThreshold <- 2, IdleTimeout <- 2

VARIABLE case

Machine(name) == [about |-> name]
Nothing == Machine("nothing")

-----------------------------------------------------------------------------
\* Values around every bound of a field rule, as numbers and as the text the
\* form sends, and one of every other kind.
Edges == {-2, -1, 0, 1, 2, 3, 4, 14, 15, 20, 21, 99, 100, 101, 199, 200, 255, 256, 1000, 1001,
          65535, 65536, 200001}
Values ==
  {Cfg!Num(k) : k \in Edges} \cup {Cfg!Digits(k) : k \in Edges} \cup {Cfg!Text(k) : k \in 0..5}
    \cup {Cfg!Upward, Cfg!Frac, Cfg!Empty, Cfg!Flag(0), Cfg!Flag(1), Cfg!Null, Cfg!Absent, Cfg!List}

-----------------------------------------------------------------------------
ModelNames == {<<"glm", "52">>, <<"coder">>, <<"flash">>, <<"deepseek">>, <<"kimi", "k3">>,
           <<"kimi", "k27">>, <<"qwen", "35b">>, <<"gpt">>}
KeepRule == [Stamps!NoRule EXCEPT !.star = TRUE, !.anthropic = "keep", !.openai = "enabled"]
Rules == {<<>>, Stamps!ToggleRule(<<>>, 1, TRUE), Stamps!CANONICAL_STAMP_MODEL_RULES, <<KeepRule>>}
Listed == {<<>>, <<"coder">> :> TRUE, <<"flash">> :> FALSE}
Contexts ==
  {[openai |-> o, claudeCode |-> c, reasoning |-> r, stripOmo |-> TRUE,
    policy |-> Stamps!resolveStampPolicy(m, l),
    rule |-> Stamps!resolvePerModelRule(m, Stamps!ParsedRules(rs))] :
      o \in BOOLEAN, c \in BOOLEAN, r \in BOOLEAN, m \in ModelNames, rs \in Rules, l \in Listed}

TextBlock(o, bp) == [text |-> TRUE, omo |-> o, bp |-> bp]
BlockLists ==
  {<<>>, <<TextBlock(FALSE, "bare")>>, <<TextBlock(TRUE, "none")>>,
   <<TextBlock(FALSE, "bare"), TextBlock(TRUE, "none")>>,
   <<TextBlock(TRUE, "none"), TextBlock(FALSE, "ttl")>>}
Plain ==
  [thinking |-> "absent", reasoning_effort |-> "absent", output_config |-> "absent",
   max_tokens |-> 1, temperature |-> "absent", top_k |-> "absent",
   context_management |-> FALSE, stream |-> TRUE, include_usage |-> FALSE, extra |-> FALSE,
   system |-> <<>>, messages |-> <<>>]
Requests ==
  {[Plain EXCEPT !.thinking = t, !.reasoning_effort = e, !.output_config = oc,
                 !.temperature = te, !.top_k = "mine"] :
      t \in Stamps!Thinking, e \in Stamps!Effort, oc \in {"absent", "low"},
      te \in {"absent", "half"}}
  \cup {[Plain EXCEPT !.thinking = t] : t \in Stamps!Thinking}
Conversations ==
  {[Plain EXCEPT !.system = s, !.messages = <<[user |-> u, blocks |-> b], [user |-> v, blocks |-> c]>>] :
      s \in BlockLists, u \in BOOLEAN, v \in BOOLEAN, b \in BlockLists, c \in BlockLists}

-----------------------------------------------------------------------------
Event(k, i, o, c) == [kind |-> k, input |-> i, output |-> o, create |-> c, read |-> Usage!None]
Silent(k) == Event(k, Usage!None, Usage!None, Usage!None)
Events == {Event("start", 3, 1, 2), Event("delta", Usage!None, 5, Usage!None),
           Event("delta", 4, 6, 1), Silent("delta"), Silent("content")}
Streams == [1..2 -> Events] \cup {<<Event("start", 3, 1, 2), Silent("content"), e>> : e \in Events}

-----------------------------------------------------------------------------
\* Up to two blocks in each of two messages.
ImageBlocks == {[kind |-> k, tool |-> t] : k \in {"text", "base64", "url"}, t \in BOOLEAN}
Messages == UNION {[1..n -> ImageBlocks] : n \in 0..2}
-----------------------------------------------------------------------------
\* Three samples, or four of fewer kinds, at any times of a day of six ticks; and
\* a day with two bans of which the first is closed, or morphs, or is cut short
\* by its box.
Sample(t, n, k, d) ==
  [at |-> t, sessions |-> n, tokens |-> k, low |-> d, boxed |-> IF d THEN 4 ELSE Daily!NoBox,
   demoted |-> d, mode |-> IF d THEN "burst" ELSE "normal", rest |-> t % 2]
Times(n) == {ts \in [1..n -> 0..(Daily!DayTicks - 1)] : \A i \in 1..(n - 1) : ts[i] < ts[i + 1]}
DaysOf(n, tokens, flags) ==
  {[i \in 1..n |-> Sample(ts[i], ns[i], ks[i], ds[i])] :
     ts \in Times(n), ns \in [1..n -> {0, 1}], ks \in [1..n -> tokens], ds \in [1..n -> flags]}
Ban(t, tr, prev, box) == [kind |-> "priority", at |-> t, transition |-> tr, prev |-> prev, boxed |-> box]
BanDays ==
  {<<Ban(0, "onset", 0, box), Ban(1, tr, 1, box), Ban(2, "resolved", 2, Daily!NoBox),
     Ban(3, "onset", 0, box)>> : tr \in {"resolved", "morph"}, box \in {Daily!NoBox, 1, 4}}
SampleDays ==
  {<<>>} \cup DaysOf(3, {0, 1}, BOOLEAN) \cup DaysOf(4, {0, 1}, {FALSE}) \cup DaysOf(5, {0}, {FALSE})

-----------------------------------------------------------------------------
Init ==
  /\ case \in {Nothing} \cup {Machine(m) : m \in {"captures", "costs", "history", "events", "ids", "windows", "feed"}}
  /\ CapturesInit /\ EconInit /\ HistoryInit /\ EventsInit /\ RewriteInit /\ WindowInit /\ FeedInit
  /\ case # Machine("costs") => mode = CHOOSE m \in Modes : TRUE
  /\ case # Machine("history") => retention = CHOOSE r \in Retentions : TRUE

machines == <<captureVars, econVars, historyVars, eventVars, rewriteVars, windowVars, feedVars>>

Pick(c) == case' = c /\ UNCHANGED machines

PickForm ==
  /\ case = Nothing
  /\ \E f \in Cfg!Field, v \in Values : Pick([about |-> "form", field |-> f, value |-> v])
PickStamp ==
  /\ case = Nothing
  /\ \E c \in Contexts, b \in Requests \cup Conversations :
        Pick([about |-> "stamp", ctx |-> c, body |-> b])
PickStream ==
  /\ case = Nothing
  /\ \E a \in BOOLEAN, s \in Streams, n \in 0..12 : \E cs \in SUBSET (1..n) :
        /\ Cardinality(cs) <= 2
        /\ Pick([about |-> "stream", anthropic |-> a, stream |-> s, sent |-> n, cuts |-> cs])
PickImages ==
  /\ case = Nothing
  /\ \E a \in Images!Api, m1 \in Messages, m2 \in Messages, n \in 0..3 :
        Pick([about |-> "images", api |-> a, body |-> <<m1, m2>>, max |-> n])
PickDay ==
  /\ case = Nothing
  /\ \/ \E ss \in SampleDays : Pick([about |-> "day", samples |-> ss, events |-> <<>>])
     \/ \E es \in BanDays :
          Pick([about |-> "day", samples |-> <<Sample(0, 1, 0, TRUE)>>, events |-> es])

CapturesStep ==
  /\ case = Machine("captures") /\ CapturesNext
  /\ UNCHANGED <<case, econVars, historyVars, eventVars, rewriteVars, windowVars, feedVars>>
CostsStep ==
  /\ case = Machine("costs") /\ EconNext
  /\ UNCHANGED <<case, captureVars, historyVars, eventVars, rewriteVars, windowVars, feedVars>>
HistoryStep ==
  /\ case = Machine("history") /\ HistoryNext
  /\ UNCHANGED <<case, captureVars, econVars, eventVars, rewriteVars, windowVars, feedVars>>
EventsStep ==
  /\ case = Machine("events") /\ EventsNext
  /\ UNCHANGED <<case, captureVars, econVars, historyVars, rewriteVars, windowVars, feedVars>>
RewriteStep ==
  /\ case = Machine("ids") /\ RewriteNext
  /\ UNCHANGED <<case, captureVars, econVars, historyVars, eventVars, windowVars, feedVars>>
WindowStep ==
  /\ case = Machine("windows") /\ WindowNext
  /\ UNCHANGED <<case, captureVars, econVars, historyVars, eventVars, rewriteVars, feedVars>>
FeedStep ==
  /\ case = Machine("feed") /\ FeedNext
  /\ UNCHANGED <<case, captureVars, econVars, historyVars, eventVars, rewriteVars, windowVars>>

Next ==
  \/ PickForm \/ PickStamp \/ PickStream \/ PickImages \/ PickDay
  \/ CapturesStep \/ CostsStep \/ HistoryStep \/ EventsStep \/ RewriteStep \/ WindowStep
  \/ FeedStep

\* Constants. One model with a seed price and one without; two degraded
\* priorities, so that one can become the other; capture 2 ends without usage.
MCModels == {"seeded", "new"}
MCSeed == "seeded" :> [in |-> 1400, cr |-> 260, known |-> 0]
MCUsages == {[in |-> 1, cr |-> 1]}
MCDegraded == "priority" :> {1, 2} @@ "service_mode" :> {1}
MCBillable == Ids \ {2}
UpCaps == {Unknown, 1, 2}

-----------------------------------------------------------------------------
\* An edit the form lets through is accepted by the server, and the value that
\* is saved is the one the configuration then holds, over every field and the
\* values around its bounds (validation.ts, loader.ts, reload.ts and the form's
\* own rules; exceptions in Config!EditsReachConfig).
FormEdits == case.about = "form" => Cfg!EditsReachConfig(case.field, case.value)

\* What the stamping steps leave behind agrees, for every model family, rule
\* list and shape of request (see Stamping!StampsConsistent).
StampedBodies == case.about = "stamp" => Stamps!StampsConsistent(case.ctx, case.body)

\* How the network cuts a stream changes no count of its tokens, for durations
\* shorter and longer than the stream (see UsageExtract!ChunkingIrrelevant).
StreamCounts ==
  case.about = "stream" =>
    \A wall \in {0, 2, 9} :
       case.sent <= 4 * Len(case.stream) =>
         Usage!ChunkingIrrelevant(case.anthropic, case.stream, case.sent, case.cuts, wall)

\* Every image within the maximum gets the description of that very block, for
\* bodies whose images both walkers see, whether the descriptions are asked for
\* or served from the cache; a note on omitted images never comes before the
\* last description (see VisionBody!RewriteAligned). Each is asked by the
\* strategy the whole batch was decided for (VisionBody!StrategiesAgree).
ImageRewrites ==
  case.about = "images" =>
    /\ Images!RewriteAligned(case.api, case.body, case.max)
    /\ case.max = 0 /\ case.body[2] = <<>> =>
         \A text \in SUBSET Images!TextFeatures, m \in Images!VisionModes :
            Images!StrategiesAgree(case.api, case.body[1], text, m)

\* What the row of a day says of it is consistent, for samples at any times with
\* gaps, idle and silent sessions between them (see DailyRow!MeasuresAgree).
DayMeasures == case.about = "day" => Daily!MeasuresAgree(case.samples, case.events)
=============================================================================
