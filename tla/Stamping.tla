------------------------------- MODULE Stamping -------------------------------
(***************************************************************************)
(* The stamp pipeline (stamp-pipeline.ts and the stamp-*.ts it drives):    *)
(* ten steps that change a request body before it is forwarded, governed   *)
(* by the policy of the model's family (stamp-catalog.ts), the models the  *)
(* upstream lists (model-info-parser.ts) and the user's rules.             *)
(*                                                                         *)
(* A model name is a sequence of name parts, so that a pattern ending in a *)
(* star is a prefix. A body keeps the fields the steps read or write.      *)
(***************************************************************************)
EXTENDS Integers, Sequences, FiniteSets, SequencesExt

\* A field of a body: absent, or one of the values the steps tell apart.
\* "off" stands for every disabled form of thinking.
Thinking == {"absent", "off", "budget", "enabled", "keep", "clear", "adaptive"}
Effort == {"absent", "none", "low", "high", "max"}

-----------------------------------------------------------------------------
\* STAMP_OVERLAY, in the order of its declaration.
Family(name, star, tokens, effort, topK, canDisable, shape) ==
  [name |-> name, star |-> star,
   policy |-> [max_tokens |-> tokens, effort |-> effort, top_k |-> topK,
               canDisable |-> canDisable, shape |-> shape]]

STAMP_OVERLAY == <<
  Family(<<"glm">>, TRUE, 131071, "max", TRUE, TRUE, "adaptive"),
  Family(<<"coder">>, FALSE, 32767, "high", FALSE, FALSE, "adaptive"),
  Family(<<"flash">>, FALSE, 32767, "high", FALSE, TRUE, "adaptive"),
  Family(<<"deepseek">>, FALSE, 32767, "high", FALSE, TRUE, "enabled"),
  Family(<<"kimi", "k3">>, FALSE, 131071, "max", FALSE, TRUE, "adaptive"),
  Family(<<"kimi">>, TRUE, 32767, "high", FALSE, FALSE, "adaptive"),
  Family(<<"qwen">>, TRUE, 32767, "high", FALSE, TRUE, "adaptive"),
  Family(<<>>, TRUE, 32767, "high", FALSE, TRUE, "adaptive") >>

Matches(pattern, model) ==
  IF pattern.star THEN IsPrefix(pattern.name, model) ELSE pattern.name = model

FirstMatch(patterns, model) ==
  {i \in 1..Len(patterns) : /\ Matches(patterns[i], model)
                            /\ \A j \in 1..(i - 1) : ~Matches(patterns[j], model)}

matchStampOverlay(model) ==
  STAMP_OVERLAY[CHOOSE i \in FirstMatch(STAMP_OVERLAY, model) : TRUE].policy

\* parseModelInfoResponse(): a listed model takes can_disable from the upstream
\* (FALSE when it does not say), and the rest from the overlay.
parseModelInfoResponse(model, canDisable) ==
  [matchStampOverlay(model) EXCEPT !.canDisable = canDisable]

\* `listed` is a function from the listed models to what the upstream says.
resolveStampPolicy(model, listed) ==
  IF model \in DOMAIN listed THEN parseModelInfoResponse(model, listed[model])
  ELSE matchStampOverlay(model)

NoRule == [name |-> <<>>, star |-> FALSE, anthropic |-> "none", openai |-> "none",
           extra |-> FALSE, veto |-> FALSE, force |-> FALSE]

resolvePerModelRule(model, rules) ==
  LET first == FirstMatch(rules, model)
  IN IF first = {} THEN NoRule ELSE rules[CHOOSE i \in first : TRUE]

\* The rules the configuration tab can switch on.
CANONICAL_STAMP_MODEL_RULES == <<
  [NoRule EXCEPT !.name = <<"kimi", "k27">>, !.anthropic = "keep", !.openai = "keep", !.veto = TRUE],
  [NoRule EXCEPT !.name = <<"glm", "52">>, !.anthropic = "clear", !.openai = "clear"],
  [NoRule EXCEPT !.name = <<"coder">>, !.anthropic = "keep", !.openai = "keep", !.veto = TRUE],
  [NoRule EXCEPT !.name = <<"kimi", "k3">>, !.anthropic = "adaptive", !.openai = "enabled"],
  [NoRule EXCEPT !.name = <<"flash">>, !.anthropic = "enabled", !.openai = "enabled", !.extra = TRUE],
  [NoRule EXCEPT !.name = <<"qwen", "35b">>, !.anthropic = "enabled", !.openai = "enabled",
                 !.extra = TRUE],
  [NoRule EXCEPT !.name = <<"deepseek">>, !.anthropic = "enabled", !.openai = "enabled",
                 !.force = TRUE] >>

\* toggleRule() of ModelRulesRenderer: on appends the canonical rule, off drops it.
ToggleRule(rules, i, on) ==
  LET rest == SelectSeq(rules, LAMBDA r : r.name # CANONICAL_STAMP_MODEL_RULES[i].name)
  IN IF on THEN Append(rest, CANONICAL_STAMP_MODEL_RULES[i]) ELSE rest

\* parseStampModelRules(): entries without a pattern are dropped on load.
ParsedRules(raw) == SelectSeq(raw, LAMBDA r : r.name # <<>> \/ r.star)

-----------------------------------------------------------------------------
\* Content blocks carry a breakpoint: none, one without ttl, or one with.
hasBreakpoint(block) == block.bp # "none"
WithBreakpoint(block) == IF hasBreakpoint(block) THEN block ELSE [block EXCEPT !.bp = "bare"]
WithoutBreakpoint(block) == [block EXCEPT !.bp = "none"]

\* The last user message whose content is a non-empty array.
LastUser(messages) ==
  LET user == {i \in 1..Len(messages) : messages[i].user /\ messages[i].blocks # <<>>}
  IN IF user = {} THEN 0 ELSE CHOOSE i \in user : \A j \in user : j <= i

\* restampBreakpoints(): Layout B, one on system[0] and one on the tip. A body
\* without messages is left alone; a text (an empty sequence of blocks here) is
\* never turned into an array.
restampBreakpoints(b) ==
  LET tip == LastUser(b.messages) IN
  IF b.messages = <<>> THEN b
  ELSE [b EXCEPT
    !.messages = [i \in DOMAIN b.messages |-> [b.messages[i] EXCEPT !.blocks =
      [k \in DOMAIN b.messages[i].blocks |->
         IF i = tip /\ k = Len(b.messages[i].blocks)
         THEN WithBreakpoint(b.messages[i].blocks[k])
         ELSE WithoutBreakpoint(b.messages[i].blocks[k])]]],
    !.system = [k \in DOMAIN b.system |->
      IF k > 1 THEN WithoutBreakpoint(b.system[k])
      ELSE IF b.system[k].text THEN WithBreakpoint(b.system[k]) ELSE b.system[k]]]

stampCacheTtl(b) ==
  LET Stamp(blocks) == [k \in DOMAIN blocks |->
        IF hasBreakpoint(blocks[k]) THEN [blocks[k] EXCEPT !.bp = "ttl"] ELSE blocks[k]]
  IN [b EXCEPT !.system = Stamp(b.system),
        !.messages = [i \in DOMAIN b.messages |->
                        [b.messages[i] EXCEPT !.blocks = Stamp(b.messages[i].blocks)]]]

\* stripOmoReminder(): the reminder's blocks of the first message. The n-th block
\* that stays is the one with n of them up to it.
WithoutReminder(blocks) ==
  LET staying == {k \in DOMAIN blocks : ~blocks[k].omo}
      nth(n) == CHOOSE k \in staying : Cardinality({j \in staying : j <= k}) = n
  IN [n \in 1..Cardinality(staying) |-> blocks[nth(n)]]

stripOmoReminder(b) ==
  IF b.messages = <<>> THEN b
  ELSE [b EXCEPT !.messages[1].blocks = WithoutReminder(@)]

-----------------------------------------------------------------------------
isThinkingDisabled(t) == t = "off"
isThinkingEnabled(t) == t \notin {"absent", "off"}
isReasoningEffortDisabled(e) == e \in {"absent", "none"}

\* stampThinking(): max_tokens is decided before the thinking is forced,
\* output_config after.
stampThinking(b, policy) ==
  LET limited == IF isThinkingEnabled(b.thinking)
                 THEN [b EXCEPT !.max_tokens = policy.max_tokens] ELSE b
      force == /\ b.thinking # "absent"
               /\ ~isThinkingDisabled(b.thinking) \/ ~policy.canDisable
      forced == IF force THEN [limited EXCEPT !.thinking = policy.shape] ELSE limited
  IN IF isThinkingEnabled(forced.thinking)
     THEN [forced EXCEPT !.output_config = policy.effort] ELSE forced

\* stampReasoning(): nothing without a signal; a veto keeps the effort as it is
\* but still forces the temperature.
stampReasoning(b, policy, veto) ==
  LET active == IF veto THEN isThinkingEnabled(b.thinking)
                ELSE IF b.reasoning_effort = "absent" THEN isThinkingEnabled(b.thinking)
                ELSE ~(isReasoningEffortDisabled(b.reasoning_effort) /\ policy.canDisable)
      effort == IF veto THEN b.reasoning_effort ELSE policy.effort
  IN IF ~active THEN b
     ELSE [b EXCEPT !.reasoning_effort = effort, !.output_config = "absent",
                    !.context_management = FALSE, !.temperature = "one"]

-----------------------------------------------------------------------------
\* The steps. A context c holds the route (openai), the switches (claudeCode,
\* reasoning, stripOmo), the policy and the rule of the model.
Anthropic(c) == c.claudeCode /\ ~c.openai
OpenAi(c) == c.reasoning /\ c.openai

RestampBreakpointsStep(c, b) == IF Anthropic(c) THEN restampBreakpoints(b) ELSE b
CacheTtlStep(c, b) == IF Anthropic(c) THEN stampCacheTtl(b) ELSE b

AnthropicBodyStep(c, b) ==
  IF Anthropic(c)
  THEN [stampThinking(b, c.policy) EXCEPT !.reasoning_effort = "absent"] ELSE b

\* On the OpenAI route a shape needs an active signal, or the force of the rule
\* and no signal at all. On the other, reviving thinking that is off or absent
\* also brings max_tokens and output_config.
PerModelRuleStep(c, b) ==
  LET rule == c.rule
      on == isThinkingEnabled(b.thinking)
      shape == IF c.openai THEN rule.openai ELSE rule.anthropic
      silent == b.thinking = "absent" /\ (c.openai => b.reasoning_effort = "absent")
      applies == \/ on
                 \/ c.openai /\ ~isReasoningEffortDisabled(b.reasoning_effort)
                 \/ ~c.openai /\ ~c.policy.canDisable
                 \/ rule.force /\ silent
      shaped == IF shape = "none" \/ ~applies THEN b
                ELSE IF c.openai \/ on THEN [b EXCEPT !.thinking = shape]
                ELSE [b EXCEPT !.thinking = shape, !.max_tokens = c.policy.max_tokens,
                               !.output_config = c.policy.effort]
  IN IF rule = NoRule THEN b
     ELSE IF rule.extra THEN [shaped EXCEPT !.extra = TRUE] ELSE shaped

ContextManagementStep(c, b) ==
  IF Anthropic(c) /\ isThinkingEnabled(b.thinking)
  THEN [b EXCEPT !.context_management = TRUE] ELSE b

OpenAiReasoningStep(c, b) == IF OpenAi(c) THEN stampReasoning(b, c.policy, c.rule.veto) ELSE b

OpenAiStreamUsageStep(c, b) == IF OpenAi(c) /\ b.stream THEN [b EXCEPT !.include_usage = TRUE] ELSE b

TopKStep(c, b) ==
  IF /\ Anthropic(c) \/ OpenAi(c)
     /\ c.policy.top_k
     /\ IF c.openai THEN b.reasoning_effort # "absent" ELSE isThinkingEnabled(b.thinking)
     /\ b.top_k = "absent"
  THEN [b EXCEPT !.top_k = "twenty"] ELSE b

TemperatureStep(c, b) ==
  IF Anthropic(c) /\ isThinkingEnabled(b.thinking) THEN [b EXCEPT !.temperature = "one"] ELSE b

StripOmoReminderStep(c, b) == IF c.stripOmo /\ ~c.openai THEN stripOmoReminder(b) ELSE b

\* Mutant: context management before the rule that may revive thinking.
StampRuleLate(c, b) ==
  LET prepared == AnthropicBodyStep(c, CacheTtlStep(c, RestampBreakpointsStep(c, b)))
      thought == PerModelRuleStep(c, ContextManagementStep(c, prepared))
      reasoned == OpenAiStreamUsageStep(c, OpenAiReasoningStep(c, thought))
  IN StripOmoReminderStep(c, TemperatureStep(c, TopKStep(c, reasoned)))

\* STAMP_PIPELINE
STAMP_PIPELINE(c, b) ==
  LET prepared == AnthropicBodyStep(c, CacheTtlStep(c, RestampBreakpointsStep(c, b)))
      thought == ContextManagementStep(c, PerModelRuleStep(c, prepared))
      reasoned == OpenAiStreamUsageStep(c, OpenAiReasoningStep(c, thought))
  IN StripOmoReminderStep(c, TemperatureStep(c, TopKStep(c, reasoned)))

-----------------------------------------------------------------------------
Breakpoints(b) ==
  {<<0, k>> : k \in {k \in DOMAIN b.system : hasBreakpoint(b.system[k])}}
  \cup UNION {{<<i, k>> : k \in {k \in DOMAIN b.messages[i].blocks :
                                   hasBreakpoint(b.messages[i].blocks[k])}}
              : i \in DOMAIN b.messages}

\* Whatever the order in which policy, rule and switches touch a body, what is
\* forwarded is consistent. With thinking on, an Anthropic body has the model's
\* output_config, context management and temperature, and its max_tokens unless
\* the client had thinking off (a model that cannot disable it is then forced
\* to think within the client's max_tokens). With thinking off or absent none
\* of them is added, and a model that can disable it keeps the client's choice.
\* An OpenAI body never mixes reasoning_effort of the policy with the other
\* route's fields. At most two breakpoints are left, each with a ttl, one of
\* them on the tip, unless the tip was the reminder that is stripped last.
StampsConsistent(c, b) ==
  LET s == STAMP_PIPELINE(c, b)
      on == isThinkingEnabled(s.thinking)
  IN /\ Anthropic(c) =>
          /\ s.reasoning_effort = "absent"
          /\ on => /\ s.output_config = c.policy.effort /\ s.context_management
                   /\ s.temperature = "one"
                   /\ s.max_tokens = c.policy.max_tokens \/ b.thinking = "off"
                   /\ c.policy.top_k => s.top_k # "absent"
          /\ ~on => /\ s.max_tokens = b.max_tokens /\ s.output_config = b.output_config
                    /\ s.temperature = b.temperature /\ s.top_k = b.top_k
          /\ (b.thinking = "off" /\ c.policy.canDisable) => s.thinking = "off"
          /\ b.thinking = "absent" => \/ s.thinking = "absent"
                                      \/ c.rule.anthropic # "none"
          /\ b.messages # <<>> =>
               /\ Cardinality(Breakpoints(s)) <= 2
               /\ stampCacheTtl(s) = s
               /\ LET tip == LastUser(b.messages) IN
                    tip # 0 => \/ <<tip, Len(s.messages[tip].blocks)>> \in Breakpoints(s)
                               \/ c.stripOmo /\ tip = 1 /\ Last(b.messages[tip].blocks).omo
     /\ OpenAi(c) =>
          /\ (s.reasoning_effort # "absent" /\ s.reasoning_effort # b.reasoning_effort)
               => /\ s.reasoning_effort = c.policy.effort /\ s.temperature = "one"
                  /\ s.output_config = "absent" /\ ~s.context_management
          /\ c.rule.veto => s.reasoning_effort = b.reasoning_effort
          /\ (b.reasoning_effort = "none" /\ b.thinking \in {"absent", "off"} /\ c.policy.canDisable)
               => s.reasoning_effort = "none" /\ s.thinking = b.thinking
          /\ b.stream => s.include_usage
     /\ (~Anthropic(c) /\ ~OpenAi(c) /\ c.rule = NoRule /\ ~c.stripOmo) => s = b
=============================================================================
