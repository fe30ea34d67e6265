-------------------------------- MODULE Config --------------------------------
(***************************************************************************)
(* The configuration as data: the rules a saved file has to pass           *)
(* (config/validation.ts), the defaults, the loader (loader.ts, env.ts),   *)
(* the split between what a reload applies and what needs a restart        *)
(* (reload.ts), and the dashboard's form (config-sections.ts,              *)
(* config-vision-fields.ts, lib/config-validation.ts).                     *)
(*                                                                         *)
(* A value carries its JSON type: what each stage does with a value of     *)
(* another type is the point. The texts of an enumeration are numbered in  *)
(* the order of its rule. Tables follow the order of the source.           *)
(***************************************************************************)
EXTENDS Integers, FiniteSets, TLC

Num(k)    == [t |-> "int", n |-> k]        \* a JSON number without fraction
Frac      == [t |-> "frac", n |-> 0]       \* a JSON number with one
Digits(k) == [t |-> "digits", n |-> k]     \* the text of a number
Text(k)   == [t |-> "text", n |-> k]
Upward    == [t |-> "parent", n |-> 0]     \* a text with ".." in it
Empty     == [t |-> "empty", n |-> 0]      \* the empty text
Flag(k)   == [t |-> "bool", n |-> k]
Null      == [t |-> "null", n |-> 0]
Absent    == [t |-> "absent", n |-> 0]
List      == [t |-> "list", n |-> 0]

Unbounded == 2147483647

-----------------------------------------------------------------------------
\* FIELD_RULES, section by section.
Between(lo, hi) == [k |-> "int", lo |-> lo, hi |-> hi]
AtLeast(lo)     == Between(lo, Unbounded)
OneOf(count)    == [k |-> "choice", lo |-> 1, hi |-> count]
IsFlag          == [k |-> "bool", lo |-> 0, hi |-> 1]
AnyText         == [k |-> "text", lo |-> 0, hi |-> 0]
SomeText        == [k |-> "nonempty", lo |-> 0, hi |-> 0]
PathName        == [k |-> "path", lo |-> 0, hi |-> 0]
Reservation     == [k |-> "reservation", lo |-> 0, hi |-> 0]

ServerRules == [port |-> Between(1, 65535), max_captures |-> AtLeast(200),
  db_path |-> PathName, idle_timeout |-> Between(1, 255), upstream_protocol |-> OneOf(3),
  stamp_claude_code_enabled |-> IsFlag, stamp_reasoning_effort_enabled |-> IsFlag,
  compression_enabled |-> IsFlag, use_hard_cap |-> IsFlag, request_use_hard_cap |-> IsFlag,
  never_limit_requests |-> IsFlag, experiment_strip_omo_reminder |-> IsFlag,
  experiment_ttft_watchdog |-> IsFlag, usage_history_enabled |-> IsFlag,
  warmer_enabled |-> IsFlag, warmer_interval_ms |-> AtLeast(1000), umans_api_key |-> AnyText,
  dashboard_token |-> AnyText, usage_refresh_ms |-> AtLeast(1000),
  usage_raw_retention_days |-> AtLeast(1), incident_retention_days |-> AtLeast(1),
  usage_gap_threshold_minutes |-> AtLeast(5), usage_idle_session_timeout_minutes |-> AtLeast(1),
  models_refresh_ms |-> AtLeast(1000)]

LimitRules == [concurrency_hard_cap |-> AtLeast(1), concurrency_soft_limit |-> AtLeast(1),
  request_hard_cap |-> AtLeast(1), request_soft_limit |-> AtLeast(1),
  request_rate_margin |-> AtLeast(0), concurrency_main_reservation |-> Reservation,
  concurrency_vision_reservation |-> Reservation, rate_limit_requests |-> AtLeast(-1),
  queue_timeout_ms |-> AtLeast(100), max_queue_depth |-> AtLeast(1),
  release_cooldown_ms |-> AtLeast(0), breaker_threshold |-> AtLeast(1),
  breaker_window_ms |-> AtLeast(1000), breaker_cooldown_ms |-> AtLeast(1000)]

VisionRules == [vision_strategy |-> OneOf(3), vision_model |-> AnyText,
  vision_prompt |-> SomeText, vision_prompt_version |-> AtLeast(1),
  vision_max_images |-> Between(1, 100), vision_max_description_tokens |-> Between(1, 200000),
  vision_timeout_ms |-> AtLeast(0), vision_cache_size |-> AtLeast(100),
  vision_concurrency |-> Between(1, 20), vision_reasoning_effort |-> OneOf(4),
  vision_max_dimension |-> Between(256, 8192), vision_jpeg_quality |-> Between(1, 100),
  vision_image_format |-> OneOf(2), vision_image_detail |-> OneOf(3),
  vision_intent_strategy |-> OneOf(4), vision_decomposition_enabled |-> IsFlag]

TuningRules == [vision_decomposition_timeout_ms |-> AtLeast(100),
  vision_crafting_timeout_ms |-> AtLeast(100), vision_adjacent_text_max_chars |-> AtLeast(0),
  vision_recent_messages_count |-> AtLeast(0), vision_system_prompt_max_chars |-> AtLeast(0),
  vision_cache_ttl_ms |-> AtLeast(1000), vision_cache_max_rows |-> AtLeast(100),
  vision_persistent_cache |-> IsFlag, capture_body_max_bytes |-> AtLeast(0),
  queue_max_depth |-> AtLeast(1), ws_backpressure_limit |-> AtLeast(0),
  ws_close_on_backpressure_limit |-> IsFlag, vision_pending_max_batch |-> AtLeast(1)]

UpstreamRules == [upstream_timeout_ms |-> AtLeast(1000), ttft_timeout_ms |-> AtLeast(1000),
  ttft_retry_max_attempts |-> Between(1, 3), ttft_retry_gate_saturation_pct |-> Between(1, 100),
  ttft_retry_cooldown_ms |-> AtLeast(0), ttft_watchdog_multiplier |-> AtLeast(1),
  ttft_watchdog_hard_cap_ms |-> AtLeast(1000)]

Rule == ServerRules @@ LimitRules @@ VisionRules @@ TuningRules @@ UpstreamRules

\* Keys of DEFAULT_CONFIG that no rule looks at.
Unchecked == {"stamp_model_rules", "experiment_rewrite_ids", "experiment_rewrite_ttl_ms",
  "performance_sample_count"}

Field == DOMAIN Rule \cup Unchecked

\* INT_FIELDS: what coerceRawForValidation() turns from text into a number.
IntFields == {f \in DOMAIN Rule : Rule[f].k \in {"int", "reservation"}}
             \ {"request_hard_cap", "request_soft_limit"}

-----------------------------------------------------------------------------
DefaultInt == [port |-> 1945, max_captures |-> 200, idle_timeout |-> 255,
  warmer_interval_ms |-> 20000, usage_refresh_ms |-> 60000, usage_raw_retention_days |-> 7,
  usage_gap_threshold_minutes |-> 60, usage_idle_session_timeout_minutes |-> 5,
  models_refresh_ms |-> 3600000, concurrency_hard_cap |-> 16, concurrency_soft_limit |-> 8,
  rate_limit_requests |-> 0, request_hard_cap |-> 1000, request_soft_limit |-> 500,
  request_rate_margin |-> 50, queue_timeout_ms |-> 180000, max_queue_depth |-> 256,
  release_cooldown_ms |-> 1000, breaker_threshold |-> 5, breaker_window_ms |-> 300000,
  breaker_cooldown_ms |-> 60000, vision_prompt_version |-> 2, vision_max_images |-> 20,
  vision_max_description_tokens |-> 4096, vision_timeout_ms |-> 0, vision_cache_size |-> 1000,
  vision_cache_ttl_ms |-> 604800000, vision_cache_max_rows |-> 10000, vision_concurrency |-> 4,
  vision_max_dimension |-> 2048, vision_jpeg_quality |-> 92,
  vision_decomposition_timeout_ms |-> 3000, vision_crafting_timeout_ms |-> 3000,
  vision_adjacent_text_max_chars |-> 500, vision_recent_messages_count |-> 6,
  vision_system_prompt_max_chars |-> 1000, concurrency_main_reservation |-> 1,
  concurrency_vision_reservation |-> 1, capture_body_max_bytes |-> 10000000,
  queue_max_depth |-> 100, ws_backpressure_limit |-> 1048576, vision_pending_max_batch |-> 50,
  upstream_timeout_ms |-> 1800000, experiment_rewrite_ttl_ms |-> 3600000,
  ttft_timeout_ms |-> 60000, ttft_retry_max_attempts |-> 3,
  ttft_retry_gate_saturation_pct |-> 80, ttft_retry_cooldown_ms |-> 5000,
  ttft_watchdog_multiplier |-> 5, ttft_watchdog_hard_cap_ms |-> 300000,
  performance_sample_count |-> 200, incident_retention_days |-> 30]
DefaultChoice == [upstream_protocol |-> 1, vision_strategy |-> 1, vision_reasoning_effort |-> 1,
  vision_image_format |-> 2, vision_image_detail |-> 3, vision_intent_strategy |-> 4]
FlagFields == {f \in DOMAIN Rule : Rule[f].k = "bool"} \cup {"experiment_rewrite_ids"}

\* DEFAULT_CONFIG: every flag is on, vision is "never", the secrets are empty.
Default ==
  [f \in DOMAIN DefaultInt |-> Num(DefaultInt[f])] @@ [f \in FlagFields |-> Flag(1)]
  @@ [f \in DOMAIN DefaultChoice |-> Text(DefaultChoice[f])]
  @@ [f \in {"db_path", "vision_prompt", "vision_model"} |-> Text(1)]
  @@ [f \in {"umans_api_key", "dashboard_token"} |-> Empty] @@ ("stamp_model_rules" :> List)

Never == Text(1)

-----------------------------------------------------------------------------
Coerced(f, v) == IF f \in IntFields /\ v.t = "digits" THEN Num(v.n) ELSE v

\* saveConfig() and validateConfig(): the coerced patch over the file over the
\* defaults; without vision its reservation is none.
Normalized(file, patch) ==
  LET n == [f \in Field |-> IF f \in DOMAIN patch THEN Coerced(f, patch[f])
                            ELSE IF f \in DOMAIN file THEN Coerced(f, file[f]) ELSE Default[f]]
  IN IF n["vision_strategy"] = Never
     THEN [n EXCEPT !["concurrency_vision_reservation"] = Num(0)] ELSE n

\* Mutant: the text of a number passes as one.
IntegerAny(v, r) == v.t \in {"int", "digits"} /\ r.lo <= v.n /\ v.n <= r.hi
IntegerIn(v, r) == v.t = "int" /\ r.lo <= v.n /\ v.n <= r.hi

\* The rule of a reservation depends on the hard cap, and is void when that
\* leaves no room for one.
ReservationOK(n, f) ==
  LET cap == n["concurrency_hard_cap"]
      room == cap.n - 2
  IN \/ cap.t # "int" \/ room < 1
     \/ f = "concurrency_vision_reservation" /\ n["vision_strategy"] = Never /\ n[f].t = "int"
     \/ n[f].t = "int" /\ 1 <= n[f].n /\ n[f].n <= room

FieldOK(n, f) ==
  LET v == n[f]
      r == Rule[f]
  IN \/ v.t = "absent" \/ f \in Unchecked
     \/ r.k = "int" /\ IntegerIn(v, r)
     \/ r.k = "reservation" /\ ReservationOK(n, f)
     \/ r.k = "bool" /\ v.t = "bool"
     \/ r.k = "choice" /\ v.t = "text" /\ v.n \in r.lo..r.hi
     \/ r.k = "text" /\ v.t \in {"text", "parent", "empty", "digits"}
     \/ r.k = "nonempty" /\ v.t \in {"text", "parent", "digits"}
     \/ r.k = "path" /\ v.t \in {"text", "digits"}      \* no way up
     \/ f \in {"rate_limit_requests", "vision_reasoning_effort"} /\ v.t = "null"

Accepted(n) == \A f \in Field : FieldOK(n, f)

-----------------------------------------------------------------------------
\* num(): Number("") is 0, Number(true) is 1.
NumOr(v, d) ==
  CASE v.t \in {"int", "frac"} -> v
    [] v.t \in {"digits", "bool"} -> Num(v.n)
    [] v.t = "empty" -> Num(0)
    [] OTHER -> d

\* bool(): of the texts only "true" (here among Text) and "1" count as true.
BoolOr(v, d) ==
  CASE v.t \in {"absent", "null", "list"} -> d
    [] v.t = "bool" -> v
    [] v.t = "int" -> Flag(IF v.n # 0 THEN 1 ELSE 0)
    [] v.t = "frac" -> Flag(1)
    [] OTHER -> Flag(IF v = Digits(1) THEN 1 ELSE 0)

\* envOrRawNum() and envOrRawBool(): the file's value counts only if it
\* already has the type.
StrictNum(e, v, d) == IF e # Absent THEN NumOr(e, d) ELSE IF v.t \in {"int", "frac"} THEN v ELSE d
StrictBool(e, v, d) == IF e # Absent THEN BoolOr(e, d) ELSE IF v.t = "bool" THEN v ELSE d

First(e, v) == IF e # Absent THEN e ELSE v          \* env.X ?? raw.x

ReadStrictly == {"usage_history_enabled", "vision_decomposition_enabled",
  "vision_decomposition_timeout_ms", "vision_crafting_timeout_ms",
  "vision_adjacent_text_max_chars", "vision_recent_messages_count",
  "vision_system_prompt_max_chars"}
ReadStrictlyToo == {"capture_body_max_bytes", "queue_max_depth", "ws_backpressure_limit",
  "ws_close_on_backpressure_limit", "vision_pending_max_batch", "compression_enabled",
  "upstream_timeout_ms", "experiment_rewrite_ids", "experiment_rewrite_ttl_ms",
  "experiment_strip_omo_reminder", "experiment_ttft_watchdog", "ttft_timeout_ms",
  "ttft_retry_max_attempts", "ttft_retry_gate_saturation_pct", "ttft_retry_cooldown_ms",
  "ttft_watchdog_multiplier", "ttft_watchdog_hard_cap_ms", "performance_sample_count",
  "incident_retention_days"}
Strict == ReadStrictly \cup ReadStrictlyToo
OffOnlyIfFalse == {"warmer_enabled", "vision_persistent_cache"}

\* resolveUpstreamProtocol(): "h2" is another name of "http2".
Protocol(v) == IF v.t = "text" /\ v.n \in {2, 3} THEN Text(2) ELSE Text(1)

\* loadConfig(): the environment, else the file, else the default.
Loaded(env, file, f) ==
  LET Env(g) == IF g \in DOMAIN env THEN env[g] ELSE Absent
      Raw(g) == IF g \in DOMAIN file THEN file[g] ELSE Absent
      e == Env(f)
      v == Raw(f)
      d == Default[f]
      strategy == First(Env("vision_strategy"), Raw("vision_strategy"))
      number == IF f \in Strict THEN StrictNum(e, v, d) ELSE NumOr(First(e, v), d)
      AtMost(k, x) == IF x.t = "int" /\ x.n > k THEN Num(k) ELSE x
      OneAtLeast(x) == IF x.t = "int" /\ x.n < 1 THEN Num(1) ELSE x
  IN CASE f = "idle_timeout" -> AtMost(255, number)
       [] f = "concurrency_vision_reservation" ->
            IF strategy \in {Never, Absent, Null} THEN Num(0) ELSE OneAtLeast(number)
       [] f \in OffOnlyIfFalse ->
            Flag(IF e # Absent THEN IF e = Digits(0) THEN 0 ELSE 1
                 ELSE IF v = Flag(0) THEN 0 ELSE 1)
       [] f \in FlagFields \ OffOnlyIfFalse ->
            IF f \in Strict THEN StrictBool(e, v, d) ELSE BoolOr(First(e, v), d)
       [] f = "upstream_protocol" -> Protocol(First(e, v))
       [] f \in DOMAIN DefaultInt \ {"idle_timeout", "concurrency_vision_reservation"} -> number
       [] OTHER -> IF First(e, v) \in {Absent, Null} THEN d ELSE First(e, v)

-----------------------------------------------------------------------------
RestartRequired == {"port", "max_captures", "db_path", "idle_timeout", "upstream_protocol",
  "queue_max_depth", "ws_backpressure_limit", "ws_close_on_backpressure_limit",
  "warmer_enabled", "warmer_interval_ms", "usage_refresh_ms", "umans_api_key",
  "dashboard_token", "models_refresh_ms", "vision_strategy", "vision_model", "vision_prompt",
  "vision_prompt_version", "vision_max_images", "vision_max_description_tokens",
  "vision_reasoning_effort", "vision_timeout_ms", "vision_cache_size", "vision_cache_ttl_ms",
  "vision_cache_max_rows", "vision_persistent_cache", "vision_max_dimension",
  "vision_jpeg_quality", "vision_image_format", "vision_image_detail", "vision_concurrency",
  "vision_pending_max_batch"}

\* RELOAD_FIELDS
GateReloads == {"stamp_claude_code_enabled", "stamp_model_rules", "usage_history_enabled",
  "usage_raw_retention_days", "usage_gap_threshold_minutes",
  "usage_idle_session_timeout_minutes", "stamp_reasoning_effort_enabled",
  "rate_limit_requests", "request_hard_cap", "request_soft_limit", "request_use_hard_cap",
  "never_limit_requests", "request_rate_margin", "queue_timeout_ms", "max_queue_depth",
  "release_cooldown_ms", "breaker_threshold", "breaker_window_ms", "breaker_cooldown_ms",
  "concurrency_main_reservation", "concurrency_vision_reservation", "concurrency_hard_cap",
  "concurrency_soft_limit", "use_hard_cap"}
RequestReloads == {"compression_enabled", "capture_body_max_bytes", "upstream_timeout_ms",
  "experiment_rewrite_ids", "experiment_rewrite_ttl_ms", "experiment_strip_omo_reminder",
  "experiment_ttft_watchdog", "ttft_timeout_ms", "ttft_retry_max_attempts",
  "ttft_retry_gate_saturation_pct", "ttft_retry_cooldown_ms", "ttft_watchdog_multiplier",
  "ttft_watchdog_hard_cap_ms", "vision_intent_strategy", "vision_decomposition_enabled",
  "vision_decomposition_timeout_ms", "vision_crafting_timeout_ms",
  "vision_adjacent_text_max_chars", "vision_recent_messages_count",
  "vision_system_prompt_max_chars", "performance_sample_count", "incident_retention_days"}

\* applyReloadToConfig(): what is reported as applied, and what becomes of the
\* configuration in memory. Who copied a value before keeps its copy.
Applied(old, new) == {f \in DOMAIN new \ RestartRequired : f \notin DOMAIN old \/ old[f] # new[f]}

Reloaded(live, env, old, new) ==
  [f \in DOMAIN live |-> IF f \in Applied(old, new) \cap (GateReloads \cup RequestReloads)
                         THEN Loaded(env, new, f) ELSE live[f]]

-----------------------------------------------------------------------------
\* The form's fields: a number with its bounds and whether it must be there, a
\* switch, a choice, a text. Caps are shown but cannot be edited.
Required(lo, hi) == [k |-> "number", lo |-> lo, hi |-> hi, req |-> TRUE]
Optional(lo, hi) == [k |-> "number", lo |-> lo, hi |-> hi, req |-> FALSE]
Switch == [k |-> "switch", lo |-> 0, hi |-> 1, req |-> FALSE]
Select(count) == [k |-> "select", lo |-> 1, hi |-> count, req |-> TRUE]
TextBox(req) == [k |-> "text", lo |-> 0, hi |-> 0, req |-> req]

SERVER_FIELDS == [port |-> Required(1, 65535), max_captures |-> Required(200, Unbounded),
  db_path |-> TextBox(TRUE), idle_timeout |-> Required(1, 255), upstream_protocol |-> Select(2),
  compression_enabled |-> Switch, upstream_timeout_ms |-> Required(1000, Unbounded),
  performance_sample_count |-> Optional(10, 10000)]
EXPERIMENT_FIELDS == [stamp_claude_code_enabled |-> Switch,
  stamp_reasoning_effort_enabled |-> Switch, experiment_rewrite_ids |-> Switch,
  experiment_rewrite_ttl_ms |-> Optional(60000, Unbounded),
  experiment_strip_omo_reminder |-> Switch]
TTFT_WATCHDOG_FIELDS == [experiment_ttft_watchdog |-> Switch,
  ttft_timeout_ms |-> Required(1000, Unbounded), ttft_retry_max_attempts |-> Required(1, 3),
  ttft_retry_gate_saturation_pct |-> Required(1, 100),
  ttft_retry_cooldown_ms |-> Required(0, Unbounded),
  ttft_watchdog_multiplier |-> Required(1, Unbounded),
  ttft_watchdog_hard_cap_ms |-> Required(1000, Unbounded), warmer_enabled |-> Switch,
  warmer_interval_ms |-> Required(1000, Unbounded)]
CONCURRENCY_GATE_FIELDS == [use_hard_cap |-> Switch,
  concurrency_main_reservation |-> Required(1, Unbounded),
  concurrency_vision_reservation |-> Required(0, Unbounded),
  release_cooldown_ms |-> Required(0, Unbounded), rate_limit_requests |-> Optional(-1, Unbounded),
  never_limit_requests |-> Switch, request_use_hard_cap |-> Switch]
QUEUE_FIELDS == [breaker_threshold |-> Required(1, Unbounded),
  breaker_window_ms |-> Required(1000, Unbounded),
  breaker_cooldown_ms |-> Required(1000, Unbounded),
  queue_timeout_ms |-> Required(100, Unbounded), max_queue_depth |-> Required(1, Unbounded),
  queue_max_depth |-> Optional(1, Unbounded), capture_body_max_bytes |-> Optional(0, Unbounded),
  ws_backpressure_limit |-> Optional(0, Unbounded), ws_close_on_backpressure_limit |-> Switch]
USAGE_FIELDS == [umans_api_key |-> TextBox(FALSE), usage_refresh_ms |-> Required(1000, Unbounded),
  models_refresh_ms |-> Required(1000, Unbounded),
  incident_retention_days |-> Optional(1, Unbounded),
  usage_history_enabled |-> Switch, usage_raw_retention_days |-> Required(1, Unbounded),
  usage_gap_threshold_minutes |-> Required(5, Unbounded),
  usage_idle_session_timeout_minutes |-> Required(1, Unbounded)]
VISION_GENERAL_FIELDS == [vision_strategy |-> Select(3), vision_model |-> TextBox(TRUE),
  vision_prompt |-> TextBox(TRUE), vision_prompt_version |-> Required(1, Unbounded),
  vision_max_images |-> Required(1, 100), vision_max_description_tokens |-> Required(1, 200000),
  vision_reasoning_effort |-> Select(4), vision_timeout_ms |-> Required(0, Unbounded),
  vision_cache_size |-> Required(100, Unbounded), vision_cache_ttl_ms |-> Optional(1000, Unbounded),
  vision_cache_max_rows |-> Optional(100, Unbounded), vision_persistent_cache |-> Switch,
  vision_concurrency |-> Required(1, 20)]
VISION_TUNING_FIELDS == [vision_max_dimension |-> Optional(256, 8192),
  vision_jpeg_quality |-> Optional(1, 100), vision_image_format |-> Select(2),
  vision_image_detail |-> Select(3), vision_pending_max_batch |-> Optional(1, Unbounded),
  vision_intent_strategy |-> Select(4), vision_decomposition_enabled |-> Switch,
  vision_decomposition_timeout_ms |-> Optional(100, Unbounded),
  vision_crafting_timeout_ms |-> Optional(100, Unbounded),
  vision_adjacent_text_max_chars |-> Optional(0, Unbounded),
  vision_recent_messages_count |-> Optional(0, Unbounded),
  vision_system_prompt_max_chars |-> Optional(0, Unbounded)]

SECTIONS == SERVER_FIELDS @@ EXPERIMENT_FIELDS @@ TTFT_WATCHDOG_FIELDS
            @@ CONCURRENCY_GATE_FIELDS @@ QUEUE_FIELDS @@ USAGE_FIELDS
            @@ VISION_GENERAL_FIELDS @@ VISION_TUNING_FIELDS

\* validateNumberField(): of a number that is typed in.
ValidNumber(r, v) ==
  \/ v.t = "empty" /\ ~r.req
  \/ v.t = "digits" /\ r.lo <= v.n /\ v.n <= r.hi

\* validateField(): what the form lets through. A number field hands on the
\* text that was typed, a switch a Boolean, a choice one of its options.
FormAccepts(f, v) ==
  /\ f \in DOMAIN SECTIONS
  /\ LET r == SECTIONS[f] IN
       \/ r.k = "number" /\ ValidNumber(r, v)
       \/ r.k = "switch" /\ v.t = "bool"
       \/ r.k = "select" /\ v.t = "text" /\ v.n \in r.lo..r.hi
       \/ r.k = "text" /\ (v.t \in {"text", "parent", "digits"} \/ (v.t = "empty" /\ ~r.req))

-----------------------------------------------------------------------------
\* An edit of one field, and the reload after it, start from a file that was
\* saved with vision on.
Saved == Normalized(Default, "vision_strategy" :> Text(3))
Live == [f \in Field |-> Loaded(<<>>, Saved, f)]

\* Two spellings of one setting.
Same(f, a, b) == a = b \/ (f = "upstream_protocol" /\ Protocol(a) = Protocol(b))

\* What a saved edit means to the process is what the form or a JSON client
\* sent, and never a default in its place: in the configuration in memory after
\* the reload, or in that of the next start where a restart is asked for. (Not
\* every part of the process reads the memory again: the gate and the vision
\* handoff hold copies.) And what the form lets through the server accepts,
\* apart from a number left empty, a way up in the path of the database, and
\* the room that the hard cap leaves for a reservation. Left out are the two
\* numbers that have no rule: as texts they fall back to defaults.
EditsReachConfig(f, v) ==
  LET new == Normalized(Saved, f :> v)
      asked == IF f \in IntFields /\ v.t = "digits" THEN Num(v.n) ELSE v
      held == IF f \in RestartRequired THEN Loaded(<<>>, new, f)
              ELSE Reloaded(Live, <<>>, Saved, new)[f]
      excepted == {"performance_sample_count", "experiment_rewrite_ttl_ms",
                   "concurrency_main_reservation", "concurrency_vision_reservation"}
      refused == \/ v = Empty /\ SECTIONS[f].k = "number"
                 \/ v = Upward /\ f = "db_path"
  IN /\ (Accepted(new) /\ f \notin Unchecked /\ v.t \notin {"null", "absent"})
          => Same(f, held, asked)
     /\ (FormAccepts(f, v) /\ ~refused /\ f \notin excepted)
          => (Accepted(new) /\ Same(f, held, asked))
=============================================================================
