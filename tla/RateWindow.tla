----------------------------- MODULE RateWindow -----------------------------
(***************************************************************************)
(* The two sliding windows of the proxy: the weighted request limiter      *)
(* (src/src/rate.ts) that checkRateLimit() of proxy.ts asks after the      *)
(* upstream's own count (src/src/request-gate.ts), and the limiter of      *)
(* failed dashboard logins (src/src/auth.ts) that the dispatcher of        *)
(* src/src/index.ts asks before it compares a token.                       *)
(***************************************************************************)
EXTENDS Integers, Sequences, FiniteSetsExt

CONSTANTS
  Limit,        \* of the request limiter
  Window,       \* length of both windows
  Weight,       \* the weights of requests
  MaxFailures,  \* of the login limiter
  Margin,       \* request_rate_margin
  UpstreamCaps, \* requests.hard_cap or requests.limit, None when unknown
  Counts,       \* requests_in_window the upstream may report
  MaxEvents,    \* bound on what the histories hold
  MaxTime       \* bound on the clock

ASSUME WindowAssumption ==
  /\ {Limit, Window, MaxFailures, Margin, MaxEvents, MaxTime} \subseteq Nat /\ Weight \subseteq Nat \ {0}

Unknown == -1

VARIABLES
  entries,   \* SlidingWindowRateLimiter.entries
  sum,       \* SlidingWindowRateLimiter.runningSum
  failures,  \* AuthFailureLimiter.failures
  time,      \* Date.now(), which does not go back here
  admitted,  \* history: every request the limiter let through
  compared   \* history: when a wrong token was compared since the last right one

windowVars == <<entries, sum, failures, time, admitted, compared>>

WindowInit ==
  /\ entries = <<>> /\ sum = 0 /\ failures = <<>> /\ time = 0
  /\ admitted = <<>> /\ compared = <<>>

Total(es) == MapThenSumSet(LAMBDA i : es[i].weight, DOMAIN es)

-----------------------------------------------------------------------------
\* The middle of a range <<lo, hi>> of the search.
Mid(r) == (r[1] + r[2]) \div 2

\* Mutant: the entry at the edge of the window is out.
SearchPast(es, cutoff) ==
  LET go[r \in (0..Len(es)) \X (0..Len(es))] ==
        IF r[1] >= r[2] THEN r[1]
        ELSE IF es[Mid(r) + 1].time <= cutoff THEN go[<<Mid(r) + 1, r[2]>>]
        ELSE go[<<r[1], Mid(r)>>]
  IN go[<<0, Len(es)>>]

\* The binary search of prune(): how many entries are too old.
Search(es, cutoff) ==
  LET go[r \in (0..Len(es)) \X (0..Len(es))] ==
        IF r[1] >= r[2] THEN r[1]
        ELSE IF es[Mid(r) + 1].time < cutoff THEN go[<<Mid(r) + 1, r[2]>>]
        ELSE go[<<r[1], Mid(r)>>]
  IN go[<<0, Len(es)>>]

\* prune(): the entries that stay and the sum without the others.
PrunedEntries ==
  LET old == Search(entries, time - Window)
  IN [entries |-> SubSeq(entries, old + 1, Len(entries)),
      sum |-> sum - Total(SubSeq(entries, 1, old))]

\* computeRequestGateDecision(): a margin that reaches the cap counts as none.
Blocks(inWindow, chosen, fallback) ==
  LET cap == IF chosen = Unknown THEN fallback ELSE chosen
      margin == IF Margin >= cap THEN 0 ELSE Margin
  IN cap # Unknown /\ inWindow >= cap - margin

\* check() of the limiter records what it allows.
Check(weight) ==
  LET p == PrunedEntries
      fits == p.sum + weight <= Limit
  IN /\ entries' = IF fits THEN Append(p.entries, [time |-> time, weight |-> weight]) ELSE p.entries
     /\ sum' = IF fits THEN p.sum + weight ELSE p.sum
     /\ admitted' = IF fits THEN Append(admitted, [time |-> time, weight |-> weight]) ELSE admitted

\* checkRateLimit(): the upstream's count is asked first, and a request it
\* refuses leaves no trace in the limiter.
CheckRateLimit(weight, inWindow, chosen, fallback) ==
  /\ ~Blocks(inWindow, chosen, fallback)
  /\ Check(weight)
  /\ UNCHANGED <<failures, time, compared>>

\* peek() and count() prune too.
Look ==
  /\ entries' = PrunedEntries.entries /\ sum' = PrunedEntries.sum
  /\ UNCHANGED <<failures, time, admitted, compared>>

-----------------------------------------------------------------------------
\* prune() of the login limiter: everything before the first recent failure.
Recent ==
  LET kept == {i \in DOMAIN failures : failures[i] >= time - Window}
  IN IF kept = {} THEN <<>> ELSE SubSeq(failures, Min(kept), Len(failures))

\* A request to the dashboard, its API, its socket, /health or /metrics: 429
\* without a look at the token, or the token is compared.
Login(valid) ==
  LET locked == Len(Recent) >= MaxFailures
  IN /\ failures' = IF locked THEN Recent ELSE IF valid THEN <<>> ELSE Append(Recent, time)
     /\ compared' = IF locked THEN compared ELSE IF valid THEN <<>> ELSE Append(compared, time)
     /\ UNCHANGED <<entries, sum, time, admitted>>

Advance == time < MaxTime /\ time' = time + 1 /\ UNCHANGED <<entries, sum, failures, admitted, compared>>

WindowNext ==
  \/ \E w \in Weight, n \in Counts, a \in UpstreamCaps, b \in UpstreamCaps :
        Len(admitted) < MaxEvents /\ CheckRateLimit(w, n, a, b)
  \/ Look
  \/ \E valid \in BOOLEAN : Len(compared) < MaxEvents /\ Login(valid)
  \/ Advance

-----------------------------------------------------------------------------
InWindow(t) == t >= time - Window

\* In no window does the limiter let more weight through than its limit, its
\* running sum is what its entries weigh, and no more wrong tokens are compared
\* in a window than allowed; and a lockout ends by itself, since attempts that
\* are refused are not counted (rate.ts check and prune, auth.ts).
WindowRespected ==
  /\ sum = Total(entries)
  /\ MapThenSumSet(LAMBDA i : admitted[i].weight,
                   {i \in DOMAIN admitted : InWindow(admitted[i].time)}) <= Limit
  /\ Cardinality({i \in DOMAIN compared : InWindow(compared[i])}) <= MaxFailures
  /\ \A i \in DOMAIN Recent : InWindow(Recent[i])
=============================================================================
