----------------------------- MODULE RewriteIds -----------------------------
(***************************************************************************)
(* The id rewriting experiment for one client session                      *)
(* (experiments/rewrite-ids.ts, its tables in db.ts and                    *)
(* attemptRewriteRetry() in proxy.ts). A retry after an upstream error     *)
(* renames the session id and the tool call ids of the request with a      *)
(* salted hash, kept as mappings so that the next retry renames alike. The *)
(* requests of one session fail and retry concurrently; each retry does    *)
(* its table work in one synchronous step before its fetch.                *)
(*                                                                         *)
(* A hash is the pair of what was hashed: a renamed id is [orig, salt,     *)
(* version].                                                               *)
(***************************************************************************)
EXTENDS Integers, FiniteSets

CONSTANTS
  Request,    \* the requests of the session
  ToolId,     \* the tool call ids their bodies may hold
  SessionId,  \* the session's own id, in the headers
  Ttl,        \* experiment_rewrite_ttl_ms
  MaxNow,     \* bound on the clock
  MaxSalt,    \* bound on the salts drawn
  MaxRetries  \* bound on the retries of one session row

ASSUME RewriteAssumption == /\ SessionId \notin ToolId
                            /\ {Ttl, MaxNow, MaxSalt, MaxRetries} \subseteq Nat

VARIABLES
  row,        \* the row of id_rewrite_sessions, or none
  mappings,   \* the rows of id_rewrite_mappings
  calls,      \* the fetch each request waits for: none, or what it sends
  salts,      \* the number of salts drawn: each is new
  clock

rewriteVars == <<row, mappings, calls, salts, clock>>

NoRow == [salt |-> 0, version |-> 0, count |-> 0, expires |-> 0]
NoCall == [ids |-> {}, version |-> 0]

RewriteInit ==
  /\ row = NoRow /\ mappings = {} /\ calls = [r \in Request |-> NoCall]
  /\ salts = 0 /\ clock = 0

-----------------------------------------------------------------------------
\* recordIdRewriteSession(): a conflict counts the error and keeps the salt and
\* the expiry of the first one.
Recorded(s, salt) ==
  IF s = NoRow THEN [salt |-> salt, version |-> 1, count |-> 1, expires |-> clock + Ttl]
  ELSE [s EXCEPT !.count = @ + 1]

\* getOrCreateSession(): an expired row is cleared with its mappings first.
Alive == row # NoRow /\ row.expires > clock

GotOrCreated ==
  IF Alive THEN [row |-> Recorded(row, row.salt), maps |-> mappings, salts |-> salts]
  ELSE [row |-> Recorded(NoRow, salts + 1), maps |-> {}, salts |-> salts + 1]

shouldEscalate(count) == count >= 2 /\ count % 2 = 0

\* escalate() with escalateRewriteSalt(): a new salt under the next version.
Escalated(s) ==
  [s EXCEPT !.row.salt = s.salts + 1, !.row.version = @ + 1, !.salts = @ + 1]

\* getRewriteMapping(), or deterministicRewrite().
deterministicRewrite(id, s) == [orig |-> id, salt |-> s.salt, version |-> s.version]

Mapping(id, s, maps) ==
  LET known == {m \in maps : m.orig = id /\ m.version = s.version}
  IN IF known = {} THEN deterministicRewrite(id, s) ELSE CHOOSE m \in known : TRUE

\* rewriteBody() and rewriteHeaders(): every id found in the body and the
\* session id of the headers.
Rewritten(ids, s, maps) == {Mapping(id, s, maps) : id \in ids \cup {SessionId}}

\* attemptRewriteRetry() up to its fetch. The header always holds the session
\* id of an eligible request, so there is always something to rewrite.
Retry(r, ids, force) ==
  LET got == GotOrCreated
      s == IF force \/ shouldEscalate(got.row.count) THEN Escalated(got) ELSE got
      sent == Rewritten(ids, s.row, s.maps)
  IN /\ calls[r] = NoCall /\ s.salts <= MaxSalt /\ s.row.count <= MaxRetries
     /\ row' = s.row /\ salts' = s.salts
     /\ mappings' = s.maps \cup sent
     /\ calls' = [calls EXCEPT ![r] = [ids |-> sent, version |-> s.row.version]]
     /\ UNCHANGED clock

\* Mutant: clearing a session leaves its mappings behind.
ClearedKeeps == row' = NoRow /\ UNCHANGED mappings

\* clearIdRewriteSession().
Cleared == row' = NoRow /\ mappings' = {}

\* The retry is answered: below 400 the session is forgotten, whichever other
\* retries of it are under way.
RetrySucceeds(r) ==
  /\ calls[r] # NoCall
  /\ calls' = [calls EXCEPT ![r] = NoCall]
  /\ Cleared
  /\ UNCHANGED <<salts, clock>>

\* It fails again, or its fetch does: the session stays.
RetryFails(r) ==
  /\ calls[r] # NoCall
  /\ calls' = [calls EXCEPT ![r] = NoCall]
  /\ UNCHANGED <<row, mappings, salts, clock>>

\* pruneExpiredRewriteSessions(), on a timer.
Prune ==
  /\ row # NoRow /\ row.expires < clock
  /\ Cleared
  /\ UNCHANGED <<calls, salts, clock>>

Tick == clock < MaxNow /\ clock' = clock + 1 /\ UNCHANGED <<row, mappings, calls, salts>>

RewriteNext ==
  \/ \E r \in Request, ids \in SUBSET ToolId, force \in BOOLEAN : Retry(r, ids, force)
  \/ \E r \in Request : RetrySucceeds(r) \/ RetryFails(r)
  \/ Prune \/ Tick

-----------------------------------------------------------------------------
\* A retry renames all its ids with one salt, the one its version stands for:
\* no mapping of an earlier life of the session, of another version or of a
\* request that was overtaken is ever reused, and none outlives its session
\* (rewriteBody, rewriteHeaders and clearIdRewriteSession).
MappingsFresh ==
  /\ \A m \in mappings : row # NoRow /\ m.version <= row.version
                         /\ (m.version = row.version => m.salt = row.salt)
  /\ \A r \in Request : \A m, n \in calls[r].ids :
        m.salt = n.salt /\ m.version = calls[r].version
  /\ \A m, n \in mappings : m.orig = n.orig /\ m.version = n.version => m = n
=============================================================================
