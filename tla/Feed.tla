-------------------------------- MODULE Feed --------------------------------
(***************************************************************************)
(* How an open dashboard follows the captures table: the broadcaster of    *)
(* ws.ts, the messages that proxy.ts, queue.ts, index.ts and viewer.ts     *)
(* send, and the hooks use-captures-socket.ts, use-capture-list.ts and     *)
(* use-captures.ts that apply them to the list on the screen.              *)
(*                                                                         *)
(* The socket delivers in order, its opening and its closing included. A   *)
(* list is fetched on another connection, so that its answer may come      *)
(* before or after messages that were sent earlier. One dashboard is       *)
(* modelled; the broadcaster treats each by itself. Of a row only its      *)
(* state matters here. A request in its cooldown counts as "streaming",    *)
(* which is what the table says of it. Rows of vision calls are left out.  *)
(***************************************************************************)
EXTENDS Integers, Sequences, FiniteSetsExt

CONSTANTS
  MaxRows,   \* bound on the ids given
  Ring,      \* max_captures
  MaxList,   \* MAX_CAPTURES of the dashboard
  MaxMail,   \* messages that fit into the backpressure limit
  Fetch,     \* concurrent list requests
  MaxBreaks  \* bound on lost connections, failed loads, dropped updates and restarts

ASSUME FeedAssumption ==
  /\ {MaxRows, MaxMail, MaxBreaks} \subseteq Nat
  /\ Ring \in Nat \ {0} /\ MaxList \in 1..Ring  \* validation.ts: max_captures >= 200

VARIABLES
  stored,    \* captures: the state of each row, "none" for one that is not there
  given,     \* the AUTOINCREMENT of captures
  running,   \* requests whose final update has not been queued
  client,    \* the dashboard's socket is in WsBroadcaster.clients
  wire,      \* what the socket has still to deliver
  wsState,   \* wsState of the dashboard
  reachable, \* backendReachable
  fetches,   \* loadList(): [pc, answer, late]
  list,      \* captures of the dashboard, as [id, state]
  overtaken, \* ghost: the list is an answer older than what it replaced
  revived,   \* ghost: an update put a row into the list that it should not have
  breaks

feedVars == <<stored, given, running, client, wire, wsState, reachable, fetches, list,
              overtaken, revived, breaks>>
server == <<stored, given, running>>
dashboard == <<wsState, reachable, fetches, list, overtaken>>

Row == 1..MaxRows
NoFetch == [pc |-> "idle", answer |-> <<>>, late |-> FALSE]
OPEN == [type |-> "open"]
CLOSED == [type |-> "closed"]
Present == {i \in Row : stored[i] # "none"}
Rank(i) == Cardinality({k \in Present : k >= i})
Newest == {i \in Present : Rank(i) <= MaxList}

\* A message about one row.
Msg(type, i, state) == [type |-> type, id |-> i, state |-> state]

-----------------------------------------------------------------------------
\* broadcast() of one message. A message that does not fit (send() returns 0) is
\* lost, and the socket is closed so that the dashboard learns of it.
\* Mutant: the socket is only forgotten.
SendForgets(s, m) ==
  IF ~s.client THEN s
  ELSE IF Len(s.wire) < MaxMail THEN [s EXCEPT !.wire = Append(@, m)]
  ELSE [s EXCEPT !.client = FALSE]

Send(s, m) ==
  IF ~s.client THEN s
  ELSE IF Len(s.wire) < MaxMail THEN [s EXCEPT !.wire = Append(@, m)]
  ELSE [client |-> FALSE, wire |-> Append(s.wire, CLOSED)]

Socket == [client |-> client, wire |-> wire]
broadcast(s) == client' = s.client /\ wire' = s.wire
Tell(m) == broadcast(Send(Socket, m))

\* insertEarlyCapture(): the ring buffer first tells what it removes.
InsertEarlyCapture ==
  LET i == given + 1
      old == {j \in Present : Rank(j) >= Ring} IN
  /\ i \in Row /\ given' = i
  /\ stored' = [j \in Row |-> IF j = i THEN "enqueued" ELSE IF j \in old THEN "none" ELSE stored[j]]
  /\ running' = running \cup {i}
  /\ LET pruned == IF old = {} THEN Socket ELSE Send(Socket, [type |-> "prune", ids |-> old])
     IN broadcast(Send(pruned, Msg("new", i, "enqueued")))
  /\ UNCHANGED <<dashboard, revived, breaks>>

\* setState() changes a row that is there; the message is sent in any case.
setState(i, s) == stored' = [stored EXCEPT ![i] = IF @ = "none" THEN @ ELSE s]

\* onAcquire, the early status of a response, a cooldown and its end.
TellState(i) ==
  /\ i \in running
  /\ setState(i, "streaming")
  /\ Tell(Msg("state", i, "streaming"))
  /\ UNCHANGED <<given, running, dashboard, revived, breaks>>

\* The summary after the vision handoff, when the row is "enqueued", and at the
\* first chunk, when it is "streaming".
TellUpdate(i) ==
  /\ i \in running
  /\ Tell(Msg("update", i, IF stored[i] = "none" THEN "streaming" ELSE stored[i]))
  /\ UNCHANGED <<server, dashboard, revived, breaks>>

\* The detached status fetch: the row as it is, if it is there.
TellP50(i) ==
  /\ stored[i] # "none"
  /\ Tell(Msg("update", i, stored[i]))
  /\ UNCHANGED <<server, dashboard, revived, breaks>>

\* A flushed final update (WriteQueue.onFlush) and a dropped one (onDrop).
Flushed(i) ==
  /\ i \in running /\ running' = running \ {i}
  /\ setState(i, "done")
  /\ Tell(Msg("update", i, "done"))
  /\ UNCHANGED <<given, dashboard, revived, breaks>>

Dropped(i) ==
  /\ i \in running /\ running' = running \ {i}
  /\ breaks < MaxBreaks /\ breaks' = breaks + 1
  /\ setState(i, "failed")
  /\ Tell(Msg("state", i, "failed"))
  /\ UNCHANGED <<given, dashboard, revived>>

\* POST clear; the requests go on.
PostClear ==
  /\ Present # {}
  /\ stored' = [i \in Row |-> "none"]
  /\ Tell([type |-> "clear"])
  /\ UNCHANGED <<given, running, dashboard, revived, breaks>>

\* The process ends, closing its sockets or not, and starts again: rows in
\* flight are marked done.
FeedRestart ==
  /\ breaks < MaxBreaks /\ breaks' = breaks + 1
  /\ stored' = [i \in Row |-> IF stored[i] \in {"enqueued", "streaming"} THEN "done" ELSE stored[i]]
  /\ running' = {}
  /\ client' = FALSE /\ wire' = IF client THEN <<CLOSED>> ELSE wire
  /\ UNCHANGED <<given, dashboard, revived>>

\* The connection breaks; what was on its way is lost.
Breaks ==
  /\ client /\ breaks < MaxBreaks /\ breaks' = breaks + 1
  /\ client' = FALSE /\ wire' = <<CLOSED>>
  /\ UNCHANGED <<server, dashboard, revived>>

-----------------------------------------------------------------------------
\* connect(), at once or a second after the socket was closed.
Connect ==
  /\ reachable /\ wsState # "live" /\ ~client /\ wire = <<>>
  /\ client' = TRUE /\ wire' = <<OPEN>>
  /\ UNCHANGED <<server, dashboard, revived, breaks>>

Asked(f) == [fetches EXCEPT ![f].pc = "asked"]

\* A message that changes the list makes the answers under way late.
Late == [f \in Fetch |-> IF fetches[f].pc = "answered" THEN [fetches[f] EXCEPT !.late = TRUE]
                         ELSE fetches[f]]

\* Where the row stands in the list, or 0: findIndex().
At(i) ==
  LET found == {k \in DOMAIN list : list[k].id = i}
  IN IF found = {} THEN 0 ELSE Min(found)

\* onCaptureUpsert: merged in place, or put in front with the oldest cut off.
Upsert(m) ==
  IF At(m.id) > 0 THEN [list EXCEPT ![At(m.id)].state = m.state]
  ELSE SubSeq(<<[id |-> m.id, state |-> m.state]>> \o list, 1, Min({MaxList, Len(list) + 1}))

\* The list without some rows, in its order: filter().
Without(ids) ==
  LET kept == {k \in DOMAIN list : list[k].id \notin ids}
      Nth(n) == CHOOSE k \in kept : Cardinality({j \in kept : j <= k}) = n
  IN [n \in 1..Cardinality(kept) |-> list[Nth(n)]]

\* The handlers of a message: onCaptureState patches what is there.
Applied(m) ==
  CASE m.type \in {"new", "update"} -> Upsert(m)
    [] m.type = "state" -> IF At(m.id) > 0 THEN [list EXCEPT ![At(m.id)].state = m.state] ELSE list
    [] m.type = "prune" -> Without(m.ids)
    [] m.type = "clear" -> <<>>

\* An update puts a row into the list that it should not have.
Revives(m) == m.type = "update" /\ At(m.id) = 0 /\ m.id \notin Newest

OnMessage ==
  /\ wire # <<>> /\ Head(wire) \notin {OPEN, CLOSED}
  /\ wire' = Tail(wire)
  /\ list' = Applied(Head(wire))
  /\ fetches' = Late
  /\ revived' = (revived \/ Revives(Head(wire)))
  /\ UNCHANGED <<server, client, wsState, reachable, overtaken, breaks>>

\* onopen: live, and the list is loaded again.
OnOpen(f) ==
  /\ wire # <<>> /\ Head(wire) = OPEN /\ fetches[f].pc = "idle"
  /\ wire' = Tail(wire) /\ wsState' = "live"
  /\ fetches' = Asked(f)
  /\ UNCHANGED <<server, client, reachable, list, overtaken, revived, breaks>>

OnClose ==
  /\ wire # <<>> /\ Head(wire) = CLOSED
  /\ wire' = <<>> /\ wsState' = "down"
  /\ UNCHANGED <<server, client, reachable, fetches, list, overtaken, revived, breaks>>

\* retryList() and the first load.
RetryList(f) ==
  /\ ~reachable /\ fetches[f].pc = "idle"
  /\ fetches' = Asked(f)
  /\ UNCHANGED <<server, client, wire, wsState, reachable, list, overtaken, revived, breaks>>

\* GET captures: the newest rows.
GetCaptures(f) ==
  LET order == [k \in 1..Cardinality(Newest) |-> CHOOSE i \in Newest : Rank(i) = k] IN
  /\ fetches[f].pc = "asked"
  /\ fetches' = [fetches EXCEPT ![f] =
       [pc |-> "answered", late |-> FALSE,
        answer |-> [k \in DOMAIN order |-> [id |-> order[k], state |-> stored[order[k]]]]]]
  /\ UNCHANGED <<server, client, wire, wsState, reachable, list, overtaken, revived, breaks>>

\* The answer replaces the list, whatever has come meanwhile.
ListArrives(f) ==
  /\ fetches[f].pc = "answered"
  /\ list' = fetches[f].answer
  /\ overtaken' = fetches[f].late
  /\ revived' = FALSE
  /\ fetches' = [Late EXCEPT ![f] = NoFetch]
  /\ reachable' = TRUE
  /\ UNCHANGED <<server, client, wire, wsState, breaks>>

\* A failed load: the backend counts as unreachable and the socket is closed
\* for good, until a load succeeds; onclose of an open one says "down".
ListFails(f) ==
  /\ fetches[f].pc # "idle" /\ breaks < MaxBreaks /\ breaks' = breaks + 1
  /\ fetches' = [fetches EXCEPT ![f] = NoFetch]
  /\ reachable' = FALSE
  /\ IF reachable THEN /\ client' = FALSE /\ wire' = <<>>
                       /\ wsState' = IF wsState = "live" THEN "down" ELSE "unavailable"
     ELSE UNCHANGED <<client, wire, wsState>>
  /\ UNCHANGED <<server, list, overtaken, revived>>

-----------------------------------------------------------------------------
FeedInit ==
  /\ stored = [i \in Row |-> "none"] /\ given = 0 /\ running = {}
  /\ client = FALSE /\ wire = <<>> /\ wsState = "unavailable" /\ reachable = FALSE
  /\ fetches = [f \in Fetch |-> NoFetch]
  /\ list = <<>> /\ overtaken = FALSE /\ revived = FALSE /\ breaks = 0

FeedNext ==
  \/ InsertEarlyCapture \/ PostClear \/ FeedRestart \/ Breaks
  \/ \E i \in Row : \/ TellState(i) \/ TellUpdate(i) \/ TellP50(i) \/ Flushed(i) \/ Dropped(i)
  \/ Connect \/ OnMessage \/ OnClose
  \/ \E f \in Fetch : \/ OnOpen(f) \/ RetryList(f)
                      \/ GetCaptures(f) \/ ListArrives(f) \/ ListFails(f)

-----------------------------------------------------------------------------
\* A dashboard that says it is live and has nothing under way shows the newest
\* rows of the table, newest first, in their states: after lost messages,
\* backpressure, broken connections, failed loads, clears and restarts of the
\* proxy. Two orders are excepted, both disagreements the README records: a list
\* that replaced newer messages, and an update for a row that was removed while
\* its request was running, which puts the row back until the next load.
FeedAgrees ==
  (/\ wsState = "live" /\ wire = <<>>
   /\ \A f \in Fetch : fetches[f].pc = "idle"
   /\ ~overtaken /\ ~revived) =>
     /\ Len(list) = Min({MaxList, Cardinality(Present)})
     /\ \A k \in DOMAIN list :
          /\ list[k].state = stored[list[k].id]
          /\ Rank(list[k].id) = k
=============================================================================
