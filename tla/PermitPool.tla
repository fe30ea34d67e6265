----------------------------- MODULE PermitPool -----------------------------
(***************************************************************************)
(* What the concurrency gate promises its callers: a pool of weighted      *)
(* permits.  A permit is given only while it fits in the limit, belongs to *)
(* its caller until the caller returns it, and is never given twice.  How  *)
(* waiting, reservations, cooldowns and the breaker choose who is next is  *)
(* not said here.  Gate implements this specification (Gate!Pool).         *)
(***************************************************************************)
EXTENDS Integers, FiniteSets

CONSTANTS Requests, Weight

VARIABLES holders,  \* callers whose units are charged
          limit,    \* what may be charged in total by a grant
          closed

poolVars == <<holders, limit, closed>>

\* The units that the callers in S are charged for, as a set to count.
Units(S) == UNION {{r} \X (1..Weight[r]) : r \in S}

PoolInit == holders = {} /\ limit \in Nat /\ closed = FALSE

Give(r) ==
  /\ ~closed /\ r \notin holders
  /\ Cardinality(Units(holders \cup {r})) <= limit
  /\ holders' = holders \cup {r}
  /\ UNCHANGED <<limit, closed>>

TakeBack(S) ==
  /\ ~closed /\ S \subseteq holders
  /\ holders' = holders \ S
  /\ UNCHANGED <<limit, closed>>

\* Lowering the limit evicts nobody.
SetLimit == limit' \in Nat /\ UNCHANGED <<holders, closed>>

Close == closed' = TRUE /\ holders' = {} /\ UNCHANGED limit

PoolNext ==
  \/ \E r \in Requests : Give(r)
  \/ \E S \in SUBSET Requests : TakeBack(S)
  \/ SetLimit \/ Close

PoolSpec == PoolInit /\ [][PoolNext]_poolVars
=============================================================================
