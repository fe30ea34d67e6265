-------------------------- MODULE WriteBehindProofs --------------------------
(***************************************************************************)
(* Proofs about WriteBehind, for every size of the queue, the ring buffer  *)
(* and the batches, with and without the worker, and for every pattern of  *)
(* failures, and about the captures table under it: what each statement of *)
(* db.ts does to the table, and that the ring buffer keeps its bound and   *)
(* the newest rows through failed inserts, clears and restarts.            *)
(***************************************************************************)
EXTENDS WriteBehind, SequenceLemmas, TLAPS

(***************************************************************************)
(* The statements.                                                         *)
(***************************************************************************)
\* The ids given out are ids.
LEMMA RowsAreIds == CapturesTypeOK => 1 .. lastId \subseteq Ids /\ rows \subseteq Ids
<1>1. ASSUME CapturesTypeOK PROVE lastId \in Nat /\ lastId <= MaxId /\ rows \subseteq 1 .. lastId
  BY <1>1, CapturesAssumption DEF CapturesTypeOK
<1> QED
  BY <1>1, CapturesAssumption DEF Ids

\* The final update of a set of rows is in effect afterwards, undoes no other,
\* puts no row in flight, and bills what had not been billed.
LEMMA UpdateEffect ==
  ASSUME CapturesTypeOK, NEW S \in SUBSET Ids, UpdateAndAccount(S)
  PROVE  /\ CapturesTypeOK' /\ rows' = rows /\ lastId' = lastId /\ visionIds' = visionIds
         /\ BilledOnce => BilledOnce'
         /\ \A i \in Ids :
              /\ i \in S \/ state[i] = "done" => (i \in rows => state'[i] = "done")
              /\ i \in S \/ i \in accounted => (i \in rows => i \in accounted')
              /\ state'[i] \in InFlightStates => state'[i] = state[i]
<1>1. /\ state' = [i \in Ids |-> IF i \in S \cap rows THEN "done" ELSE state[i]]
      /\ accounted' = accounted \cup ((S \cap rows) \ accounted)
      /\ billed' = [i \in Ids |-> IF i \in ((S \cap rows) \ accounted) \cap Billable
                                  THEN billed[i] + 1 ELSE billed[i]]
      /\ UNCHANGED <<lastId, visionIds, rows, rowCount>>
  BY DEF UpdateAndAccount, ToAccount, idVars
<1>2. CapturesTypeOK'
  <2>1. state' \in [Ids -> RowStates]
    BY <1>1 DEF CapturesTypeOK, RowStates
  <2>2. billed' \in [Ids -> Nat]
    BY <1>1 DEF CapturesTypeOK
  <2>3. accounted' \subseteq 1 .. lastId
    BY <1>1 DEF CapturesTypeOK
  <2> QED
    BY <1>1, <2>1, <2>2, <2>3 DEF CapturesTypeOK
<1>3. ASSUME BilledOnce PROVE BilledOnce'
  <2> SUFFICES ASSUME NEW i \in Ids
               PROVE  billed'[i] <= IF i \in accounted' \cap Billable THEN 1 ELSE 0
    BY DEF BilledOnce
  <2>1. billed[i] \in Nat /\ billed[i] <= IF i \in accounted \cap Billable THEN 1 ELSE 0
    BY <1>3 DEF BilledOnce, CapturesTypeOK
  <2>2. CASE i \in ((S \cap rows) \ accounted) \cap Billable
    <3>1. billed'[i] = billed[i] + 1 /\ i \in accounted' \cap Billable /\ i \notin accounted
      BY <1>1, <2>2
    <3> QED
      BY <2>1, <3>1
  <2>3. CASE i \notin ((S \cap rows) \ accounted) \cap Billable
    <3>1. billed'[i] = billed[i] /\ accounted \subseteq accounted'
      BY <1>1, <2>3
    <3> QED
      BY <2>1, <3>1
  <2> QED
    BY <2>2, <2>3
<1> QED
  BY <1>1, <1>2, <1>3 DEF InFlightStates

\* startCapture() adds one row with a new id; other rows stay or leave.
LEMMA StartEffect ==
  ASSUME CapturesTypeOK, StartCapture
  PROVE  /\ CapturesTypeOK' /\ (BilledOnce => BilledOnce')
         /\ NextId \in Ids /\ lastId' = NextId /\ NextId = lastId + 1
         /\ rows' \subseteq rows \cup {NextId} /\ visionIds' = visionIds
         /\ accounted' = accounted /\ state' = [state EXCEPT ![NextId] = "enqueued"]
<1>1. /\ NextId \in Ids /\ lastId' = NextId
      /\ rows' \subseteq rows \cup {NextId}
      /\ rowCount' = IF Excess(rowCount + 1) > 0 THEN MaxCaptures ELSE rowCount + 1
      /\ state' = [state EXCEPT ![NextId] = "enqueued"]
      /\ UNCHANGED <<visionIds, accounted, billed>>
  BY DEF StartCapture, usageVars
<1>2. lastId' \in 0 .. MaxId /\ 1 .. lastId \subseteq 1 .. lastId' /\ NextId \in 1 .. lastId'
  BY <1>1, CapturesAssumption DEF CapturesTypeOK, NextId, Ids
<1>3. rowCount' \in Nat
  BY <1>1, CapturesAssumption DEF CapturesTypeOK
<1>4. state' \in [Ids -> RowStates]
  BY <1>1 DEF CapturesTypeOK, RowStates
<1>5. CapturesTypeOK'
  BY <1>1, <1>2, <1>3, <1>4 DEF CapturesTypeOK
<1>6. BilledOnce => BilledOnce'
  BY <1>1 DEF BilledOnce
<1> QED
  BY <1>1, <1>5, <1>6 DEF NextId

\* new CaptureDB() and clear().
LEMMA ReopenEffect ==
  ASSUME CapturesTypeOK, Reopen \/ Clear
  PROVE  /\ CapturesTypeOK' /\ (BilledOnce => BilledOnce')
         /\ rows' \subseteq rows /\ lastId' = lastId /\ accounted' = accounted
         /\ visionIds' = visionIds
         /\ \A i \in Ids : (state[i] = "done" => state'[i] = "done")
                           /\ (state'[i] \in InFlightStates => state'[i] = state[i])
         /\ Reopen => \A i \in rows' : state'[i] \notin InFlightStates
<1>1. CASE Reopen
  <2>1. PICK old \in Expired :
          /\ rows' = rows \ old
          /\ state' = [i \in Ids |-> IF i \in rows /\ state[i] \in StaleStates
                                     THEN "done" ELSE state[i]]
          /\ rowCount' = Cardinality(MainRows)
          /\ UNCHANGED <<lastId, visionIds, accounted, billed>>
    BY <1>1 DEF Reopen, idVars, usageVars
  <2>2. IsFiniteSet(1 .. lastId) /\ MainRows \subseteq 1 .. lastId
    BY FS_Interval DEF CapturesTypeOK, MainRows
  <2>3. rowCount' \in Nat
    BY <2>1, <2>2, FS_Subset, FS_CardinalityType
  <2>4. CapturesTypeOK'
    BY <2>1, <2>3 DEF CapturesTypeOK, RowStates
  <2>5. \A i \in Ids : state'[i] = IF i \in rows /\ state[i] \in StaleStates
                                     THEN "done" ELSE state[i]
    BY <2>1
  <2>6. rows' \subseteq rows /\ rows \subseteq Ids
    BY <2>1, RowsAreIds
  <2>7. \A i \in Ids : (state[i] = "done" => state'[i] = "done")
                       /\ (state'[i] \in InFlightStates => state'[i] = state[i])
    BY <2>5 DEF InFlightStates
  <2>8. \A i \in rows' : state'[i] \notin InFlightStates
    BY <2>5, <2>6 DEF InFlightStates, StaleStates
  <2>9. BilledOnce => BilledOnce'
    BY <2>1 DEF BilledOnce
  <2> QED
    BY <2>1, <2>4, <2>6, <2>7, <2>8, <2>9
<1>2. CASE Clear
  <2>1. rows' = {} /\ rowCount' = 0 /\ UNCHANGED <<lastId, visionIds, state, accounted, billed>>
    BY <1>2 DEF Clear, idVars, usageVars
  <2>2. CapturesTypeOK' /\ (BilledOnce => BilledOnce')
    BY <2>1 DEF CapturesTypeOK, BilledOnce
  <2> QED
    BY <2>1, <2>2
<1> QED
  BY <1>1, <1>2

\* One column of some rows is set.
LEMMA StateEffect ==
  ASSUME CapturesTypeOK, state' \in [Ids -> RowStates],
         UNCHANGED <<idVars, rows, usageVars, rowCount>>
  PROVE  CapturesTypeOK' /\ (BilledOnce => BilledOnce')
  BY DEF CapturesTypeOK, BilledOnce, idVars, usageVars

\* Nothing in the table is touched.
LEMMA UnchangedTable ==
  ASSUME UNCHANGED captureVars
  PROVE  /\ CapturesTypeOK => CapturesTypeOK'
         /\ BilledOnce => BilledOnce'
         /\ UNCHANGED <<lastId, rows, visionIds, state, accounted, rowCount>>
  BY DEF CapturesTypeOK, BilledOnce, captureVars, idVars, usageVars


(***************************************************************************)
(* The ring buffer.                                                        *)
(***************************************************************************)
\* The rows are finitely many, and so are those newer than one of them.
LEMMA RowsFinite ==
  ASSUME CapturesTypeOK
  PROVE  IsFiniteSet(MainRows) /\ Cardinality(MainRows) \in Nat
<1>1. lastId \in Nat /\ MainRows \in SUBSET (1 .. lastId)
  BY CapturesAssumption DEF CapturesTypeOK, MainRows
<1>2. IsFiniteSet(1 .. lastId)
  BY <1>1, FS_Interval
<1>3. IsFiniteSet(MainRows)
  BY <1>1, <1>2, FS_Subset
<1> QED
  BY <1>3, FS_CardinalityType

\* A set of ids has a smallest one.
LEMMA Oldest ==
  ASSUME NEW S \in SUBSET Nat, S # {}
  PROVE  \E x \in S : \A y \in S : x <= y
<1>1. PICK x \in S : \A y \in S : ~(<<y, x>> \in OpToRel(<, Nat))
  BY NatLessThanWellFounded, WFMin
<1>2. \A y \in S : ~(y < x)
  BY <1>1 DEF OpToRel
<1> QED
  BY <1>2

\* The newer ids of a set that is at most one above the bound: they are at most
\* MaxCaptures, and only the oldest id of a set above the bound has so many.
LEMMA NewerBound ==
  ASSUME NEW S \in SUBSET Nat, IsFiniteSet(S), Cardinality(S) <= MaxCaptures + 1, NEW i \in S
  PROVE  /\ Newer(S, i) \in Nat /\ Newer(S, i) <= MaxCaptures
         /\ Newer(S, i) >= MaxCaptures => \A j \in S \ {i} : j > i
<1> DEFINE N == {j \in S : j > i}
<1>1. IsFiniteSet(S \ {i}) /\ Cardinality(S \ {i}) = Cardinality(S) - 1
  BY FS_RemoveElement
<1>2. N \in SUBSET (S \ {i})
  OBVIOUS
<1>3. /\ IsFiniteSet(N) /\ Cardinality(N) <= Cardinality(S \ {i})
      /\ Cardinality(S \ {i}) = Cardinality(N) => S \ {i} = N
  BY <1>1, <1>2, FS_Subset
<1>4. Cardinality(N) \in Nat /\ Cardinality(S) \in Nat
  BY <1>3, FS_CardinalityType
<1>5. Newer(S, i) = Cardinality(N)
  BY DEF Newer
<1> HIDE DEF N
<1>6. Cardinality(N) <= MaxCaptures
      /\ (Cardinality(N) >= MaxCaptures => Cardinality(S \ {i}) = Cardinality(N))
  BY <1>1, <1>3, <1>4, CapturesAssumption
<1>7. S \ {i} = N => \A j \in S \ {i} : j > i
  BY DEF N
<1> QED
  BY <1>3, <1>4, <1>5, <1>6, <1>7

\* What an insert removes from a table that is at most one row above the bound:
\* never the new row, at most the oldest one, and that one if it must.
LEMMA PruneEffect ==
  ASSUME NEW S \in SUBSET Nat, IsFiniteSet(S), Cardinality(S) <= MaxCaptures + 1,
         NEW e \in Nat, Cardinality(S) > MaxCaptures => e > 0
  PROVE  /\ Cardinality(S \ Pruned(S, e)) <= MaxCaptures
         /\ Cardinality(S \ Pruned(S, e)) <= Cardinality(S)
         /\ \A i \in Pruned(S, e) :
              Cardinality({j \in S \ Pruned(S, e) : j > i}) >= MaxCaptures
         /\ \A i \in S : (\A j \in S : j <= i) => i \notin Pruned(S, e)
<1> DEFINE P == Pruned(S, e)
<1>1. P \in SUBSET S /\ \A i \in P : Newer(S, i) >= MaxCaptures
  BY DEF Pruned
<1>2. \A i \in P : \A j \in S \ {i} : j > i
  BY <1>1, NewerBound
<1>0. \A j \in S : j \in Nat
  OBVIOUS
<1>3. ASSUME NEW i \in P
      PROVE  Cardinality({j \in S \ P : j > i}) >= MaxCaptures
  <2>1. ASSUME NEW j \in S, j > i PROVE j \notin P
    <3>1. j \in P => i > j
      <4> HIDE DEF P
      <4>1. i \in S /\ i # j
        BY <1>0, <1>1, <2>1
      <4> QED
        BY <1>2, <4>1
    <3>2. i \in Nat /\ j \in Nat
      BY <1>0, <1>1
    <3> QED
      BY <2>1, <3>1, <3>2
  <2>2. {j \in S \ P : j > i} = {j \in S : j > i}
    BY <2>1
  <2> QED
    BY <1>1, <2>2 DEF Newer
<1>4. ASSUME NEW i \in S, \A j \in S : j <= i
      PROVE  i \notin P
  <2>1. {j \in S : j > i} = {}
    <3>1. \A j \in S : ~(j > i)
      BY <1>0, <1>4
    <3> QED
      BY <3>1
  <2>2. Newer(S, i) = 0
    BY <2>1, FS_EmptySet DEF Newer
  <2> QED
    BY <1>1, <2>2, CapturesAssumption
<1>5. Cardinality(S) \in Nat
  BY FS_CardinalityType
<1>6. S \ P \in SUBSET S
  OBVIOUS
<1>7. IsFiniteSet(S \ P) /\ Cardinality(S \ P) <= Cardinality(S)
  BY <1>6, FS_Subset
<1>8. Cardinality(S \ P) \in Nat
  BY <1>7, FS_CardinalityType
<1>9. CASE Cardinality(S) > MaxCaptures
  <2>1. S # {}
    BY <1>9, FS_EmptySet, CapturesAssumption
  <2>2. PICK x \in S : \A y \in S : x <= y
    BY <2>1, Oldest
  <2>3. {j \in S : j > x} = S \ {x}
    <3>1. \A j \in S : j > x <=> j # x
      BY <1>0, <2>2
    <3> QED
      BY <3>1
  <2>4. Cardinality(S \ {x}) = Cardinality(S) - 1 /\ IsFiniteSet(S \ {x})
    BY FS_RemoveElement
  <2>5. Newer(S, x) = MaxCaptures
    BY <1>5, <1>9, <2>3, <2>4, CapturesAssumption DEF Newer
  <2>6. x \in P
    BY <1>9, <2>5, CapturesAssumption DEF Pruned
  <2>7. S \ P \in SUBSET (S \ {x})
    BY <2>6
  <2>8. Cardinality(S \ P) <= Cardinality(S \ {x})
    BY <2>4, <2>7, FS_Subset
  <2> QED
    BY <1>3, <1>4, <1>5, <1>7, <1>8, <1>9, <2>4, <2>8, CapturesAssumption
<1>10. CASE Cardinality(S) <= MaxCaptures
  BY <1>3, <1>4, <1>5, <1>7, <1>8, <1>10, CapturesAssumption
<1> QED
  BY <1>5, <1>9, <1>10, CapturesAssumption

\* A row leaves the table by a clear, by the sweep of the vision rows, or when
\* MaxCaptures newer main rows are there; a new row stays.
LeavesInOrder ==
  /\ lastId' # lastId => lastId' \in rows'
  /\ \A i \in rows \ rows' :
       \/ rows' \cap MainRows = {} /\ rowCount' = 0
       \/ i \in visionIds
       \/ Cardinality({j \in rows' \ visionIds' : j > i}) >= MaxCaptures

RingInv == CapturesTypeOK /\ RingBounded

\* startCapture(), committed.
LEMMA StartRing == ASSUME RingInv, StartCapture PROVE RingInv' /\ LeavesInOrder
<1> DEFINE all == MainRows \cup {NextId}
           gone == Pruned(all, Excess(rowCount + 1))
<1>1. CapturesTypeOK /\ RingBounded
  BY DEF RingInv
<1>2. CapturesTypeOK' /\ lastId' = NextId /\ NextId = lastId + 1 /\ visionIds' = visionIds
  BY <1>1, StartEffect
<1>3. /\ rows' = (rows \cup {NextId}) \ gone
      /\ rowCount' = IF Excess(rowCount + 1) > 0 THEN MaxCaptures ELSE rowCount + 1
  BY DEF StartCapture
<1>4. /\ lastId \in Nat /\ MainRows \in SUBSET (1 .. lastId) /\ rowCount \in Nat
      /\ visionIds \in SUBSET (1 .. lastId)
  BY <1>1, CapturesAssumption DEF CapturesTypeOK, MainRows
<1>5. NextId \in Nat /\ NextId \notin MainRows /\ NextId \notin visionIds
      /\ \A j \in all : j \in Nat /\ j <= NextId
  BY <1>2, <1>4
<1>6. IsFiniteSet(MainRows) /\ Cardinality(MainRows) \in Nat
  BY <1>1, RowsFinite
<1>7. IsFiniteSet(all) /\ Cardinality(all) = Cardinality(MainRows) + 1
  BY <1>5, <1>6, FS_AddElement
<1>8. Cardinality(MainRows) <= MaxCaptures /\ Cardinality(MainRows) <= rowCount
  BY <1>1 DEF RingBounded
<1>9. /\ Excess(rowCount + 1) \in Nat
      /\ Excess(rowCount + 1) > 0 <=> rowCount + 1 > MaxCaptures
  BY <1>4, CapturesAssumption DEF Excess
<1> DEFINE e == Excess(rowCount + 1)
<1>10. all \in SUBSET Nat /\ Cardinality(all) <= MaxCaptures + 1
       /\ (Cardinality(all) > MaxCaptures => e > 0)
  <2>1. all \in SUBSET Nat
    BY <1>5
  <2> HIDE DEF all
  <2> QED
    BY <2>1, <1>4, <1>6, <1>7, <1>8, <1>9, CapturesAssumption
<1>11. NextId \in all /\ rows \ visionIds = MainRows
  BY DEF MainRows
<1>12. gone \subseteq all
  BY DEF Pruned
<1>13. MainRows' = all \ gone /\ rows' \ visionIds' = all \ gone
  BY <1>2, <1>3, <1>5, <1>11, <1>12 DEF MainRows
<1> HIDE DEF all, e
<1>14. /\ Cardinality(all \ gone) <= MaxCaptures /\ Cardinality(all \ gone) <= Cardinality(all)
       /\ \A i \in gone : Cardinality({j \in all \ gone : j > i}) >= MaxCaptures
       /\ \A i \in all : (\A j \in all : j <= i) => i \notin gone
  BY <1>7, <1>9, <1>10, PruneEffect DEF e
<1>15. NextId \notin gone
  BY <1>5, <1>11, <1>14
<1> HIDE DEF gone
<1>16. RingBounded'
  <2>1. IsFiniteSet(all \ gone)
    BY <1>7, FS_Difference
  <2>2. Cardinality(all \ gone) \in Nat
    BY <2>1, FS_CardinalityType
  <2>3. Cardinality(all \ gone) <= rowCount'
    BY <2>2, <1>3, <1>4, <1>6, <1>7, <1>8, <1>9, <1>14, CapturesAssumption
  <2> QED
    BY <1>13, <1>14, <2>3 DEF RingBounded
<1>17. LeavesInOrder
  <2>1. lastId' \in rows'
    BY <1>2, <1>3, <1>15
  <2>2. ASSUME NEW i \in rows \ rows'
        PROVE  Cardinality({j \in rows' \ visionIds' : j > i}) >= MaxCaptures
    BY <1>3, <1>13, <1>14
  <2> QED
    BY <2>1, <2>2 DEF LeavesInOrder
<1> QED
  BY <1>2, <1>16, <1>17 DEF RingInv

\* A step that removes only vision rows and adds no main row.
LEMMA VisionRing ==
  ASSUME RingInv, CapturesTypeOK', MainRows' = MainRows,
         rowCount' \in {rowCount, Cardinality(MainRows)},
         rows \ rows' \subseteq visionIds, lastId' # lastId => lastId' \in rows'
  PROVE  RingInv' /\ LeavesInOrder
<1>1. Cardinality(MainRows) \in Nat /\ Cardinality(MainRows) <= Cardinality(MainRows)
  BY RowsFinite DEF RingInv
<1>2. RingBounded'
  BY <1>1 DEF RingInv, RingBounded
<1> QED
  BY <1>2 DEF RingInv, LeavesInOrder

\* Every other statement.
LEMMA NextRing == ASSUME RingInv, CapturesNext PROVE RingInv' /\ LeavesInOrder
<1>1. CapturesTypeOK /\ RingBounded /\ lastId \in Nat
  BY CapturesAssumption DEF RingInv, CapturesTypeOK
<1>2. CASE StartCapture
  BY <1>2, StartRing
<1>3. CASE StartCaptureFails
  <2>1. /\ UNCHANGED <<lastId, visionIds, rows, state, accounted, billed>>
        /\ rowCount' \in {rowCount, rowCount + 1, MaxCaptures}
        /\ rowCount' = MaxCaptures => rowCount + 1 > MaxCaptures \/ rowCount' \in {rowCount, rowCount + 1}
    BY <1>3 DEF StartCaptureFails, CountAfterRollback, Excess, idVars, usageVars
  <2>2. rowCount \in Nat /\ rowCount' \in Nat /\ Cardinality(MainRows) \in Nat
    BY <1>1, <2>1, RowsFinite, CapturesAssumption DEF CapturesTypeOK
  <2>3. CapturesTypeOK'
    BY <1>1, <2>1, <2>2 DEF CapturesTypeOK
  <2>4. RingBounded'
    BY <1>1, <2>1, <2>2, CapturesAssumption DEF RingBounded, MainRows
  <2>5. LeavesInOrder
    BY <2>1 DEF LeavesInOrder
  <2> QED
    BY <2>3, <2>4, <2>5 DEF RingInv
<1>4. ASSUME NEW i \in 1 .. lastId, NEW s \in {"streaming", "failed"}, SetState(i, s)
      PROVE  RingInv' /\ LeavesInOrder
  <2>1. state' \in [Ids -> RowStates] /\ UNCHANGED <<idVars, rows, usageVars, rowCount>>
    BY <1>1, <1>4 DEF SetState, StateSet, CapturesTypeOK, RowStates
  <2>2. CapturesTypeOK'
    BY <1>1, <2>1, StateEffect
  <2> QED
    BY <2>1, <2>2, VisionRing DEF MainRows, idVars
<1>5. ASSUME NEW i \in 1 .. lastId, UpdateAndAccount({i})
      PROVE  RingInv' /\ LeavesInOrder
  <2>1. {i} \in SUBSET Ids
    BY <1>1, RowsAreIds
  <2>2. CapturesTypeOK' /\ rows' = rows /\ lastId' = lastId /\ visionIds' = visionIds
    BY <1>1, <1>5, <2>1, UpdateEffect
  <2>3. rowCount' = rowCount
    BY <1>5 DEF UpdateAndAccount
  <2> QED
    BY <2>2, <2>3, VisionRing DEF MainRows
<1>6. CASE InsertVision
  <2>1. PICK s \in {"streaming", "done"}, old \in Expired :
          /\ NextId \in Ids /\ lastId' = NextId
          /\ rows' = (rows \cup {NextId}) \ old
          /\ visionIds' = visionIds \cup {NextId}
          /\ state' = [state EXCEPT ![NextId] = s]
          /\ UNCHANGED <<accounted, billed, rowCount>>
    BY <1>6 DEF InsertVision, usageVars
  <2>2. /\ NextId = lastId + 1 /\ rows \subseteq 1 .. lastId /\ visionIds \subseteq 1 .. lastId
        /\ old \subseteq visionIds
    BY <1>1 DEF NextId, CapturesTypeOK, Expired
  <2>3. NextId \in 0 .. MaxId /\ 1 .. lastId \subseteq 1 .. NextId /\ NextId \in 1 .. NextId
        /\ NextId \notin rows /\ NextId \notin visionIds
    BY <1>1, <2>1, <2>2, CapturesAssumption DEF Ids
  <2>4. CapturesTypeOK'
    BY <1>1, <2>1, <2>2, <2>3 DEF CapturesTypeOK, RowStates
  <2>5. MainRows' = MainRows /\ rows \ rows' \subseteq visionIds /\ lastId' \in rows'
    BY <2>1, <2>2, <2>3 DEF MainRows
  <2> QED
    BY <2>1, <2>4, <2>5, VisionRing
<1>7. ASSUME NEW i \in Ids, FinishVision(i) PROVE RingInv' /\ LeavesInOrder
  <2>1. CASE UpdateAndAccount({i})
    <3>1. CapturesTypeOK' /\ rows' = rows /\ lastId' = lastId /\ visionIds' = visionIds
      BY <1>1, <2>1, UpdateEffect
    <3>2. rowCount' = rowCount
      BY <2>1 DEF UpdateAndAccount
    <3> QED
      BY <3>1, <3>2, VisionRing DEF MainRows
  <2>2. CASE SetState(i, "failed")
    <3>1. state' \in [Ids -> RowStates] /\ UNCHANGED <<idVars, rows, usageVars, rowCount>>
      BY <1>1, <2>2 DEF SetState, StateSet, CapturesTypeOK, RowStates
    <3>2. CapturesTypeOK'
      BY <1>1, <3>1, StateEffect
    <3> QED
      BY <3>1, <3>2, VisionRing DEF MainRows, idVars
  <2> QED
    BY <1>7, <2>1, <2>2 DEF FinishVision
<1>8. CASE ClearVision
  <2>1. rows' = rows \ visionIds /\ UNCHANGED <<lastId, visionIds, state, accounted, billed, rowCount>>
    BY <1>8 DEF ClearVision, idVars, usageVars
  <2>2. CapturesTypeOK'
    BY <1>1, <2>1 DEF CapturesTypeOK
  <2> QED
    BY <2>1, <2>2, VisionRing DEF MainRows
<1>9. CASE Clear
  <2>1. CapturesTypeOK' /\ lastId' = lastId
    BY <1>1, <1>9, ReopenEffect
  <2>2. rows' = {} /\ rowCount' = 0 /\ MainRows' = {}
    BY <1>9 DEF Clear, MainRows
  <2>3. RingBounded'
    BY <2>2, FS_EmptySet, CapturesAssumption DEF RingBounded
  <2> QED
    BY <2>1, <2>2, <2>3 DEF RingInv, LeavesInOrder
<1>10. CASE Reopen
  <2>1. CapturesTypeOK' /\ lastId' = lastId /\ visionIds' = visionIds
    BY <1>1, <1>10, ReopenEffect
  <2>2. PICK old \in Expired : rows' = rows \ old
    BY <1>10 DEF Reopen
  <2>3. rowCount' = Cardinality(MainRows)
    BY <1>10 DEF Reopen
  <2>4. MainRows' = MainRows /\ rows \ rows' \subseteq visionIds
    BY <2>1, <2>2 DEF MainRows, Expired
  <2> QED
    BY <2>1, <2>3, <2>4, VisionRing
<1> QED
  BY <1>2, <1>3, <1>4, <1>5, <1>6, <1>7, <1>8, <1>9, <1>10 DEF CapturesNext

\* The ring buffer never holds more than maxCaptures main rows, its cached count
\* never runs below the real one, a new row stays, and a main row is removed only
\* by a clear or for maxCaptures newer ones (startCapture() and its callers).
THEOREM RingCorrect == CapturesInit /\ [][CapturesNext]_captureVars => RingKeepsNewest
<1>1. CapturesInit => RingInv
  <2> SUFFICES ASSUME CapturesInit PROVE RingInv
    OBVIOUS
  <2>1. CapturesTypeOK
    BY CapturesAssumption DEF CapturesInit, CapturesTypeOK, RowStates
  <2>2. MainRows = {} /\ rowCount = 0
    BY DEF CapturesInit, MainRows
  <2> QED
    BY <2>1, <2>2, FS_EmptySet, CapturesAssumption DEF RingInv, RingBounded
<1>2. RingInv /\ [CapturesNext]_captureVars => RingInv'
  <2>1. ASSUME RingInv, UNCHANGED captureVars PROVE RingInv'
    BY <2>1 DEF RingInv, RingBounded, CapturesTypeOK, MainRows, captureVars, idVars, usageVars
  <2> QED
    BY <2>1, NextRing
<1>3. RingInv /\ [CapturesNext]_captureVars => [LeavesInOrder]_captureVars
  BY NextRing
<1>4. RingInv => CapturesTypeOK /\ RingBounded
  BY DEF RingInv
<1>5. CapturesInit /\ [][CapturesNext]_captureVars => [][LeavesInOrder]_captureVars
  BY <1>1, <1>2, <1>3, PTL
<1>6. [][LeavesInOrder]_captureVars => PruneOnlyOldest
  BY PTL DEF PruneOnlyOldest, LeavesInOrder
<1> QED
  BY <1>1, <1>2, <1>4, <1>5, <1>6, PTL DEF RingKeepsNewest

-----------------------------------------------------------------------------
(***************************************************************************)
(* The inductive invariant.                                                *)
(***************************************************************************)
Flight == [batch: Seq(Ids), st: {"idle", "wait", "ok", "fail"}, bid: 0 .. MaxBatches]
Message == [type: {"batch", "close"}, bid: 0 .. MaxBatches, ids: SUBSET Ids]
Reply == [type: {"ack", "error", "crash"}, bid: 0 .. MaxBatches]
Worker == [inbox: Seq(Message), outbox: Seq(Reply), conn: {"none", "open", "broken"},
           alive: BOOLEAN, unwritten: SUBSET Ids]

\* The types of QueueTypeOK, with those of the two mailboxes.
Flags == flushTimer \in BOOLEAN /\ retryTimer \in BOOLEAN /\ chained \in BOOLEAN

Fields ==
  /\ queue \in Seq(Ids) /\ armed \in Nat /\ retryCount \in 0 .. MaxRetries - 1
  /\ flight \in [Flushes -> Flight] /\ worker \in Worker
  /\ phase \in Phases /\ tries \in 0 .. 3 /\ fate \in [Ids -> Fates]

\* A handle stands for a timeout that will fire.
ArmedInv == flushTimer => armed > 0

\* shutdown() has a flush of its own exactly in phase "flushing", and three
\* attempts in all; a flush that is over holds nothing.
ShutdownInv ==
  /\ flight["shutdown"].st # "idle" <=> phase = "flushing"
  /\ phase = "running" => tries = 0
  /\ phase = "draining" => tries < 3
  /\ \A k \in Flushes : flight[k].st = "idle" => flight[k].batch = <<>>

\* Queue and flights are disjoint, without repetition, and hold what is queued.
PartsInv ==
  /\ IsInjective(queue) /\ \A k \in Flushes : IsInjective(flight[k].batch)
  /\ \A k \in Flushes : Range(queue) \cap Range(flight[k].batch) = {}
  /\ Range(flight["guarded"].batch) \cap Range(flight["shutdown"].batch) = {}
  /\ {i \in Ids : fate[i] = "queued"} =
       Range(queue) \cup Range(flight["guarded"].batch) \cup Range(flight["shutdown"].batch)

\* An id that was never given out has no update.
FreshInv == \A i \in Ids : i > lastId => fate[i] = "none"

\* The update of i took effect, or was acknowledged by a worker without a
\* statement.
Effected(i) ==
  \/ i \in rows => state[i] = "done" /\ i \in accounted
  \/ i \in worker.unwritten

\* Batch ids: a batch in the inbox is the one its flight waits for, and what is
\* acknowledged took effect, whether the answer is under way or has been taken
\* (BoxInv), or was acted upon (StoredInv).
BoxInv ==
  /\ \A m \in Range(worker.inbox), k \in Flushes :
       m.type = "batch" /\ m.bid = flight[k].bid /\ flight[k].st = "wait" =>
         m.ids = Range(flight[k].batch)
  /\ \A m \in Range(worker.outbox), k \in Flushes :
       m.type = "ack" /\ m.bid = flight[k].bid /\ flight[k].st = "wait" =>
         \A i \in Range(flight[k].batch) : Effected(i)
  /\ \A k \in Flushes : flight[k].st = "ok" => \A i \in Range(flight[k].batch) : Effected(i)

StoredInv == \A i \in Ids : fate[i] = "stored" => Effected(i)

\* Only a worker whose connection broke acknowledges what it did not write.
BrokenInv ==
  /\ worker.conn = "broken" \/ worker.unwritten # {} => "broken" \in ConnectFails
  /\ ~UseWorker => worker.inbox = <<>> /\ worker.unwritten = {}

\* While the server runs someone will flush the queue: what came in during a
\* flush is chained to it or has a timeout of its own.
StrandInv ==
  TRUE \notin OnFlushThrows /\ phase = "running" /\ queue # <<>> =>
    IF Busy THEN chained \/ armed > 0 ELSE armed > 0 \/ retryTimer

\* Rows are marked when their updates are dropped, if onDrop does its work and
\* the worker has its statements.
MarksDrops == TRUE \notin OnDropThrows /\ ("broken" \notin ConnectFails \/ ~UseWorker)

PhantomInv == MarksDrops => NoPhantomRows

WBInv ==
  /\ Flags /\ Fields /\ CapturesTypeOK /\ BilledOnce
  /\ ArmedInv /\ ShutdownInv /\ PartsInv /\ FreshInv
  /\ BoxInv /\ StoredInv /\ BrokenInv /\ StrandInv /\ PhantomInv

(***************************************************************************)
(* flushNow() and what follows its await.                                  *)
(***************************************************************************)
\* A batch is posted under an id that no flight and no message has.
LEMMA PostEffect ==
  ASSUME Fields, NEW k \in Flushes, NEW q \in Seq(Ids), Post(k, q)
  PROVE  /\ flight' \in [Flushes -> Flight] /\ worker' \in Worker
         /\ \A j \in Flushes \ {k} : flight'[j] = flight[j]
         /\ flight'[k].batch = q /\ flight'[k].st = "wait"
         /\ UNCHANGED <<worker.unwritten, worker.conn, captureVars>>
         /\ BoxInv => BoxInv'
<1>1. PICK b \in 1 .. MaxBatches :
        /\ ~InUse(b) /\ InFlight(k, q, "wait", b)
        /\ worker' = IF worker.alive
                     THEN [worker EXCEPT !.inbox =
                             Append(@, [type |-> "batch", bid |-> b, ids |-> Range(q)])]
                     ELSE worker
        /\ UNCHANGED captureVars
  BY DEF Post
<1> DEFINE m == [type |-> "batch", bid |-> b, ids |-> Range(q)]
           f == [batch |-> q, st |-> "wait", bid |-> b]
<1>2. b \in 0 .. MaxBatches /\ Range(q) \in SUBSET Ids
  BY WriteBehindAssumption, Positions
<1>3. m \in Message /\ f \in Flight
  BY <1>2 DEF Message, Flight
<1>4. flight' = [flight EXCEPT ![k] = f]
  BY <1>1 DEF InFlight
<1>5. flight' \in [Flushes -> Flight] /\ flight'[k] = f
      /\ \A j \in Flushes \ {k} : flight'[j] = flight[j]
  BY <1>3, <1>4 DEF Fields
<1>6. /\ f.batch = q /\ f.st = "wait" /\ f.bid = b
      /\ m.type = "batch" /\ m.bid = b /\ m.ids = Range(q)
  OBVIOUS
<1> HIDE DEF m, f
<1>7. worker.inbox \in Seq(Message) /\ worker.outbox \in Seq(Reply)
  BY DEF Fields, Worker
<1>8. worker' \in Worker /\ UNCHANGED <<worker.unwritten, worker.conn, worker.outbox>>
      /\ worker'.inbox \in {worker.inbox, Append(worker.inbox, m)}
  <2>1. CASE worker.alive
    <3>1. worker' = [worker EXCEPT !.inbox = Append(worker.inbox, m)]
      BY <1>1, <2>1 DEF m
    <3>2. Append(worker.inbox, m) \in Seq(Message)
      BY <1>3, <1>7
    <3> QED
      BY <3>1, <3>2 DEF Fields, Worker
  <2>2. CASE ~worker.alive
    BY <1>1, <2>2 DEF Fields
  <2> QED
    BY <2>1, <2>2
<1>9. ASSUME BoxInv PROVE BoxInv'
  <2>1. \A j \in Flushes : flight[j].bid # b
    BY <1>1 DEF InUse
  <2>2. \A x \in Range(worker.inbox) \cup Range(worker.outbox) : x.bid # b
    BY <1>1 DEF InUse
  <2>3. \A i : Effected(i)' <=> Effected(i)
    BY <1>1, <1>8, UnchangedTable DEF Effected
  <2>4. ASSUME NEW x \in Range(worker'.inbox), NEW j \in Flushes,
               x.type = "batch", x.bid = flight'[j].bid, flight'[j].st = "wait"
        PROVE  x.ids = Range(flight'[j].batch)
    <3>1. CASE x \in Range(worker.inbox)
      <4>1. j # k
        BY <1>5, <1>6, <2>2, <2>4, <3>1
      <4> QED
        BY <1>5, <1>9, <2>4, <3>1, <4>1 DEF BoxInv
    <3>2. CASE x = m
      <4>1. j = k
        BY <1>5, <1>6, <2>1, <2>4, <3>2
      <4> QED
        BY <1>5, <1>6, <3>2, <4>1
    <3>3. Range(Append(worker.inbox, m)) = Range(worker.inbox) \cup {m}
      BY <1>3, <1>7, AppendEntries
    <3> QED
      BY <1>8, <3>1, <3>2, <3>3
  <2>5. ASSUME NEW x \in Range(worker'.outbox), NEW j \in Flushes,
               x.type = "ack", x.bid = flight'[j].bid, flight'[j].st = "wait",
               NEW i \in Range(flight'[j].batch)
        PROVE  Effected(i)'
    <3>1. j # k
      BY <1>5, <1>6, <1>8, <2>2, <2>5
    <3> QED
      BY <1>5, <1>8, <1>9, <2>3, <2>5, <3>1 DEF BoxInv
  <2>6. ASSUME NEW j \in Flushes, flight'[j].st = "ok", NEW i \in Range(flight'[j].batch)
        PROVE  Effected(i)'
    <3>1. j # k
      BY <1>5, <1>6, <2>6
    <3> QED
      BY <1>5, <1>9, <2>3, <2>6, <3>1 DEF BoxInv
  <2> QED
    BY <2>4, <2>5, <2>6 DEF BoxInv
<1> QED
  BY <1>1, <1>5, <1>6, <1>8, <1>9

\* A batch is written by the database itself.
LEMMA WriteEffect ==
  ASSUME Fields, CapturesTypeOK, NEW k \in Flushes, NEW q \in Seq(Ids), Write(k, q)
  PROVE  /\ flight' \in [Flushes -> Flight] /\ worker' = worker
         /\ \A j \in Flushes \ {k} : flight'[j] = flight[j]
         /\ flight'[k].batch = q /\ flight'[k].st \in {"ok", "fail"}
         /\ CapturesTypeOK' /\ (BilledOnce => BilledOnce')
         /\ UNCHANGED <<lastId, rows>>
         /\ \A i \in Ids : Effected(i) => Effected(i)'
         /\ \A i \in Ids : state'[i] \in InFlightStates => state'[i] = state[i]
         /\ BoxInv => BoxInv'
<1>1. PICK st \in {"ok", "fail"} :
        /\ InFlight(k, q, st, 0)
        /\ \/ UpdateAndAccount(Range(q))
           \/ st = "fail" /\ UNCHANGED captureVars
  BY DEF Write
<1>2. worker' = worker
  BY DEF Write
<1> DEFINE f == [batch |-> q, st |-> st, bid |-> 0]
<1>3. f \in Flight /\ f.batch = q /\ f.st = st /\ Range(q) \in SUBSET Ids
  BY WriteBehindAssumption, Positions DEF Flight
<1>4. flight' = [flight EXCEPT ![k] = f]
  BY <1>1 DEF InFlight
<1> HIDE DEF f
<1>5. flight' \in [Flushes -> Flight] /\ flight'[k] = f
      /\ \A j \in Flushes \ {k} : flight'[j] = flight[j]
  BY <1>3, <1>4 DEF Fields
<1>6. /\ CapturesTypeOK' /\ (BilledOnce => BilledOnce') /\ UNCHANGED <<lastId, rows>>
      /\ \A i \in Ids : Effected(i) => Effected(i)'
      /\ \A i \in Ids : state'[i] \in InFlightStates => state'[i] = state[i]
      /\ st = "ok" => \A i \in Range(q) : Effected(i)'
  <2>1. CASE UpdateAndAccount(Range(q))
    <3>1. CapturesTypeOK' /\ (BilledOnce => BilledOnce') /\ UNCHANGED <<lastId, rows>>
      BY <1>3, <2>1, UpdateEffect
    <3>2. \A i \in Ids :
              /\ i \in Range(q) \/ state[i] = "done" => (i \in rows => state'[i] = "done")
              /\ i \in Range(q) \/ i \in accounted => (i \in rows => i \in accounted')
              /\ state'[i] \in InFlightStates => state'[i] = state[i]
      BY <1>3, <2>1, UpdateEffect
    <3> QED
      BY <1>2, <1>3, <3>1, <3>2 DEF Effected
  <2>2. CASE st = "fail" /\ UNCHANGED captureVars
    BY <1>2, <2>2, UnchangedTable DEF Effected
  <2> QED
    BY <1>1, <2>1, <2>2
<1>7. ASSUME BoxInv PROVE BoxInv'
  <2>1. \A j \in Flushes : flight[j].batch \in Seq(Ids) /\ Range(flight[j].batch) \subseteq Ids
    BY Positions DEF Fields, Flight
  <2>2. ASSUME NEW x \in Range(worker'.inbox), NEW j \in Flushes,
               x.type = "batch", x.bid = flight'[j].bid, flight'[j].st = "wait"
        PROVE  x.ids = Range(flight'[j].batch)
    <3>1. j # k
      BY <1>3, <1>5, <2>2
    <3> QED
      BY <1>2, <1>5, <1>7, <2>2, <3>1 DEF BoxInv
  <2>3. ASSUME NEW x \in Range(worker'.outbox), NEW j \in Flushes,
               x.type = "ack", x.bid = flight'[j].bid, flight'[j].st = "wait",
               NEW i \in Range(flight'[j].batch)
        PROVE  Effected(i)'
    <3>1. j # k
      BY <1>3, <1>5, <2>3
    <3>2. Effected(i) /\ i \in Ids
      BY <1>2, <1>5, <1>7, <2>1, <2>3, <3>1 DEF BoxInv
    <3> QED
      BY <1>6, <3>2
  <2>4. ASSUME NEW j \in Flushes, flight'[j].st = "ok", NEW i \in Range(flight'[j].batch)
        PROVE  Effected(i)'
    <3>1. CASE j = k
      BY <1>3, <1>5, <1>6, <2>4, <3>1
    <3>2. CASE j # k
      <4>1. Effected(i) /\ i \in Ids
        BY <1>5, <1>7, <2>1, <2>4, <3>2 DEF BoxInv
      <4> QED
        BY <1>6, <4>1
    <3> QED
      BY <3>1, <3>2
  <2> QED
    BY <2>2, <2>3, <2>4 DEF BoxInv
<1> QED
  BY <1>1, <1>2, <1>3, <1>5, <1>6, <1>7

\* flushNow() takes the queue q as its batch; what took effect stays in effect.
LEMMA FlushEffect ==
  ASSUME Fields, CapturesTypeOK, NEW k \in Flushes, NEW q \in Seq(Ids), FlushNow(k, q)
  PROVE  /\ queue' = <<>> /\ flushTimer' = FALSE
         /\ flight' \in [Flushes -> Flight] /\ worker' \in Worker
         /\ UNCHANGED <<worker.unwritten, worker.conn, lastId, rows>>
         /\ ~UseWorker => worker' = worker
         /\ \A j \in Flushes \ {k} : flight'[j] = flight[j]
         /\ q = <<>> => flight' = flight
         /\ q # <<>> => flight'[k].batch = q /\ flight'[k].st # "idle"
         /\ CapturesTypeOK' /\ (BilledOnce => BilledOnce')
         /\ \A i \in Ids : Effected(i) => Effected(i)'
         /\ \A i \in Ids : state'[i] \in InFlightStates => state'[i] = state[i]
         /\ BoxInv => BoxInv'
<1>1. queue' = <<>> /\ flushTimer' = FALSE
  BY Zenon DEF FlushNow
<1>2. CASE q = <<>>
  <2>1. UNCHANGED <<captureVars, flight, worker>>
    BY <1>2, Zenon DEF FlushNow
  <2>2. /\ CapturesTypeOK' /\ (BilledOnce => BilledOnce')
        /\ UNCHANGED <<lastId, rows, state, accounted>>
    BY <2>1, UnchangedTable
  <2>3. \A i : Effected(i)' <=> Effected(i)
    BY <2>1, <2>2 DEF Effected
  <2>4. BoxInv => BoxInv'
    BY <2>1, <2>3 DEF BoxInv
  <2> QED
    BY <1>1, <1>2, <2>1, <2>2, <2>3, <2>4 DEF Fields
<1>3. CASE q # <<>> /\ UseWorker
  <2>1. Post(k, q)
    BY <1>3, Zenon DEF FlushNow
  <2>2. UNCHANGED captureVars /\ UNCHANGED <<worker.unwritten, worker.conn>>
    BY <2>1, PostEffect
  <2>3. /\ CapturesTypeOK' /\ (BilledOnce => BilledOnce')
        /\ UNCHANGED <<lastId, rows, state, accounted>>
    BY <2>2, UnchangedTable
  <2>4. \A i : Effected(i)' <=> Effected(i)
    BY <2>2, <2>3 DEF Effected
  <2> QED
    BY <1>1, <1>3, <2>1, <2>2, <2>3, <2>4, PostEffect
<1>4. CASE q # <<>> /\ ~UseWorker
  <2>1. Write(k, q)
    BY <1>4, Zenon DEF FlushNow
  <2> QED
    BY <1>1, <1>4, <2>1, WriteEffect DEF Fields
<1> QED
  BY <1>2, <1>3, <1>4

\* The code after the await: the flush is over, or goes on with the queue q.
LEMMA ContinueEffect ==
  ASSUME Fields, CapturesTypeOK, NEW k \in Flushes, NEW q \in Seq(Ids), NEW throws,
         Continue(k, q, throws)
  PROVE  /\ \/ queue' = q /\ flight'[k] = Idle /\ flushTimer' = flushTimer
               /\ ~GoesOn(k, q, throws)
            \/ /\ queue' = <<>> /\ flight'[k].batch = q /\ flight'[k].st # "idle"
               /\ flushTimer' = FALSE /\ GoesOn(k, q, throws)
         /\ queue' \in Seq(Ids) /\ flight' \in [Flushes -> Flight] /\ worker' \in Worker
         /\ UNCHANGED <<worker.unwritten, worker.conn, lastId, rows, armed, tries>>
         /\ ~UseWorker => worker' = worker
         /\ \A j \in Flushes \ {k} : flight'[j] = flight[j]
         /\ CapturesTypeOK' /\ (BilledOnce => BilledOnce')
         /\ \A i \in Ids : Effected(i) => Effected(i)'
         /\ \A i \in Ids : state'[i] \in InFlightStates => state'[i] = state[i]
         /\ BoxInv => BoxInv'
<1>1. UNCHANGED <<armed, tries>>
  BY Zenon DEF Continue
<1>2. CASE GoesOn(k, q, throws)
  <2>1. FlushNow(k, q) /\ q # <<>>
    BY <1>2, Zenon DEF Continue, GoesOn
  <2> QED
    BY <1>1, <1>2, <2>1, FlushEffect, EmptyEntries
<1>3. CASE ~GoesOn(k, q, throws)
  <2>1. /\ queue' = q /\ flight' = [flight EXCEPT ![k] = Idle]
        /\ UNCHANGED <<captureVars, flushTimer, worker>>
    BY <1>3, Zenon DEF Continue
  <2>2. Idle \in Flight /\ Idle.st = "idle" /\ Idle.batch = <<>>
    BY WriteBehindAssumption DEF Idle, Flight
  <2>3. flight' \in [Flushes -> Flight] /\ flight'[k] = Idle
        /\ \A j \in Flushes \ {k} : flight'[j] = flight[j]
    BY <2>1, <2>2 DEF Fields
  <2>4. /\ CapturesTypeOK' /\ (BilledOnce => BilledOnce')
        /\ UNCHANGED <<lastId, rows, state, accounted>>
    BY <2>1, UnchangedTable
  <2>5. \A i : Effected(i)' <=> Effected(i)
    BY <2>1, <2>4 DEF Effected
  <2>6. BoxInv => BoxInv'
    <3>1. \A j \in Flushes : flight'[j].st # "idle" => flight'[j] = flight[j]
      BY <2>2, <2>3
    <3> QED
      BY <2>1, <2>5, <3>1 DEF BoxInv
  <2> QED
    BY <1>1, <1>3, <2>1, <2>3, <2>4, <2>5, <2>6 DEF Fields
<1> QED
  BY <1>2, <1>3

(***************************************************************************)
(* Who has which update.                                                   *)
(***************************************************************************)
\* The queue, or the new batch of flight k, is q; the other flight stays.
LEMMA Repartition ==
  ASSUME NEW k \in Flushes, NEW o \in Flushes, o # k,
         NEW q \in Seq(Ids), IsInjective(q), IsInjective(flight[o].batch),
         Range(q) \cap Range(flight[o].batch) = {},
         flight'[o] = flight[o],
         \/ queue' = q /\ flight'[k].batch = <<>>
         \/ queue' = <<>> /\ flight'[k].batch = q,
         {i \in Ids : fate'[i] = "queued"} = Range(q) \cup Range(flight[o].batch)
  PROVE  PartsInv'
<1>1. Range(<<>>) = {} /\ IsInjective(<<>>)
  BY EmptyEntries
<1>2. Flushes = {"guarded", "shutdown"}
  BY DEF Flushes
<1>3. IsInjective(queue') /\ \A j \in Flushes : IsInjective(flight'[j].batch)
  BY <1>1, <1>2
<1>4. \A j \in Flushes : Range(queue') \cap Range(flight'[j].batch) = {}
  BY <1>1, <1>2
<1>5. Range(flight'["guarded"].batch) \cap Range(flight'["shutdown"].batch) = {}
  BY <1>1, <1>2
<1>6. {i \in Ids : fate'[i] = "queued"} =
       Range(queue') \cup Range(flight'["guarded"].batch) \cup Range(flight'["shutdown"].batch)
  BY <1>1, <1>2
<1> QED
  BY <1>3, <1>4, <1>5, <1>6 DEF PartsInv

\* What a flight holds was queued, and is of no other flight and not in the queue.
LEMMA PartsFacts ==
  ASSUME Fields, PartsInv, NEW k \in Flushes, NEW o \in Flushes, o # k
  PROVE  /\ flight[k].batch \in Seq(Ids) /\ queue \in Seq(Ids)
         /\ IsInjective(queue) /\ IsInjective(flight[k].batch)
         /\ Range(queue) \cap Range(flight[k].batch) = {}
         /\ Range(flight[k].batch) \cap Range(flight[o].batch) = {}
         /\ Range(queue) \subseteq Ids /\ Range(flight[k].batch) \subseteq Ids
         /\ {i \in Ids : fate[i] = "queued"} =
              Range(queue) \cup Range(flight[k].batch) \cup Range(flight[o].batch)
<1>1. flight[k].batch \in Seq(Ids) /\ queue \in Seq(Ids)
  BY DEF Fields, Flight
<1> QED
  BY <1>1, Positions DEF PartsInv, Flushes

(***************************************************************************)
(* One lemma per action.                                                   *)
(***************************************************************************)
\* Answers and batches are as they were, and so are the rows they are about.
LEMMA BoxKept ==
  ASSUME Fields, PartsInv, BoxInv, UNCHANGED <<flight, worker.inbox, worker.outbox>>,
         \A i \in Ids : fate[i] = "queued" /\ i \notin Range(queue) /\ Effected(i) => Effected(i)'
  PROVE  BoxInv'
<1>1. ASSUME NEW k \in Flushes, NEW i \in Range(flight[k].batch), Effected(i)
      PROVE  Effected(i)'
  <2>1. PICK o \in Flushes : o # k
    BY DEF Flushes
  <2>2. i \in Ids /\ fate[i] = "queued" /\ i \notin Range(queue)
    BY <2>1, PartsFacts
  <2> QED
    BY <1>1, <2>2
<1> QED
  BY <1>1 DEF BoxInv

\* Ids that were never given out stay so.
LEMMA FreshKept ==
  ASSUME FreshInv, lastId' = lastId, \A i \in Ids : fate[i] = "none" => fate'[i] = "none"
  PROVE  FreshInv'
  BY DEF FreshInv

\* insertEarlyCapture()
LEMMA RequestStartsStep == WBInv /\ RequestStarts => WBInv'
<1> SUFFICES ASSUME WBInv, RequestStarts PROVE WBInv'
  OBVIOUS
<1>1. /\ StartCapture /\ fate' = [fate EXCEPT ![NextId] = "open"]
      /\ UNCHANGED <<queue, flushTimer, armed, retryTimer, retryCount, flight, chained, worker,
                     phase, tries>>
  BY DEF RequestStarts, timerVars, flushVars, shutdownVars
<1>2. /\ CapturesTypeOK' /\ BilledOnce'
      /\ NextId \in Ids /\ lastId' = NextId /\ NextId = lastId + 1
      /\ rows' \subseteq rows \cup {NextId}
      /\ accounted' = accounted /\ state' = [state EXCEPT ![NextId] = "enqueued"]
  BY <1>1, StartEffect DEF WBInv
<1>3. fate[NextId] = "none" /\ lastId \in Nat
  BY <1>2, CapturesAssumption DEF WBInv, FreshInv, CapturesTypeOK
<1>4. Flags' /\ ArmedInv' /\ ShutdownInv' /\ BrokenInv'
  BY <1>1 DEF WBInv, Flags, ArmedInv, ShutdownInv, BrokenInv
<1>5. Fields'
  BY <1>1, <1>2 DEF WBInv, Fields, Fates
<1>6. \A i \in Ids : i # NextId => fate'[i] = fate[i] /\ state'[i] = state[i]
  BY <1>1, <1>2 DEF WBInv, Fields, CapturesTypeOK
<1>7. fate'[NextId] = "open"
  BY <1>1, <1>2 DEF WBInv, Fields
<1>8. PartsInv'
  <2>1. {i \in Ids : fate'[i] = "queued"} = {i \in Ids : fate[i] = "queued"}
    BY <1>3, <1>6, <1>7
  <2> QED
    BY <1>1, <2>1 DEF WBInv, PartsInv
<1>9. FreshInv'
  BY <1>2, <1>3, <1>6 DEF WBInv, FreshInv, Ids
<1>10. \A i \in Ids : i # NextId /\ Effected(i) => Effected(i)'
  BY <1>1, <1>2, <1>6 DEF Effected
<1>11. BoxInv'
  BY <1>1, <1>3, <1>10, BoxKept DEF WBInv
<1>12. StoredInv'
  BY <1>6, <1>7, <1>10 DEF WBInv, StoredInv
<1>13. StrandInv'
  BY <1>1 DEF WBInv, StrandInv, Busy
<1>14. PhantomInv'
  <2>1. rows' \subseteq Ids
    BY <1>2, RowsAreIds DEF WBInv
  <2> QED
    BY <1>2, <1>6, <1>7, <2>1 DEF WBInv, PhantomInv, NoPhantomRows
<1> QED
  BY <1>2, <1>4, <1>5, <1>8, <1>9, <1>11, <1>12, <1>13, <1>14 DEF WBInv

\* onAcquire
LEMMA RequestStreamsStep == WBInv /\ (\E i \in Ids : RequestStreams(i)) => WBInv'
<1> SUFFICES ASSUME WBInv, NEW i \in Ids, RequestStreams(i) PROVE WBInv'
  OBVIOUS
<1>1. /\ fate[i] = "open" /\ state' = StateSet(i, "streaming")
      /\ UNCHANGED <<queue, flushTimer, armed, retryTimer, retryCount, flight, chained, worker,
                     phase, tries, fate, idVars, rows, usageVars, rowCount>>
  BY DEF RequestStreams, SetState, timerVars, flushVars, shutdownVars
<1>2. state' \in [Ids -> RowStates] /\ \A j \in Ids : j # i => state'[j] = state[j]
  BY <1>1 DEF WBInv, CapturesTypeOK, StateSet, RowStates
<1>3. CapturesTypeOK' /\ BilledOnce'
  BY <1>1, <1>2, StateEffect DEF WBInv
<1>4. Flags' /\ Fields' /\ ArmedInv' /\ ShutdownInv' /\ BrokenInv'
  BY <1>1 DEF WBInv, Flags, Fields, ArmedInv, ShutdownInv, BrokenInv
<1>5. PartsInv' /\ FreshInv'
  BY <1>1 DEF WBInv, PartsInv, FreshInv, idVars
<1>6. \A j \in Ids : j # i /\ Effected(j) => Effected(j)'
  BY <1>1, <1>2 DEF Effected, usageVars
<1>7. BoxInv' /\ StoredInv'
  BY <1>1, <1>6, BoxKept DEF WBInv, StoredInv
<1>8. StrandInv'
  BY <1>1 DEF WBInv, StrandInv, Busy
<1>9. PhantomInv'
  <2>1. rows' \subseteq Ids
    BY <1>1, RowsAreIds DEF WBInv
  <2> QED
    BY <1>1, <1>2, <2>1 DEF WBInv, PhantomInv, NoPhantomRows
<1> QED
  BY <1>3, <1>4, <1>5, <1>7, <1>8, <1>9 DEF WBInv

\* The dashboard's clear.
LEMMA ClearStep == WBInv /\ ClearCaptures => WBInv'
<1> SUFFICES ASSUME WBInv, ClearCaptures PROVE WBInv'
  OBVIOUS
<1>1. /\ Clear
      /\ UNCHANGED <<queue, flushTimer, armed, retryTimer, retryCount, flight, chained, worker,
                     phase, tries, fate>>
  BY DEF ClearCaptures, timerVars, flushVars, shutdownVars
<1>2. /\ CapturesTypeOK' /\ BilledOnce' /\ lastId' = lastId /\ rows' = {}
  BY <1>1, ReopenEffect DEF WBInv, Clear
<1>3. Flags' /\ Fields' /\ ArmedInv' /\ ShutdownInv' /\ BrokenInv'
  BY <1>1 DEF WBInv, Flags, Fields, ArmedInv, ShutdownInv, BrokenInv
<1>4. PartsInv' /\ FreshInv'
  BY <1>1, <1>2 DEF WBInv, PartsInv, FreshInv
<1>5. \A i : Effected(i)'
  BY <1>2 DEF Effected
<1>6. BoxInv' /\ StoredInv'
  BY <1>1, <1>5, BoxKept DEF WBInv, StoredInv
<1>7. StrandInv' /\ PhantomInv'
  BY <1>1, <1>2 DEF WBInv, StrandInv, Busy, PhantomInv, NoPhantomRows
<1> QED
  BY <1>2, <1>3, <1>4, <1>6, <1>7 DEF WBInv

\* Everything but the database is gone.
LEMMA RestartStep == WBInv /\ Restart => WBInv'
<1> SUFFICES ASSUME WBInv, Restart PROVE WBInv'
  OBVIOUS
<1>1. Reopen /\ NoMemory /\ fate' = Fated({i \in Ids : fate[i] \in {"open", "queued"}}, "lost")
  BY DEF Restart
<1>2. /\ CapturesTypeOK' /\ BilledOnce'
      /\ rows' \subseteq rows /\ lastId' = lastId /\ accounted' = accounted
      /\ \A i \in Ids : (state[i] = "done" => state'[i] = "done")
      /\ \A i \in rows' : state'[i] \notin InFlightStates
  BY <1>1, ReopenEffect DEF WBInv
<1>3. /\ queue' = <<>> /\ flushTimer' = FALSE /\ armed' = 0 /\ retryTimer' = FALSE
      /\ retryCount' = 0 /\ flight' = [k \in Flushes |-> Idle] /\ chained' = FALSE
      /\ phase' = "running" /\ tries' = 0
      /\ worker' = [FreshWorker EXCEPT !.unwritten = worker.unwritten]
  BY <1>1, Zenon DEF NoMemory
<1>4. Flags' /\ ArmedInv'
  BY <1>3, Zenon DEF Flags, ArmedInv
<1>5. \A i \in Ids : fate'[i] = IF fate[i] \in {"open", "queued"} THEN "lost" ELSE fate[i]
  BY <1>1 DEF Fated
<1>6. worker' \in Worker /\ worker'.inbox = <<>> /\ worker'.outbox = <<>>
      /\ worker'.conn = "none" /\ worker'.unwritten = worker.unwritten
  <2>1. worker.unwritten \in SUBSET Ids
    BY DEF WBInv, Fields, Worker
  <2>2. worker' = [inbox |-> <<>>, outbox |-> <<>>, conn |-> "none", alive |-> TRUE,
                   unwritten |-> worker.unwritten]
    BY <1>3 DEF FreshWorker
  <2>3. <<>> \in Seq(Message) /\ <<>> \in Seq(Reply) /\ TRUE \in BOOLEAN
    BY EmptyEntries
  <2> QED
    BY <2>1, <2>2, <2>3 DEF Worker
<1>7. Idle \in Flight /\ Idle.st = "idle" /\ Idle.batch = <<>>
  BY WriteBehindAssumption DEF Idle, Flight
<1>8. \A k \in Flushes : flight'[k] = Idle
  BY <1>3
<1>9. Fields'
  <2>1. fate' \in [Ids -> Fates]
    BY <1>1 DEF Fated, Fates, WBInv, Fields
  <2>2. flight' \in [Flushes -> Flight]
    BY <1>3, <1>7
  <2>3. queue' \in Seq(Ids) /\ armed' \in Nat /\ retryCount' \in 0 .. MaxRetries - 1
    BY <1>3, WriteBehindAssumption
  <2>4. phase' \in Phases /\ tries' \in 0 .. 3
    BY <1>3 DEF Phases
  <2> QED
    BY <1>6, <2>1, <2>2, <2>3, <2>4 DEF Fields
<1>10. ShutdownInv'
  BY <1>3, <1>7, <1>8 DEF ShutdownInv, Flushes
<1>11. PartsInv'
  BY <1>3, <1>5, <1>7, <1>8, EmptyEntries DEF PartsInv, Flushes
<1>12. FreshInv'
  BY <1>2, <1>5, FreshKept DEF WBInv
<1>13. \A i \in Ids : Effected(i) => Effected(i)'
  BY <1>2, <1>6 DEF Effected
<1>14. BoxInv' /\ StoredInv'
  BY <1>5, <1>6, <1>7, <1>8, <1>13, EmptyEntries DEF WBInv, BoxInv, StoredInv
<1>15. BrokenInv' /\ StrandInv'
  BY <1>3, <1>6 DEF WBInv, BrokenInv, StrandInv
<1>16. PhantomInv'
  BY <1>2 DEF PhantomInv, NoPhantomRows
<1> QED
  BY <1>2, <1>4, <1>9, <1>10, <1>11, <1>12, <1>14, <1>15, <1>16 DEF WBInv

\* Updates move from the queue and flight k to the queue or flight k.
LEMMA MoveInv ==
  ASSUME WBInv, NEW k \in Flushes, NEW o \in Flushes, o # k,
         NEW q \in Seq(Ids), IsInjective(q), Range(q) \cap Range(flight[o].batch) = {},
         flight'[o] = flight[o],
         \/ queue' = q /\ flight'[k].batch = <<>>
         \/ queue' = <<>> /\ flight'[k].batch = q,
         rows' = rows, lastId' = lastId,
         UNCHANGED <<worker.unwritten, worker.conn>>, ~UseWorker => worker' = worker,
         {i \in Ids : fate'[i] = "queued"} = Range(q) \cup Range(flight[o].batch),
         \A i \in Ids : fate[i] = "none" => fate'[i] = "none",
         \A i \in Ids : fate'[i] = "stored" => Effected(i)',
         \A i \in Ids : state'[i] \in InFlightStates => state'[i] = state[i],
         \A i \in rows : /\ MarksDrops /\ state'[i] \in InFlightStates
                         /\ fate[i] \in {"open", "queued", "exhausted"}
                         => fate'[i] \in {"open", "queued", "exhausted"}
  PROVE  PartsInv' /\ FreshInv' /\ StoredInv' /\ BrokenInv' /\ PhantomInv'
<1>1. PartsInv'
  BY PartsFacts, Repartition DEF WBInv
<1>2. FreshInv'
  BY FreshKept DEF WBInv
<1>3. StoredInv'
  BY DEF StoredInv
<1>4. BrokenInv'
  BY DEF WBInv, BrokenInv
<1>5. PhantomInv'
  <2>1. rows \subseteq Ids
    BY RowsAreIds DEF WBInv
  <2> QED
    BY <2>1 DEF WBInv, PhantomInv, NoPhantomRows
<1> QED
  BY <1>1, <1>2, <1>3, <1>4, <1>5

\* clearTimeout() finds the timeout of the handle.
LEMMA ClearTimer == ASSUME WBInv, ClearFlushTimer PROVE armed' \in Nat
<1>1. CASE flushTimer
  <2>1. armed \in Nat /\ armed > 0 /\ armed' = armed - 1
    BY <1>1 DEF ClearFlushTimer, WBInv, Fields, ArmedInv
  <2> QED
    BY <2>1
<1>2. CASE ~flushTimer
  BY <1>2 DEF ClearFlushTimer, WBInv, Fields
<1> QED
  BY <1>1, <1>2

\* A flush of q begins when flight k is idle; fate' is the caller's.
LEMMA FlushInv ==
  ASSUME WBInv, NEW k \in Flushes, NEW o \in Flushes, o # k, flight[k].st = "idle",
         NEW q \in Seq(Ids), IsInjective(q), Range(q) \cap Range(flight[o].batch) = {},
         FlushNow(k, q), fate' \in [Ids -> Fates],
         {i \in Ids : fate'[i] = "queued"} = Range(q) \cup Range(flight[o].batch),
         \A i \in Ids : fate'[i] = fate[i] \/ (fate[i] = "open" /\ fate'[i] = "queued")
  PROVE  /\ CapturesTypeOK' /\ BilledOnce' /\ BoxInv'
         /\ PartsInv' /\ FreshInv' /\ StoredInv' /\ BrokenInv' /\ PhantomInv'
         /\ queue' = <<>> /\ queue' \in Seq(Ids) /\ flushTimer' = FALSE
         /\ flight' \in [Flushes -> Flight] /\ worker' \in Worker
         /\ flight'[o] = flight[o] /\ (flight'[k].st = "idle" <=> q = <<>>)
         /\ flight'[k].st = "idle" => flight'[k].batch = <<>>
<1>1. Fields /\ CapturesTypeOK /\ BoxInv /\ BilledOnce
  BY DEF WBInv
<1>2. /\ queue' = <<>> /\ flushTimer' = FALSE
      /\ flight' \in [Flushes -> Flight] /\ worker' \in Worker
      /\ UNCHANGED <<worker.unwritten, worker.conn, lastId, rows>>
      /\ ~UseWorker => worker' = worker
      /\ \A j \in Flushes \ {k} : flight'[j] = flight[j]
      /\ q = <<>> => flight' = flight
      /\ q # <<>> => flight'[k].batch = q /\ flight'[k].st # "idle"
      /\ CapturesTypeOK' /\ BilledOnce' /\ BoxInv'
      /\ \A i \in Ids : Effected(i) => Effected(i)'
      /\ \A i \in Ids : state'[i] \in InFlightStates => state'[i] = state[i]
  BY <1>1, FlushEffect
<1>3. flight[k].batch = <<>>
  BY DEF WBInv, ShutdownInv
<1>4. flight'[k].batch = q /\ (flight'[k].st = "idle" <=> q = <<>>)
  BY <1>2, <1>3
<1>5. \A i \in Ids : fate'[i] = "stored" => Effected(i)'
  BY <1>2 DEF WBInv, StoredInv
<1>6. rows \subseteq Ids
  BY <1>1, RowsAreIds
<1>7. PartsInv' /\ FreshInv' /\ StoredInv' /\ BrokenInv' /\ PhantomInv'
  BY <1>2, <1>4, <1>5, <1>6, MoveInv
<1> QED
  BY <1>2, <1>4, <1>7, EmptyEntries

\* queueUpdate() of an update that waits for its timeout.
LEMMA QueueAndArmStep == ASSUME WBInv, NEW i \in Ids, QueueAndArm(i) PROVE WBInv'
<1>1. /\ fate[i] = "open" /\ queue' = Append(queue, i) /\ flushTimer' = TRUE
      /\ armed' = armed + 1 /\ fate' = Fated({i}, "queued")
      /\ UNCHANGED <<captureVars, retryTimer, retryCount, flight, chained, worker, phase, tries>>
  BY DEF QueueAndArm, flushVars, shutdownVars
<1>2. CapturesTypeOK' /\ BilledOnce' /\ UNCHANGED <<lastId, rows, state, accounted>>
  BY <1>1, UnchangedTable DEF WBInv
<1>3. \A j \in Ids : fate'[j] = IF j = i THEN "queued" ELSE fate[j]
  BY <1>1 DEF Fated
<1>4. i \notin Range(queue) /\ \A k \in Flushes : i \notin Range(flight[k].batch)
  BY <1>1, PartsFacts DEF WBInv, Flushes
<1>5. queue \in Seq(Ids) /\ IsInjective(queue)
  BY DEF WBInv, Fields, PartsInv
<1>6. /\ queue' \in Seq(Ids) /\ queue' # <<>> /\ Range(queue') = Range(queue) \cup {i}
      /\ IsInjective(queue')
  BY <1>1, <1>4, <1>5, AppendEntries
<1>7. Flags'
  BY <1>1, Zenon DEF WBInv, Flags
<1>8. armed' \in Nat /\ armed' > 0
  BY <1>1 DEF WBInv, Fields
<1>9. Fields'
  <2>1. fate' \in [Ids -> Fates]
    BY <1>1 DEF Fated, Fates, WBInv, Fields
  <2> QED
    BY <1>1, <1>6, <1>8, <2>1 DEF WBInv, Fields
<1>10. ArmedInv' /\ ShutdownInv' /\ BrokenInv'
  BY <1>1, <1>8 DEF WBInv, ArmedInv, ShutdownInv, BrokenInv
<1>11. PartsInv'
  <2>1. {j \in Ids : fate'[j] = "queued"} = {j \in Ids : fate[j] = "queued"} \cup {i}
    BY <1>3
  <2> QED
    BY <1>1, <1>4, <1>6, <2>1 DEF WBInv, PartsInv, Flushes
<1>12. FreshInv'
  BY <1>1, <1>2, <1>3, FreshKept DEF WBInv
<1>13. \A j : Effected(j)' <=> Effected(j)
  BY <1>1, <1>2 DEF Effected
<1>14. BoxInv' /\ StoredInv'
  BY <1>1, <1>3, <1>13 DEF WBInv, BoxInv, StoredInv
<1>15. StrandInv'
  BY <1>8 DEF StrandInv
<1>16. PhantomInv'
  BY <1>2, <1>3, RowsAreIds DEF WBInv, PhantomInv, NoPhantomRows
<1> QED
  BY <1>2, <1>7, <1>9, <1>10, <1>11, <1>12, <1>14, <1>15, <1>16 DEF WBInv

\* queueUpdate() that flushes at once.
LEMMA QueueAndFlushStep == ASSUME WBInv, NEW i \in Ids, QueueAndFlush(i) PROVE WBInv'
<1>1. /\ fate[i] = "open" /\ ~Busy /\ ClearFlushTimer
      /\ FlushNow("guarded", Append(queue, i)) /\ fate' = Fated({i}, "queued")
      /\ UNCHANGED <<retryTimer, retryCount, chained, phase, tries>>
  BY DEF QueueAndFlush, shutdownVars
<1>2. \A j \in Ids : fate'[j] = IF j = i THEN "queued" ELSE fate[j]
  BY <1>1 DEF Fated
<1>3. i \notin Range(queue) /\ \A k \in Flushes : i \notin Range(flight[k].batch)
  BY <1>1, PartsFacts DEF WBInv, Flushes
<1>4. queue \in Seq(Ids) /\ IsInjective(queue)
  BY DEF WBInv, Fields, PartsInv
<1> DEFINE q == Append(queue, i)
<1>5. q \in Seq(Ids) /\ q # <<>> /\ Range(q) = Range(queue) \cup {i} /\ IsInjective(q)
  BY <1>3, <1>4, AppendEntries
<1> HIDE DEF q
<1>6. "guarded" \in Flushes /\ "shutdown" \in Flushes /\ flight["guarded"].st = "idle"
  BY <1>1 DEF Flushes, Busy
<1>7. fate' \in [Ids -> Fates]
  BY <1>1 DEF Fated, Fates, WBInv, Fields
<1>8. Range(flight["guarded"].batch) = {}
  BY <1>6, EmptyEntries DEF WBInv, ShutdownInv
<1>9. {j \in Ids : fate'[j] = "queued"} = Range(q) \cup Range(flight["shutdown"].batch)
  BY <1>2, <1>5, <1>8 DEF WBInv, PartsInv
<1>10. Range(q) \cap Range(flight["shutdown"].batch) = {}
  BY <1>3, <1>5, <1>6 DEF WBInv, PartsInv
<1>11. FlushNow("guarded", q) /\ "guarded" # "shutdown"
       /\ \A j \in Ids : fate'[j] = fate[j] \/ (fate[j] = "open" /\ fate'[j] = "queued")
  BY <1>1, <1>2 DEF q
<1>12. /\ CapturesTypeOK' /\ BilledOnce' /\ BoxInv'
       /\ PartsInv' /\ FreshInv' /\ StoredInv' /\ BrokenInv' /\ PhantomInv'
       /\ queue' = <<>> /\ queue' \in Seq(Ids) /\ flushTimer' = FALSE
       /\ flight' \in [Flushes -> Flight] /\ worker' \in Worker
       /\ flight'["shutdown"] = flight["shutdown"] /\ flight'["guarded"].st # "idle"
  BY <1>5, <1>6, <1>7, <1>9, <1>10, <1>11, FlushInv
<1>13. Flags' /\ ArmedInv'
  BY <1>1, <1>12, Zenon DEF WBInv, Flags, ArmedInv
<1>14. Fields'
  BY <1>1, <1>7, <1>12, ClearTimer DEF WBInv, Fields
<1>15. ShutdownInv' /\ StrandInv'
  BY <1>1, <1>12 DEF WBInv, ShutdownInv, StrandInv, Flushes
<1> QED
  BY <1>12, <1>13, <1>14, <1>15 DEF WBInv

\* queueUpdate() while a flush is under way: the oldest entry is dropped at the cap.
LEMMA QueueAndChainStep == ASSUME WBInv, NEW i \in Ids, QueueAndChain(i) PROVE WBInv'
<1> DEFINE q == Append(queue, i)
           kept == IF Len(q) >= MaxDepth THEN Tail(q) ELSE q
           gone == Range(q) \ Range(kept)
<1>1. /\ fate[i] = "open" /\ Busy /\ ClearFlushTimer /\ flushTimer' = FALSE /\ chained' = TRUE
      /\ queue' = kept
      /\ fate' = [j \in Ids |-> IF j \in gone THEN "dropped"
                                ELSE IF j = i THEN "queued" ELSE fate[j]]
      /\ OnDrop(gone) \/ (TRUE \in OnDropThrows /\ UNCHANGED state)
      /\ UNCHANGED <<idVars, rows, usageVars, rowCount, retryTimer, retryCount, flight, worker,
                     phase, tries>>
  BY DEF QueueAndChain, shutdownVars
<1>2. i \notin Range(queue) /\ \A k \in Flushes : i \notin Range(flight[k].batch)
  BY <1>1, PartsFacts DEF WBInv, Flushes
<1>3. queue \in Seq(Ids) /\ IsInjective(queue)
  BY DEF WBInv, Fields, PartsInv
<1>4. q \in Seq(Ids) /\ q # <<>> /\ Range(q) = Range(queue) \cup {i} /\ IsInjective(q)
  BY <1>2, <1>3, AppendEntries
<1> HIDE DEF q
<1>5. kept \in Seq(Ids) /\ IsInjective(kept) /\ Range(kept) \subseteq Range(q)
  <2>1. CASE Len(q) >= MaxDepth
    BY <1>4, <2>1, TailEntries
  <2>2. CASE ~(Len(q) >= MaxDepth)
    BY <1>4, <2>2
  <2> QED
    BY <2>1, <2>2
<1>6. Range(kept) = Range(q) \ gone /\ gone \subseteq Range(queue) \cup {i} /\ gone \subseteq Ids
  BY <1>4, <1>5, Positions
<1> HIDE DEF kept, gone
<1>7. \A j \in Ids : fate'[j] = IF j \in gone THEN "dropped"
                                ELSE IF j = i THEN "queued" ELSE fate[j]
  BY <1>1
<1>8. CapturesTypeOK' /\ BilledOnce' /\ \A j \in Ids \ gone : state'[j] = state[j]
  <2>1. CASE OnDrop(gone)
    <3>1. state' = [j \in Ids |-> IF j \in gone \cap rows THEN "failed" ELSE state[j]]
      BY <2>1 DEF OnDrop
    <3>2. state' \in [Ids -> RowStates] /\ \A j \in Ids \ gone : state'[j] = state[j]
      BY <3>1 DEF WBInv, CapturesTypeOK, RowStates
    <3> QED
      BY <1>1, <3>2, StateEffect DEF WBInv
  <2>2. CASE UNCHANGED state
    <3>1. state' \in [Ids -> RowStates]
      BY <2>2 DEF WBInv, CapturesTypeOK
    <3> QED
      BY <1>1, <2>2, <3>1, StateEffect DEF WBInv
  <2> QED
    BY <1>1, <2>1, <2>2
<1>9. Flags' /\ ArmedInv'
  BY <1>1, Zenon DEF WBInv, Flags, ArmedInv
<1>10. Fields'
  <2>1. fate' \in [Ids -> Fates]
    BY <1>1 DEF Fates, WBInv, Fields
  <2> QED
    BY <1>1, <1>5, <2>1, ClearTimer DEF WBInv, Fields
<1>11. ShutdownInv' /\ BrokenInv'
  BY <1>1 DEF WBInv, ShutdownInv, BrokenInv
<1>12. PartsInv'
  <2>1. {j \in Ids : fate'[j] = "queued"} = ({j \in Ids : fate[j] = "queued"} \cup {i}) \ gone
    BY <1>7
  <2>2. \A k \in Flushes : gone \cap Range(flight[k].batch) = {}
    BY <1>2, <1>6 DEF WBInv, PartsInv
  <2> QED
    BY <1>1, <1>2, <1>4, <1>5, <1>6, <2>1, <2>2 DEF WBInv, PartsInv, Flushes
<1>13. FreshInv'
  <2>1. \A j \in gone : fate[j] # "none"
    BY <1>1, <1>6 DEF WBInv, PartsInv
  <2> QED
    BY <1>1, <1>7, <2>1, FreshKept DEF WBInv, idVars
<1>14. \A j \in Ids \ gone : Effected(j) => Effected(j)'
  BY <1>1, <1>8 DEF Effected, usageVars
<1>15. BoxInv'
  BY <1>1, <1>6, <1>14, BoxKept DEF WBInv
<1>16. StoredInv'
  BY <1>7, <1>14 DEF WBInv, StoredInv
<1>17. StrandInv'
  BY <1>1 DEF StrandInv, Busy
<1>18. PhantomInv'
  <2> SUFFICES ASSUME MarksDrops, NEW j \in rows, state'[j] \in InFlightStates
               PROVE  fate'[j] \in {"open", "queued", "exhausted"}
    BY <1>1 DEF PhantomInv, NoPhantomRows
  <2>1. j \in Ids
    BY RowsAreIds DEF WBInv
  <2>2. j \notin gone
    <3>1. state' = [m \in Ids |-> IF m \in gone \cap rows THEN "failed" ELSE state[m]]
      BY <1>1 DEF OnDrop, MarksDrops
    <3> QED
      BY <2>1, <3>1 DEF InFlightStates
  <2>3. fate[j] \in {"open", "queued", "exhausted"}
    BY <1>8, <2>1, <2>2 DEF WBInv, PhantomInv, NoPhantomRows
  <2> QED
    BY <1>7, <2>1, <2>2, <2>3
<1> QED
  BY <1>8, <1>9, <1>10, <1>11, <1>12, <1>13, <1>15, <1>16, <1>17, <1>18 DEF WBInv

\* guardedFlush() of a timer: the flush begins, or is chained to the one under way.
LEMMA TimerStep ==
  ASSUME WBInv, armed' \in Nat, retryTimer' \in BOOLEAN,
         \/ /\ Busy /\ chained' = TRUE /\ UNCHANGED <<captureVars, queue, flight, worker>>
            /\ flushTimer' = FALSE \/ (flushTimer' = flushTimer /\ armed' = armed)
         \/ ~Busy /\ FlushNow("guarded", queue) /\ UNCHANGED chained,
         UNCHANGED <<retryCount, phase, tries, fate>>
  PROVE  WBInv'
<1>1. CASE Busy /\ chained' = TRUE /\ UNCHANGED <<captureVars, queue, flight, worker>>
           /\ (flushTimer' = FALSE \/ (flushTimer' = flushTimer /\ armed' = armed))
  <2>1. CapturesTypeOK' /\ BilledOnce' /\ UNCHANGED <<lastId, rows, state, accounted>>
    BY <1>1, UnchangedTable DEF WBInv
  <2>2. Flags' /\ ArmedInv'
    <3>1. CASE flushTimer' = FALSE
      BY <1>1, <3>1, Zenon DEF WBInv, Flags, ArmedInv
    <3>2. CASE flushTimer' = flushTimer /\ armed' = armed
      BY <1>1, <3>2, Zenon DEF WBInv, Flags, ArmedInv
    <3> QED
      BY <1>1, <3>1, <3>2
  <2>3. Fields' /\ ShutdownInv' /\ PartsInv' /\ FreshInv' /\ BrokenInv'
    BY <1>1, <2>1 DEF WBInv, Fields, ShutdownInv, PartsInv, FreshInv, BrokenInv
  <2>4. \A i : Effected(i)' <=> Effected(i)
    BY <1>1, <2>1 DEF Effected
  <2>5. BoxInv' /\ StoredInv'
    BY <1>1, <2>4 DEF WBInv, BoxInv, StoredInv
  <2>6. StrandInv'
    BY <1>1 DEF StrandInv, Busy
  <2>7. PhantomInv'
    BY <2>1 DEF WBInv, PhantomInv, NoPhantomRows
  <2> QED
    BY <2>1, <2>2, <2>3, <2>5, <2>6, <2>7 DEF WBInv
<1>2. CASE ~Busy /\ FlushNow("guarded", queue) /\ UNCHANGED chained
  <2>1. "guarded" \in Flushes /\ "shutdown" \in Flushes /\ flight["guarded"].st = "idle"
        /\ "guarded" # "shutdown"
    BY <1>2 DEF Flushes, Busy
  <2>2. Range(flight["guarded"].batch) = {}
    BY <2>1, EmptyEntries DEF WBInv, ShutdownInv
  <2>3. /\ queue \in Seq(Ids) /\ IsInjective(queue)
        /\ Range(queue) \cap Range(flight["shutdown"].batch) = {} /\ fate' \in [Ids -> Fates]
    BY <2>1 DEF WBInv, Fields, PartsInv
  <2>4. {j \in Ids : fate'[j] = "queued"} = Range(queue) \cup Range(flight["shutdown"].batch)
    BY <2>2 DEF WBInv, PartsInv
  <2>5. \A j \in Ids : fate'[j] = fate[j] \/ (fate[j] = "open" /\ fate'[j] = "queued")
    OBVIOUS
  <2>6. /\ CapturesTypeOK' /\ BilledOnce' /\ BoxInv'
        /\ PartsInv' /\ FreshInv' /\ StoredInv' /\ BrokenInv' /\ PhantomInv'
        /\ queue' = <<>> /\ queue' \in Seq(Ids) /\ flushTimer' = FALSE
        /\ flight' \in [Flushes -> Flight] /\ worker' \in Worker
        /\ flight'["shutdown"] = flight["shutdown"]
        /\ flight'["guarded"].st = "idle" => flight'["guarded"].batch = <<>>
    BY <1>2, <2>1, <2>3, <2>4, <2>5, FlushInv
  <2>7. Flags' /\ ArmedInv'
    BY <1>2, <2>6, Zenon DEF WBInv, Flags, ArmedInv
  <2>8. Fields'
    BY <2>3, <2>6 DEF WBInv, Fields
  <2>9. ShutdownInv' /\ StrandInv'
    BY <2>6 DEF WBInv, ShutdownInv, StrandInv, Flushes
  <2> QED
    BY <2>6, <2>7, <2>8, <2>9 DEF WBInv
<1> QED
  BY <1>1, <1>2

\* The two timers of the queue.
LEMMA TimersStep == WBInv /\ (FlushTimerFires \/ RetryTimerFires) => WBInv'
<1>1. ASSUME WBInv, FlushTimerFires PROVE WBInv'
  <2>1. armed > 0 /\ armed' = armed - 1 /\ GuardedFlush
        /\ UNCHANGED <<retryTimer, retryCount, phase, tries, fate>>
    BY <1>1 DEF FlushTimerFires, shutdownVars
  <2>2. armed' \in Nat /\ retryTimer' \in BOOLEAN
    <3>1. armed' \in Nat
      BY <1>1, <2>1 DEF WBInv, Fields
    <3>2. retryTimer' \in BOOLEAN
      BY <1>1, <2>1, Zenon DEF WBInv, Flags
    <3> QED
      BY <3>1, <3>2
  <2>3. \/ /\ Busy /\ chained' = TRUE /\ UNCHANGED <<captureVars, queue, flight, worker>>
           /\ flushTimer' = FALSE \/ (flushTimer' = flushTimer /\ armed' = armed)
        \/ ~Busy /\ FlushNow("guarded", queue) /\ UNCHANGED chained
    BY <2>1, Zenon DEF GuardedFlush
  <2> QED
    BY <1>1, <2>1, <2>2, <2>3, TimerStep
<1>2. ASSUME WBInv, RetryTimerFires PROVE WBInv'
  <2>1. /\ retryTimer' = FALSE /\ UNCHANGED <<armed, retryCount, phase, tries, fate>>
    BY <1>2 DEF RetryTimerFires, shutdownVars
  <2>2. armed' \in Nat /\ retryTimer' \in BOOLEAN
    <3>1. armed' \in Nat
      BY <1>2, <2>1 DEF WBInv, Fields
    <3>2. retryTimer' \in BOOLEAN
      BY <2>1, Zenon
    <3> QED
      BY <3>1, <3>2
  <2>3. \/ /\ Busy /\ chained' = TRUE /\ UNCHANGED <<captureVars, queue, flight, worker>>
           /\ flushTimer' = FALSE \/ (flushTimer' = flushTimer /\ armed' = armed)
        \/ ~Busy /\ FlushNow("guarded", queue) /\ UNCHANGED chained
    BY <1>2, <2>1, Zenon DEF RetryTimerFires
  <2> QED
    BY <1>2, <2>1, <2>2, <2>3, TimerStep
<1> QED
  BY <1>1, <1>2

\* The continuation of flight k with the queue q, with what the three outcomes share.
LEMMA SettleInv ==
  ASSUME WBInv, NEW k \in Flushes, NEW o \in Flushes, o # k, flight[k].st \in {"ok", "fail"},
         NEW q \in Seq(Ids), IsInjective(q), Range(q) \cap Range(flight[o].batch) = {},
         NEW throws \in BOOLEAN, Continue(k, q, throws), fate' \in [Ids -> Fates],
         retryCount' \in 0 .. MaxRetries - 1, retryTimer' \in BOOLEAN,
         {i \in Ids : fate'[i] = "queued"} = Range(q) \cup Range(flight[o].batch),
         \A i \in Ids : fate[i] = "none" => fate'[i] = "none",
         \A i \in Ids : fate'[i] = "stored" => Effected(i),
         \A i \in rows : /\ MarksDrops /\ state[i] \in InFlightStates
                         /\ fate[i] \in {"open", "queued", "exhausted"}
                         => fate'[i] \in {"open", "queued", "exhausted"},
         TRUE \notin OnFlushThrows => ~throws,
         retryTimer' \/ q = queue \/ q = <<>>
  PROVE  WBInv'
<1>1. Fields /\ CapturesTypeOK /\ BoxInv /\ BilledOnce
  BY DEF WBInv
<1>2. /\ \/ queue' = q /\ flight'[k] = Idle /\ flushTimer' = flushTimer
            /\ ~GoesOn(k, q, throws)
         \/ /\ queue' = <<>> /\ flight'[k].batch = q /\ flight'[k].st # "idle"
            /\ flushTimer' = FALSE /\ GoesOn(k, q, throws)
      /\ queue' \in Seq(Ids) /\ flight' \in [Flushes -> Flight] /\ worker' \in Worker
      /\ UNCHANGED <<worker.unwritten, worker.conn, lastId, rows, armed, tries>>
      /\ ~UseWorker => worker' = worker
      /\ \A j \in Flushes \ {k} : flight'[j] = flight[j]
      /\ CapturesTypeOK' /\ BilledOnce' /\ BoxInv'
      /\ \A i \in Ids : Effected(i) => Effected(i)'
      /\ \A i \in Ids : state'[i] \in InFlightStates => state'[i] = state[i]
  BY <1>1, ContinueEffect
<1>3. Idle.st = "idle" /\ Idle.batch = <<>>
  BY DEF Idle
<1>4. flight'[o] = flight[o]
  BY <1>2
<1>5. \/ queue' = q /\ flight'[k].batch = <<>>
      \/ queue' = <<>> /\ flight'[k].batch = q
  BY <1>2, <1>3
<1>6. \A i \in Ids : fate'[i] = "stored" => Effected(i)'
  BY <1>2
<1>7. rows \subseteq Ids
  BY <1>1, RowsAreIds
<1>8. \A i \in rows : /\ MarksDrops /\ state'[i] \in InFlightStates
                      /\ fate[i] \in {"open", "queued", "exhausted"}
                      => fate'[i] \in {"open", "queued", "exhausted"}
  BY <1>2, <1>7
<1>9. PartsInv' /\ FreshInv' /\ StoredInv' /\ BrokenInv' /\ PhantomInv'
  BY <1>2, <1>4, <1>5, <1>6, <1>8, MoveInv
<1>10. /\ chained' = IF k = "guarded" THEN FALSE ELSE chained
       /\ phase' = IF k = "guarded" THEN phase
                   ELSE IF throws /\ Loops THEN "draining" ELSE "leftover"
  BY Zenon DEF Continue
<1>11. Flags'
  <2>1. flushTimer' \in BOOLEAN
    BY <1>2, Zenon DEF WBInv, Flags
  <2>2. chained' \in BOOLEAN
    BY <1>10, Zenon DEF WBInv, Flags
  <2> QED
    BY <2>1, <2>2, Zenon DEF Flags
<1>12. ArmedInv'
  <2>1. CASE flushTimer' = FALSE
    BY <2>1, Zenon DEF ArmedInv
  <2>2. CASE flushTimer' = flushTimer /\ armed' = armed
    BY <2>2, Zenon DEF ArmedInv, WBInv
  <2> QED
    BY <1>2, <2>1, <2>2
<1>13. Fields'
  <2>1. phase' \in Phases
    BY <1>10 DEF Phases, WBInv, Fields
  <2>2. armed' \in Nat /\ tries' \in 0 .. 3
    BY <1>2 DEF WBInv, Fields
  <2> QED
    BY <1>2, <2>1, <2>2 DEF Fields
<1>14. ShutdownInv'
  <2>1. \A j \in Flushes : flight'[j].st = "idle" => flight'[j].batch = <<>>
    <3>1. flight'[k].st = "idle" => flight'[k].batch = <<>>
      BY <1>2, <1>3
    <3> QED
      BY <1>2, <3>1 DEF WBInv, ShutdownInv
  <2>2. CASE k = "guarded"
    <3>1. o = "shutdown" /\ phase' = phase
      BY <1>10, <2>2 DEF Flushes
    <3> QED
      BY <1>2, <1>4, <2>1, <3>1 DEF WBInv, ShutdownInv
  <2>3. CASE k # "guarded"
    <3>1. k = "shutdown" /\ ~GoesOn(k, q, throws)
      BY <2>3 DEF Flushes, GoesOn
    <3>2. flight'["shutdown"].st = "idle"
      BY <1>2, <1>3, <3>1
    <3>3. phase' \in {"draining", "leftover"} /\ (phase' = "draining" => tries < 3)
      BY <1>10, <2>3 DEF Loops
    <3> QED
      BY <1>2, <2>1, <3>2, <3>3 DEF ShutdownInv
  <2> QED
    BY <2>2, <2>3
<1>15. StrandInv'
  <2> SUFFICES ASSUME TRUE \notin OnFlushThrows, phase' = "running", queue' # <<>>
               PROVE  ~Busy' /\ (armed' > 0 \/ retryTimer')
    BY DEF StrandInv
  <2>1. k = "guarded" /\ phase = "running"
    BY <1>10
  <2>2. queue' = q /\ ~GoesOn(k, q, throws)
    BY <1>2
  <2>3. ~chained
    BY <2>1, <2>2 DEF GoesOn
  <2>4. Busy
    BY <2>1 DEF Busy
  <2>5. ~Busy'
    BY <1>2, <1>3, <2>1 DEF Busy
  <2>6. CASE retryTimer'
    BY <2>5, <2>6
  <2>7. CASE q = queue
    <3>1. armed > 0
      BY <2>1, <2>2, <2>3, <2>4, <2>7 DEF WBInv, StrandInv
    <3> QED
      BY <1>2, <2>5, <3>1
  <2> QED
    BY <2>2, <2>6, <2>7
<1> QED
  BY <1>2, <1>9, <1>11, <1>12, <1>13, <1>14, <1>15 DEF WBInv

\* flushNow() after its await: stored, put back, or given up.
LEMMA SettleStep == ASSUME WBInv, NEW k \in Flushes, Settle(k) PROVE WBInv'
<1>1. PICK o \in Flushes : o # k
  BY DEF Flushes
<1> DEFINE b == flight[k].batch
<1>2. /\ b \in Seq(Ids) /\ queue \in Seq(Ids) /\ IsInjective(queue) /\ IsInjective(b)
      /\ Range(queue) \cap Range(b) = {} /\ Range(b) \cap Range(flight[o].batch) = {}
      /\ Range(queue) \subseteq Ids /\ Range(b) \subseteq Ids
      /\ {i \in Ids : fate[i] = "queued"} =
           Range(queue) \cup Range(b) \cup Range(flight[o].batch)
  BY <1>1, PartsFacts DEF WBInv
<1>3. Range(queue) \cap Range(flight[o].batch) = {}
  BY DEF WBInv, PartsInv
<1>4. rows \subseteq Ids
  BY RowsAreIds DEF WBInv
<1>5. fate \in [Ids -> Fates] /\ retryCount \in 0 .. MaxRetries - 1
  BY DEF WBInv, Fields
<1>6. \A i \in Ids : fate[i] = "stored" => Effected(i)
  BY DEF WBInv, StoredInv
<1>7. CASE SettleOk(k)
  <2>1. PICK throws \in OnFlushThrows : Continue(k, queue, throws)
    BY <1>7 DEF SettleOk
  <2>2. /\ flight[k].st = "ok" /\ fate' = Fated(Range(b), "stored")
        /\ retryTimer' = FALSE /\ retryCount' = 0
    BY <1>7 DEF SettleOk
  <2> HIDE DEF b
  <2>3. throws \in BOOLEAN /\ (TRUE \notin OnFlushThrows => ~throws)
    BY <2>1, WriteBehindAssumption
  <2>4. fate' = [i \in Ids |-> IF i \in Range(b) THEN "stored" ELSE fate[i]]
    BY <2>2 DEF Fated
  <2>5. fate' \in [Ids -> Fates] /\ retryCount' \in 0 .. MaxRetries - 1
    BY <1>5, <2>2, <2>4, WriteBehindAssumption DEF Fates
  <2>6. {i \in Ids : fate'[i] = "queued"} = Range(queue) \cup Range(flight[o].batch)
    BY <1>2, <2>4
  <2>7. \A i \in Range(b) : Effected(i) /\ fate[i] = "queued"
    <3>1. \A i \in Range(b) : Effected(i)
      BY <2>2 DEF WBInv, BoxInv, b
    <3> QED
      BY <1>2, <3>1
  <2>8. \A i \in Ids : fate'[i] = "stored" => Effected(i)
    BY <1>6, <2>4, <2>7
  <2>9. \A i \in Ids : fate[i] = "none" => fate'[i] = "none"
    BY <2>4, <2>7
  <2>10. ASSUME NEW i \in rows, MarksDrops, state[i] \in InFlightStates,
                fate[i] \in {"open", "queued", "exhausted"}
         PROVE  fate'[i] \in {"open", "queued", "exhausted"}
    <3>1. worker.unwritten = {}
      BY <2>10 DEF MarksDrops, WBInv, BrokenInv
    <3>2. ~Effected(i)
      BY <2>10, <3>1 DEF Effected, InFlightStates
    <3> QED
      BY <1>4, <2>4, <2>7, <2>10, <3>2
  <2>11. retryTimer' \in BOOLEAN
    BY <2>2
  <2>12. \A i \in rows : /\ MarksDrops /\ state[i] \in InFlightStates
                        /\ fate[i] \in {"open", "queued", "exhausted"}
                        => fate'[i] \in {"open", "queued", "exhausted"}
    BY <2>10
  <2>13. flight[k].st \in {"ok", "fail"} /\ (retryTimer' \/ queue = queue \/ queue = <<>>)
    BY <2>2
  <2>14. CASE throws = TRUE
    <3>1. Continue(k, queue, TRUE) /\ TRUE \in BOOLEAN /\ (TRUE \notin OnFlushThrows => ~TRUE)
      BY <2>1, <2>14
    <3> QED
      BY <1>1, <1>2, <1>3, <2>5, <2>6, <2>8, <2>9, <2>11, <2>12, <2>13, <3>1, SettleInv
  <2>15. CASE throws = FALSE
    <3>1. Continue(k, queue, FALSE) /\ FALSE \in BOOLEAN /\ (TRUE \notin OnFlushThrows => ~FALSE)
      BY <2>1, <2>15
    <3> QED
      BY <1>1, <1>2, <1>3, <2>5, <2>6, <2>8, <2>9, <2>11, <2>12, <2>13, <3>1, SettleInv
  <2> QED
    BY <2>3, <2>14, <2>15
<1>8. CASE SettleFail(k) \/ SettleExhausted(k)
  <2> DEFINE r == b \o queue
  <2>1. r \in Seq(Ids) /\ Range(r) = Range(b) \cup Range(queue) /\ IsInjective(r)
    BY <1>2, ConcatEntries
  <2>2. CASE SettleFail(k)
    <3>1. /\ flight[k].st = "fail" /\ retryCount' = retryCount + 1 /\ retryCount + 1 < MaxRetries
          /\ retryTimer' = TRUE /\ fate' = fate /\ Continue(k, r, FALSE)
      BY <2>2 DEF SettleFail, Failures, Requeued
    <3> HIDE DEF b, r
    <3>2. retryCount' \in 0 .. MaxRetries - 1
      BY <1>5, <3>1, WriteBehindAssumption
    <3>3. {i \in Ids : fate'[i] = "queued"} = Range(r) \cup Range(flight[o].batch)
      BY <1>2, <2>1, <3>1
    <3>4. Range(r) \cap Range(flight[o].batch) = {}
      BY <1>2, <1>3, <2>1
    <3>5. FALSE \in BOOLEAN /\ retryTimer' \in BOOLEAN /\ retryTimer'
      BY <3>1
    <3> QED
      BY <1>1, <1>5, <1>6, <2>1, <3>1, <3>2, <3>3, <3>4, <3>5, SettleInv
  <2>3. CASE SettleExhausted(k)
    <3>1. /\ flight[k].st = "fail" /\ retryCount' = 0 /\ retryTimer' = FALSE
          /\ fate' = Fated(Range(r), "exhausted") /\ Continue(k, <<>>, FALSE)
      BY <2>3 DEF SettleExhausted, Requeued
    <3> HIDE DEF b, r
    <3>2. fate' = [i \in Ids |-> IF i \in Range(r) THEN "exhausted" ELSE fate[i]]
      BY <3>1 DEF Fated
    <3>3. fate' \in [Ids -> Fates] /\ retryCount' \in 0 .. MaxRetries - 1
      BY <1>5, <3>1, <3>2, WriteBehindAssumption DEF Fates
    <3>4. {i \in Ids : fate'[i] = "queued"} = Range(<<>>) \cup Range(flight[o].batch)
      BY <1>2, <1>3, <2>1, <3>2, EmptyEntries
    <3>5. <<>> \in Seq(Ids) /\ IsInjective(<<>>) /\ Range(<<>>) \cap Range(flight[o].batch) = {}
      BY EmptyEntries
    <3>6. /\ \A i \in Ids : fate[i] = "none" => fate'[i] = "none"
          /\ \A i \in Ids : fate'[i] = "stored" => Effected(i)
          /\ \A i \in rows : /\ MarksDrops /\ state[i] \in InFlightStates
                             /\ fate[i] \in {"open", "queued", "exhausted"}
                             => fate'[i] \in {"open", "queued", "exhausted"}
      BY <1>2, <1>4, <1>6, <2>1, <3>2
    <3>7. FALSE \in BOOLEAN /\ retryTimer' \in BOOLEAN
      BY <3>1
    <3> QED
      BY <1>1, <3>1, <3>3, <3>4, <3>5, <3>6, <3>7, SettleInv
  <2> QED
    BY <1>8, <2>2, <2>3
<1> QED
  BY <1>7, <1>8 DEF Settle


(***************************************************************************)
(* The worker's answers.                                                   *)
(***************************************************************************)
\* What an answer or its absence may change: only flights that wait are
\* settled, and keep their batch and id.
LEMMA AnswerInv ==
  ASSUME WBInv, UNCHANGED <<captureVars, queue, flushTimer, armed, retryTimer, retryCount,
                            chained, phase, tries, fate, worker.unwritten, worker.conn,
                            worker.inbox>>,
         flight' \in [Flushes -> Flight], worker' \in Worker,
         \A k \in Flushes : /\ flight'[k].batch = flight[k].batch
                            /\ flight'[k].bid = flight[k].bid
                            /\ \/ flight'[k].st = flight[k].st
                               \/ flight[k].st = "wait" /\ flight'[k].st \in {"ok", "fail"},
         Range(worker'.outbox) \subseteq Range(worker.outbox),
         \A k \in Flushes : flight[k].st = "wait" /\ flight'[k].st = "ok" =>
                              \A i \in Range(flight[k].batch) : Effected(i)
  PROVE  WBInv'
<1>1. CapturesTypeOK' /\ BilledOnce' /\ UNCHANGED <<lastId, rows, state, accounted>>
  BY UnchangedTable DEF WBInv
<1>2. Flags' /\ ArmedInv'
  BY Zenon DEF WBInv, Flags, ArmedInv
<1>3. Fields'
  BY DEF WBInv, Fields
<1>4. ShutdownInv'
  BY DEF WBInv, ShutdownInv, Flushes
<1>5. PartsInv' /\ FreshInv'
  BY <1>1 DEF WBInv, PartsInv, FreshInv, Flushes
<1>6. \A i : Effected(i)' <=> Effected(i)
  BY <1>1 DEF Effected
<1>7. BoxInv'
  <2>1. ASSUME NEW m \in Range(worker'.inbox), NEW k \in Flushes, m.type = "batch",
               m.bid = flight'[k].bid, flight'[k].st = "wait"
        PROVE  m.ids = Range(flight'[k].batch)
    BY <2>1 DEF WBInv, BoxInv
  <2>2. ASSUME NEW m \in Range(worker'.outbox), NEW k \in Flushes, m.type = "ack",
               m.bid = flight'[k].bid, flight'[k].st = "wait",
               NEW i \in Range(flight'[k].batch)
        PROVE  Effected(i)'
    BY <1>6, <2>2 DEF WBInv, BoxInv
  <2>3. ASSUME NEW k \in Flushes, flight'[k].st = "ok", NEW i \in Range(flight'[k].batch)
        PROVE  Effected(i)'
    BY <1>6, <2>3 DEF WBInv, BoxInv
  <2> QED
    BY <2>1, <2>2, <2>3 DEF BoxInv
<1>8. StoredInv'
  BY <1>6 DEF WBInv, StoredInv
<1>9. BrokenInv' /\ StrandInv'
  <2>1. Busy' <=> Busy
    BY DEF Busy, Flushes
  <2> QED
    BY <2>1 DEF WBInv, BrokenInv, StrandInv
<1>10. PhantomInv'
  BY <1>1 DEF WBInv, PhantomInv, NoPhantomRows
<1> QED
  BY <1>1, <1>2, <1>3, <1>4, <1>5, <1>7, <1>8, <1>9, <1>10 DEF WBInv

\* The deadline of a batch passes.
LEMMA AckTimeoutStep == ASSUME WBInv, NEW k \in Flushes, AckTimeout(k) PROVE WBInv'
<1>1. /\ flight[k].st = "wait" /\ flight' = [flight EXCEPT ![k].st = "fail"]
      /\ UNCHANGED <<captureVars, queue, flushTimer, armed, retryTimer, retryCount,
                     chained, phase, tries, fate, worker>>
  BY DEF AckTimeout, timerVars, shutdownVars
<1>2. flight \in [Flushes -> Flight] /\ worker \in Worker
  BY DEF WBInv, Fields
<1>3. flight' \in [Flushes -> Flight] /\ worker' \in Worker
  BY <1>1, <1>2 DEF Flight
<1>4. \A j \in Flushes : /\ flight'[j].batch = flight[j].batch
                         /\ flight'[j].bid = flight[j].bid
                         /\ \/ flight'[j].st = flight[j].st
                            \/ flight[j].st = "wait" /\ flight'[j].st \in {"ok", "fail"}
  BY <1>1, <1>2 DEF Flight
<1>5. \A j \in Flushes : flight[j].st = "wait" /\ flight'[j].st = "ok" =>
                           \A i \in Range(flight[j].batch) : Effected(i)
  BY <1>1, <1>2 DEF Flight
<1>6. Range(worker'.outbox) \subseteq Range(worker.outbox)
  BY <1>1
<1> QED
  BY <1>1, <1>3, <1>4, <1>5, <1>6, AnswerInv

\* onmessage and onerror: the answer settles the flight with its batch id.
LEMMA DeliverStep == WBInv /\ Deliver => WBInv'
<1> SUFFICES ASSUME WBInv, Deliver PROVE WBInv'
  OBVIOUS
<1> DEFINE m == Head(worker.outbox)
<1>1. /\ worker.outbox # <<>>
      /\ flight' = [k \in Flushes |->
           IF Settles(m, flight[k])
           THEN [flight[k] EXCEPT !.st = IF m.type = "ack" THEN "ok" ELSE "fail"]
           ELSE flight[k]]
      /\ worker' = [worker EXCEPT !.outbox = Tail(@)]
      /\ UNCHANGED <<captureVars, queue, flushTimer, armed, retryTimer, retryCount,
                     chained, phase, tries, fate>>
  BY DEF Deliver, timerVars, shutdownVars
<1>2. flight \in [Flushes -> Flight] /\ worker \in Worker
  BY DEF WBInv, Fields
<1>3. /\ Tail(worker.outbox) \in Seq(Reply) /\ m \in Range(worker.outbox) /\ m \in Reply
      /\ Range(Tail(worker.outbox)) \subseteq Range(worker.outbox)
  <2>1. worker.outbox \in Seq(Reply)
    BY <1>2 DEF Worker
  <2> QED
    BY <1>1, <2>1, ReadEntries
<1> HIDE DEF m
<1>4. worker' \in Worker /\ UNCHANGED <<worker.unwritten, worker.conn, worker.inbox>>
      /\ worker'.outbox = Tail(worker.outbox)
  BY <1>1, <1>2, <1>3 DEF Worker
<1>5. \A k \in Flushes : /\ flight'[k].batch = flight[k].batch
                         /\ flight'[k].bid = flight[k].bid
                         /\ \/ flight'[k].st = flight[k].st
                            \/ flight[k].st = "wait" /\ flight'[k].st \in {"ok", "fail"}
  BY <1>1, <1>2 DEF Flight, Settles
<1>6. flight' \in [Flushes -> Flight]
  BY <1>1, <1>2 DEF Flight, Settles
<1>7. ASSUME NEW k \in Flushes, flight[k].st = "wait", flight'[k].st = "ok"
      PROVE  \A i \in Range(flight[k].batch) : Effected(i)
  <2>1. m.type = "ack" /\ m.bid = flight[k].bid
    BY <1>1, <1>2, <1>7 DEF Settles, Flight
  <2> QED
    BY <1>3, <1>7, <2>1 DEF WBInv, BoxInv
<1>8. Range(worker'.outbox) \subseteq Range(worker.outbox)
  BY <1>3, <1>4
<1> QED
  BY <1>1, <1>4, <1>5, <1>6, <1>7, <1>8, AnswerInv

(***************************************************************************)
(* The worker's steps.                                                     *)
(***************************************************************************)
\* The worker reads a message and may answer r; an acknowledgement means that
\* the batch it names is in effect.
LEMMA WorkerInv ==
  ASSUME WBInv, UNCHANGED <<queue, flushTimer, armed, retryTimer, retryCount, flight,
                            chained, phase, tries, fate>>,
         worker' \in Worker, CapturesTypeOK', BilledOnce', lastId' = lastId, rows' = rows,
         \A i \in Ids : Effected(i) => Effected(i)',
         \A i \in Ids : state'[i] \in InFlightStates => state'[i] = state[i],
         Range(worker'.inbox) \subseteq Range(worker.inbox), BrokenInv',
         NEW r, Range(worker'.outbox) \subseteq Range(worker.outbox) \cup {r},
         r.type = "ack" =>
           \A k \in Flushes : r.bid = flight[k].bid /\ flight[k].st = "wait" =>
                                \A i \in Range(flight[k].batch) : Effected(i)'
  PROVE  WBInv'
<1>1. Flags' /\ ArmedInv'
  BY Zenon DEF WBInv, Flags, ArmedInv
<1>2. Fields' /\ ShutdownInv' /\ PartsInv' /\ FreshInv' /\ StrandInv'
  BY DEF WBInv, Fields, ShutdownInv, PartsInv, FreshInv, StrandInv, Busy
<1>3. \A k \in Flushes : Range(flight[k].batch) \subseteq Ids
  BY Positions DEF WBInv, Fields, Flight
<1>4. BoxInv'
  <2>1. ASSUME NEW m \in Range(worker'.inbox), NEW k \in Flushes, m.type = "batch",
               m.bid = flight'[k].bid, flight'[k].st = "wait"
        PROVE  m.ids = Range(flight'[k].batch)
    BY <2>1 DEF WBInv, BoxInv
  <2>2. ASSUME NEW m \in Range(worker'.outbox), NEW k \in Flushes, m.type = "ack",
               m.bid = flight'[k].bid, flight'[k].st = "wait",
               NEW i \in Range(flight'[k].batch)
        PROVE  Effected(i)'
    <3>1. CASE m \in Range(worker.outbox)
      BY <1>3, <2>2, <3>1 DEF WBInv, BoxInv
    <3>2. CASE m = r
      BY <2>2, <3>2
    <3> QED
      BY <2>2, <3>1, <3>2
  <2>3. ASSUME NEW k \in Flushes, flight'[k].st = "ok", NEW i \in Range(flight'[k].batch)
        PROVE  Effected(i)'
    BY <1>3, <2>3 DEF WBInv, BoxInv
  <2> QED
    BY <2>1, <2>2, <2>3 DEF BoxInv
<1>5. StoredInv'
  BY DEF WBInv, StoredInv
<1>6. PhantomInv'
  BY RowsAreIds DEF WBInv, PhantomInv, NoPhantomRows
<1> QED
  BY <1>1, <1>2, <1>4, <1>5, <1>6 DEF WBInv

\* An answer at the end of the outbox, for the message at the head of the inbox.
LEMMA AnswerEffect ==
  ASSUME worker \in Worker, worker.inbox # <<>>, NEW r \in Reply,
         NEW conn \in {"none", "open", "broken"}, NEW alive \in BOOLEAN, NEW U \in SUBSET Ids,
         worker' = [worker EXCEPT !.inbox = Tail(@), !.conn = conn, !.alive = alive,
                                  !.outbox = Append(@, r), !.unwritten = U]
  PROVE  /\ worker' \in Worker /\ worker'.conn = conn /\ worker'.unwritten = U
         /\ Range(worker'.inbox) \subseteq Range(worker.inbox)
         /\ Range(worker'.outbox) = Range(worker.outbox) \cup {r}
<1>1. worker.inbox \in Seq(Message) /\ worker.outbox \in Seq(Reply)
  BY DEF Worker
<1>2. Tail(worker.inbox) \in Seq(Message) /\ Range(Tail(worker.inbox)) \subseteq Range(worker.inbox)
  BY <1>1, ReadEntries
<1>3. /\ Append(worker.outbox, r) \in Seq(Reply)
      /\ Range(Append(worker.outbox, r)) = Range(worker.outbox) \cup {r}
  BY <1>1, AppendEntries
<1> QED
  BY <1>2, <1>3 DEF Worker

\* One message read by the write worker.
LEMMA WorkerStepStep == WBInv /\ WorkerStep => WBInv'
<1> SUFFICES ASSUME WBInv, WorkerStep PROVE WBInv'
  OBVIOUS
<1> DEFINE m == Head(worker.inbox)
<1>1. /\ worker.inbox # <<>>
      /\ \/ WorkerCloses \/ WorkerConnectFails
         \/ m.type = "batch" /\ WorkerExecutes(m)
      /\ UNCHANGED <<queue, flushTimer, armed, retryTimer, retryCount, flight, chained,
                     phase, tries, fate>>
  BY DEF WorkerStep, timerVars, shutdownVars
<1>2. worker \in Worker /\ CapturesTypeOK /\ BilledOnce /\ BrokenInv
  BY DEF WBInv, Fields
<1>3. m \in Message /\ m \in Range(worker.inbox) /\ Tail(worker.inbox) \in Seq(Message)
      /\ Range(Tail(worker.inbox)) \subseteq Range(worker.inbox)
  <2>1. worker.inbox \in Seq(Message)
    BY <1>2 DEF Worker
  <2> QED
    BY <1>1, <2>1, ReadEntries
<1> HIDE DEF m
<1>4. UseWorker
  BY <1>1, <1>2 DEF BrokenInv
<1>5. UNCHANGED captureVars =>
        /\ CapturesTypeOK' /\ BilledOnce' /\ lastId' = lastId /\ rows' = rows
        /\ UNCHANGED <<state, accounted>>
  BY <1>2, UnchangedTable
<1>6. CASE WorkerCloses
  <2>1. worker' = [worker EXCEPT !.inbox = Tail(@), !.conn = "none"] /\ UNCHANGED captureVars
    BY <1>6 DEF WorkerCloses
  <2>2. worker' \in Worker /\ worker'.unwritten = worker.unwritten /\ worker'.conn = "none"
        /\ worker'.inbox = Tail(worker.inbox) /\ worker'.outbox = worker.outbox
    BY <1>2, <1>3, <2>1 DEF Worker
  <2>3. BrokenInv'
    BY <1>2, <1>4, <2>2 DEF BrokenInv
  <2>4. \A i \in Ids : Effected(i) => Effected(i)'
    BY <1>5, <2>1, <2>2 DEF Effected
  <2> DEFINE r == [type |-> "error", bid |-> 0]
  <2>5. Range(worker'.outbox) \subseteq Range(worker.outbox) \cup {r} /\ r.type # "ack"
    BY <2>2
  <2> HIDE DEF r
  <2> QED
    BY <1>1, <1>3, <1>5, <2>1, <2>2, <2>3, <2>4, <2>5, WorkerInv
<1>7. CASE WorkerConnectFails
  <2>1. PICK conn \in ConnectFails, alive \in BOOLEAN : Answer("crash", 0, conn, alive)
    BY <1>7, Zenon DEF WorkerConnectFails
  <2> DEFINE r == [type |-> "crash", bid |-> 0]
  <2>2. r \in Reply /\ r.type # "ack"
    BY WriteBehindAssumption DEF Reply
  <2>3. worker' = [worker EXCEPT !.inbox = Tail(@), !.conn = conn, !.alive = alive,
                                 !.outbox = Append(@, r), !.unwritten = worker.unwritten]
    BY <1>2, <2>1 DEF Answer, Worker
  <2>4. worker.unwritten \in SUBSET Ids /\ conn \in {"none", "open", "broken"}
    BY <1>2, WriteBehindAssumption DEF Worker
  <2> HIDE DEF r
  <2>5. /\ worker' \in Worker /\ worker'.conn = conn /\ worker'.unwritten = worker.unwritten
        /\ Range(worker'.inbox) \subseteq Range(worker.inbox)
        /\ Range(worker'.outbox) = Range(worker.outbox) \cup {r}
    BY <1>1, <1>2, <2>2, <2>3, <2>4, AnswerEffect
  <2>6. UNCHANGED captureVars
    BY <1>7 DEF WorkerConnectFails
  <2>7. BrokenInv'
    BY <1>2, <1>4, <2>5 DEF BrokenInv
  <2>8. \A i \in Ids : Effected(i) => Effected(i)'
    BY <1>5, <2>5, <2>6 DEF Effected
  <2> QED
    BY <1>1, <1>5, <2>2, <2>5, <2>6, <2>7, <2>8, WorkerInv
<1>8. CASE m.type = "batch" /\ WorkerExecutes(m)
  <2>1. m.ids \in SUBSET Ids /\ m.bid \in 0 .. MaxBatches /\ worker.unwritten \in SUBSET Ids
    BY <1>2, <1>3 DEF Message, Worker
  <2> DEFINE ack == [type |-> "ack", bid |-> m.bid]
             err == [type |-> "error", bid |-> m.bid]
  <2>2. ack \in Reply /\ err \in Reply /\ ack.bid = m.bid /\ err.type # "ack"
    BY <2>1 DEF Reply
  <2>3. \A k \in Flushes : m.bid = flight[k].bid /\ flight[k].st = "wait" =>
                             Range(flight[k].batch) = m.ids
    BY <1>3, <1>8 DEF WBInv, BoxInv
  <2>4. CASE /\ worker.conn \in {"none", "open"}
             /\ UpdateAndAccount(m.ids) /\ Answer("ack", m.bid, "open", TRUE)
    <3>1. worker' = [worker EXCEPT !.inbox = Tail(@), !.conn = "open", !.alive = TRUE,
                                   !.outbox = Append(@, ack), !.unwritten = worker.unwritten]
      BY <1>2, <2>4 DEF Answer, Worker
    <3> HIDE DEF ack, err
    <3>2. "open" \in {"none", "open", "broken"} /\ TRUE \in BOOLEAN
      OBVIOUS
    <3>3. /\ worker' \in Worker /\ worker'.conn = "open" /\ worker'.unwritten = worker.unwritten
          /\ Range(worker'.inbox) \subseteq Range(worker.inbox)
          /\ Range(worker'.outbox) = Range(worker.outbox) \cup {ack}
      BY <1>1, <1>2, <2>1, <2>2, <3>1, <3>2, AnswerEffect
    <3>4. /\ CapturesTypeOK' /\ rows' = rows /\ lastId' = lastId /\ BilledOnce'
          /\ \A i \in Ids :
               /\ i \in m.ids \/ state[i] = "done" => (i \in rows => state'[i] = "done")
               /\ i \in m.ids \/ i \in accounted => (i \in rows => i \in accounted')
               /\ state'[i] \in InFlightStates => state'[i] = state[i]
      BY <1>2, <2>1, <2>4, UpdateEffect
    <3>5. BrokenInv'
      BY <1>2, <1>4, <3>3 DEF BrokenInv
    <3>6. /\ \A i \in Ids : Effected(i) => Effected(i)'
          /\ \A i \in m.ids : Effected(i)'
      BY <2>1, <3>3, <3>4 DEF Effected
    <3>7. \A k \in Flushes : ack.bid = flight[k].bid /\ flight[k].st = "wait" =>
                               \A i \in Range(flight[k].batch) : Effected(i)'
      BY <2>2, <2>3, <3>6
    <3> QED
      BY <1>1, <3>3, <3>4, <3>5, <3>6, <3>7, WorkerInv
  <2>5. CASE Answer("error", m.bid, "open", TRUE) /\ UNCHANGED captureVars
    <3>1. worker' = [worker EXCEPT !.inbox = Tail(@), !.conn = "open", !.alive = TRUE,
                                   !.outbox = Append(@, err), !.unwritten = worker.unwritten]
      BY <1>2, <2>5 DEF Answer, Worker
    <3> HIDE DEF ack, err
    <3>2. "open" \in {"none", "open", "broken"} /\ TRUE \in BOOLEAN
      OBVIOUS
    <3>3. /\ worker' \in Worker /\ worker'.conn = "open" /\ worker'.unwritten = worker.unwritten
          /\ Range(worker'.inbox) \subseteq Range(worker.inbox)
          /\ Range(worker'.outbox) = Range(worker.outbox) \cup {err}
      BY <1>1, <1>2, <2>1, <2>2, <3>1, <3>2, AnswerEffect
    <3>4. BrokenInv'
      BY <1>2, <1>4, <3>3 DEF BrokenInv
    <3>5. \A i \in Ids : Effected(i) => Effected(i)'
      BY <1>5, <2>5, <3>3 DEF Effected
    <3> QED
      BY <1>1, <1>5, <2>2, <2>5, <3>3, <3>4, <3>5, WorkerInv
  <2>6. CASE /\ worker.conn = "broken"
             /\ worker' = [worker EXCEPT !.inbox = Tail(@), !.outbox = Append(@, ack),
                                         !.unwritten = @ \cup m.ids]
             /\ UNCHANGED captureVars
    <3>1. worker' = [worker EXCEPT !.inbox = Tail(@), !.conn = worker.conn,
                                   !.alive = worker.alive, !.outbox = Append(@, ack),
                                   !.unwritten = worker.unwritten \cup m.ids]
      BY <1>2, <2>6 DEF Worker
    <3> HIDE DEF ack, err
    <3>2. /\ worker.conn \in {"none", "open", "broken"} /\ worker.alive \in BOOLEAN
          /\ worker.unwritten \cup m.ids \in SUBSET Ids
      BY <1>2, <2>1 DEF Worker
    <3>3. /\ worker' \in Worker /\ worker'.conn = worker.conn
          /\ worker'.unwritten = worker.unwritten \cup m.ids
          /\ Range(worker'.inbox) \subseteq Range(worker.inbox)
          /\ Range(worker'.outbox) = Range(worker.outbox) \cup {ack}
      <4>1. PICK alive \in BOOLEAN, U \in SUBSET Ids :
              alive = worker.alive /\ U = worker.unwritten \cup m.ids
        BY <3>2, Zenon
      <4>2. worker' = [worker EXCEPT !.inbox = Tail(@), !.conn = worker.conn, !.alive = alive,
                                     !.outbox = Append(@, ack), !.unwritten = U]
        BY <3>1, <4>1
      <4>3. /\ worker' \in Worker /\ worker'.conn = worker.conn /\ worker'.unwritten = U
            /\ Range(worker'.inbox) \subseteq Range(worker.inbox)
            /\ Range(worker'.outbox) = Range(worker.outbox) \cup {ack}
        BY <1>1, <1>2, <2>2, <3>2, <4>2, AnswerEffect
      <4> QED
        BY <4>1, <4>3
    <3>4. BrokenInv'
      BY <1>2, <1>4, <2>6, <3>3 DEF BrokenInv
    <3>5. /\ \A i \in Ids : Effected(i) => Effected(i)'
          /\ \A i \in m.ids : Effected(i)'
      BY <1>5, <2>6, <3>3 DEF Effected
    <3>6. \A k \in Flushes : ack.bid = flight[k].bid /\ flight[k].st = "wait" =>
                               \A i \in Range(flight[k].batch) : Effected(i)'
      BY <2>2, <2>3, <3>5
    <3> QED
      BY <1>1, <1>5, <2>6, <3>3, <3>4, <3>5, <3>6, WorkerInv
  <2> QED
    BY <1>8, <2>4, <2>5, <2>6, Zenon DEF WorkerExecutes
<1> QED
  BY <1>1, <1>6, <1>7, <1>8

(***************************************************************************)
(* Shutdown.                                                               *)
(***************************************************************************)
\* A step of shutdown() that leaves queue, table and flights alone.
LEMMA PhaseInv ==
  ASSUME WBInv, UNCHANGED <<captureVars, queue, flushTimer, armed, retryTimer, retryCount,
                            flight, chained, tries, fate, worker.conn, worker.unwritten,
                            worker.outbox>>,
         worker' \in Worker,
         \A m \in Range(worker'.inbox) : m \in Range(worker.inbox) \/ m.type = "close",
         ~UseWorker => worker'.inbox = worker.inbox,
         phase' \in Phases \ {"running", "flushing"}, phase # "flushing",
         phase' = "draining" => tries < 3
  PROVE  WBInv'
<1>1. CapturesTypeOK' /\ BilledOnce' /\ UNCHANGED <<lastId, rows, state, accounted>>
  BY UnchangedTable DEF WBInv
<1>2. Flags' /\ ArmedInv'
  BY Zenon DEF WBInv, Flags, ArmedInv
<1>3. Fields' /\ ShutdownInv'
  BY DEF WBInv, Fields, ShutdownInv
<1>4. PartsInv' /\ FreshInv' /\ BrokenInv' /\ StrandInv'
  BY <1>1 DEF WBInv, PartsInv, FreshInv, BrokenInv, StrandInv
<1>5. \A i : Effected(i)' <=> Effected(i)
  BY <1>1 DEF Effected
<1>6. BoxInv' /\ StoredInv'
  <2>1. \A m \in Range(worker'.inbox) : m.type = "batch" => m \in Range(worker.inbox)
    OBVIOUS
  <2> QED
    BY <1>5, <2>1 DEF WBInv, BoxInv, StoredInv
<1>7. PhantomInv'
  BY <1>1 DEF WBInv, PhantomInv, NoPhantomRows
<1> QED
  BY <1>1, <1>2, <1>3, <1>4, <1>6, <1>7 DEF WBInv

\* The server stops, and later the worker is gone.
LEMMA ShutdownEndsStep == WBInv /\ (ShutdownBegin \/ WorkerClosed) => WBInv'
<1> SUFFICES ASSUME WBInv, ShutdownBegin \/ WorkerClosed PROVE WBInv'
  OBVIOUS
<1>1. worker \in Worker
  BY DEF WBInv, Fields
<1>2. CASE ShutdownBegin
  <2>1. /\ phase = "running" /\ phase' = "draining"
        /\ UNCHANGED <<captureVars, queue, flushTimer, armed, retryTimer, retryCount,
                       flight, chained, worker, tries, fate>>
    BY <1>2 DEF ShutdownBegin, timerVars, flushVars
  <2>2. phase' \in Phases \ {"running", "flushing"} /\ phase # "flushing" /\ tries < 3
    BY <2>1 DEF Phases, WBInv, ShutdownInv
  <2> QED
    BY <1>1, <2>1, <2>2, PhaseInv
<1>3. CASE WorkerClosed
  <2>1. /\ phase = "closing" /\ phase' = "closed" /\ worker' = [worker EXCEPT !.alive = FALSE]
        /\ UNCHANGED <<captureVars, queue, flushTimer, armed, retryTimer, retryCount,
                       flight, chained, tries, fate>>
    BY <1>3 DEF WorkerClosed, timerVars
  <2>2. phase' \in Phases \ {"running", "flushing"} /\ phase # "flushing" /\ phase' # "draining"
    BY <2>1 DEF Phases
  <2>3. worker' \in Worker /\ UNCHANGED <<worker.conn, worker.unwritten, worker.outbox, worker.inbox>>
    BY <1>1, <2>1 DEF Worker
  <2> QED
    BY <2>1, <2>2, <2>3, PhaseInv
<1> QED
  BY <1>2, <1>3

\* An attempt of the flush loop of shutdown().
LEMMA ShutdownFlushStep == WBInv /\ ShutdownFlush => WBInv'
<1> SUFFICES ASSUME WBInv, ShutdownFlush PROVE WBInv'
  OBVIOUS
<1>1. /\ phase = "draining" /\ tries' = tries + 1
      /\ phase' = IF queue = <<>> THEN "leftover" ELSE "flushing"
      /\ FlushNow("shutdown", queue)
      /\ UNCHANGED <<armed, retryTimer, retryCount, chained, fate>>
  BY DEF ShutdownFlush
<1>2. "guarded" \in Flushes /\ "shutdown" \in Flushes /\ flight["shutdown"].st = "idle"
      /\ "guarded" # "shutdown"
  BY <1>1 DEF Flushes, WBInv, ShutdownInv
<1>3. Range(flight["shutdown"].batch) = {}
  BY <1>2, EmptyEntries DEF WBInv, ShutdownInv
<1>4. /\ queue \in Seq(Ids) /\ IsInjective(queue)
      /\ Range(queue) \cap Range(flight["guarded"].batch) = {} /\ fate' \in [Ids -> Fates]
  BY <1>1, <1>2 DEF WBInv, Fields, PartsInv
<1>5. {j \in Ids : fate'[j] = "queued"} = Range(queue) \cup Range(flight["guarded"].batch)
  BY <1>1, <1>3 DEF WBInv, PartsInv
<1>6. \A j \in Ids : fate'[j] = fate[j] \/ (fate[j] = "open" /\ fate'[j] = "queued")
  BY <1>1
<1>7. /\ CapturesTypeOK' /\ BilledOnce' /\ BoxInv'
      /\ PartsInv' /\ FreshInv' /\ StoredInv' /\ BrokenInv' /\ PhantomInv'
      /\ queue' = <<>> /\ queue' \in Seq(Ids) /\ flushTimer' = FALSE
      /\ flight' \in [Flushes -> Flight] /\ worker' \in Worker
      /\ flight'["guarded"] = flight["guarded"]
      /\ flight'["shutdown"].st = "idle" <=> queue = <<>>
      /\ flight'["shutdown"].st = "idle" => flight'["shutdown"].batch = <<>>
  BY <1>1, <1>2, <1>4, <1>5, <1>6, FlushInv
<1>8. Flags' /\ ArmedInv'
  BY <1>1, <1>7, Zenon DEF WBInv, Flags, ArmedInv
<1>9. tries' \in 0 .. 3 /\ phase' \in Phases
  BY <1>1 DEF WBInv, ShutdownInv, Fields, Phases
<1>10. Fields'
  BY <1>1, <1>4, <1>7, <1>9 DEF WBInv, Fields
<1>11. ShutdownInv' /\ StrandInv'
  <2>1. phase' \in {"leftover", "flushing"} /\ (phase' = "flushing" <=> queue # <<>>)
    BY <1>1
  <2> QED
    BY <1>7, <2>1 DEF WBInv, ShutdownInv, StrandInv, Flushes
<1> QED
  BY <1>7, <1>8, <1>10, <1>11 DEF WBInv

\* close() after the drain: a message to the worker, or the end.
LEMMA CloseEffect ==
  ASSUME worker \in Worker, Close
  PROVE  /\ phase' \in {"closing", "closed"} /\ worker' \in Worker
         /\ UNCHANGED <<worker.conn, worker.unwritten, worker.outbox>>
         /\ \A m \in Range(worker'.inbox) : m \in Range(worker.inbox) \/ m.type = "close"
         /\ ~UseWorker => worker'.inbox = worker.inbox
<1> DEFINE c == [type |-> "close", bid |-> 0, ids |-> {}]
<1>1. worker.inbox \in Seq(Message) /\ c \in Message /\ c.type = "close"
  BY WriteBehindAssumption DEF Worker, Message
<1>2. CASE UseWorker /\ worker.alive
  <2>1. phase' = "closing" /\ worker' = [worker EXCEPT !.inbox = Append(@, c)]
    BY <1>2 DEF Close
  <2> HIDE DEF c
  <2>2. Append(worker.inbox, c) \in Seq(Message)
        /\ Range(Append(worker.inbox, c)) = Range(worker.inbox) \cup {c}
    BY <1>1, AppendEntries
  <2> QED
    BY <1>1, <1>2, <2>1, <2>2 DEF Worker
<1>3. CASE ~(UseWorker /\ worker.alive)
  <2>1. worker' = worker /\ phase' \in {"closing", "closed"}
    BY <1>3 DEF Close
  <2> QED
    BY <2>1
<1> QED
  BY <1>2, <1>3

\* drainForShutdown(): the entries S leave the queue, the rows of M are marked.
LEMMA DrainInv ==
  ASSUME WBInv, phase = "leftover", NEW S, NEW M, S \subseteq Range(queue), M \subseteq S,
         MarksDrops => M = S, OnDrop(M), fate' = Fated(S, "dropped"),
         queue' \in Seq(Ids), IsInjective(queue'), Range(queue') = Range(queue) \ S,
         ClearFlushTimer, flushTimer' = FALSE, retryTimer' = FALSE,
         phase' \in {"closing", "closed"}, worker' \in Worker,
         UNCHANGED <<worker.conn, worker.unwritten, worker.outbox>>,
         \A m \in Range(worker'.inbox) : m \in Range(worker.inbox) \/ m.type = "close",
         ~UseWorker => worker'.inbox = worker.inbox,
         UNCHANGED <<idVars, rows, usageVars, rowCount, retryCount, flight, chained, tries>>
  PROVE  WBInv'
<1>1. Range(queue) \subseteq Ids
  BY Positions DEF WBInv, Fields
<1>2. /\ state' = [j \in Ids |-> IF j \in M \cap rows THEN "failed" ELSE state[j]]
      /\ fate' = [j \in Ids |-> IF j \in S THEN "dropped" ELSE fate[j]]
  BY DEF OnDrop, Fated
<1>3. CapturesTypeOK' /\ BilledOnce' /\ lastId' = lastId /\ accounted' = accounted
  <2>1. state' \in [Ids -> RowStates]
    BY <1>2 DEF WBInv, CapturesTypeOK, RowStates
  <2> QED
    BY <2>1, StateEffect DEF WBInv, idVars, usageVars
<1>4. Flags' /\ ArmedInv'
  BY Zenon DEF WBInv, Flags, ArmedInv
<1>5. Fields'
  <2>1. fate' \in [Ids -> Fates]
    BY <1>2 DEF Fates, WBInv, Fields
  <2>2. phase' \in Phases
    BY DEF Phases
  <2> QED
    BY <2>1, <2>2, ClearTimer DEF WBInv, Fields
<1>6. ShutdownInv' /\ BrokenInv' /\ StrandInv'
  <2>1. phase' \notin {"running", "draining", "flushing"}
    OBVIOUS
  <2> QED
    BY <2>1 DEF WBInv, ShutdownInv, BrokenInv, StrandInv
<1>7. PartsInv'
  <2>1. {j \in Ids : fate'[j] = "queued"} = {j \in Ids : fate[j] = "queued"} \ S
    BY <1>2
  <2>2. \A k \in Flushes : S \cap Range(flight[k].batch) = {}
    BY DEF WBInv, PartsInv
  <2> QED
    BY <2>1, <2>2 DEF WBInv, PartsInv, Flushes
<1>8. FreshInv'
  <2>1. \A j \in S : fate[j] = "queued"
    BY <1>1 DEF WBInv, PartsInv
  <2> QED
    BY <1>2, <1>3, <2>1, FreshKept DEF WBInv
<1>9. \A j \in Ids \ S : Effected(j) => Effected(j)'
  BY <1>2, <1>3 DEF Effected
<1>10. BoxInv'
  <2>1. ASSUME NEW k \in Flushes, NEW i \in Range(flight[k].batch), Effected(i)
        PROVE  Effected(i)'
    <3>1. i \in Ids
      BY Positions DEF WBInv, Fields, Flight
    <3>2. i \notin S
      BY DEF WBInv, PartsInv
    <3> QED
      BY <1>9, <2>1, <3>1, <3>2
  <2>2. \A m \in Range(worker'.inbox) : m.type = "batch" => m \in Range(worker.inbox)
    OBVIOUS
  <2> QED
    BY <2>1, <2>2 DEF WBInv, BoxInv
<1>11. StoredInv'
  BY <1>2, <1>9 DEF WBInv, StoredInv
<1>12. PhantomInv'
  <2> SUFFICES ASSUME MarksDrops, NEW j \in rows, state'[j] \in InFlightStates
               PROVE  fate'[j] \in {"open", "queued", "exhausted"}
    BY DEF PhantomInv, NoPhantomRows
  <2>1. j \in Ids
    BY RowsAreIds DEF WBInv
  <2>2. j \notin S /\ state'[j] = state[j]
    BY <1>2, <2>1 DEF InFlightStates
  <2> QED
    BY <1>2, <2>1, <2>2 DEF WBInv, PhantomInv, NoPhantomRows
<1> QED
  BY <1>3, <1>4, <1>5, <1>6, <1>7, <1>8, <1>10, <1>11, <1>12 DEF WBInv

\* The last step of shutdown().
LEMMA ShutdownDrainStep == WBInv /\ ShutdownDrain => WBInv'
<1> SUFFICES ASSUME WBInv, ShutdownDrain PROVE WBInv'
  OBVIOUS
<1>1. worker \in Worker /\ queue \in Seq(Ids) /\ IsInjective(queue)
  BY DEF WBInv, Fields, PartsInv
<1>2. phase = "leftover" /\ UNCHANGED <<flight, chained, tries>>
  BY DEF ShutdownDrain
<1>3. CASE queue = <<>>
  <2>1. Close /\ UNCHANGED <<captureVars, queue, flushTimer, armed, retryTimer, retryCount, fate>>
    BY <1>3 DEF ShutdownDrain, timerVars
  <2>2. /\ phase' \in {"closing", "closed"} /\ worker' \in Worker
        /\ UNCHANGED <<worker.conn, worker.unwritten, worker.outbox>>
        /\ \A m \in Range(worker'.inbox) : m \in Range(worker.inbox) \/ m.type = "close"
        /\ ~UseWorker => worker'.inbox = worker.inbox
    BY <1>1, <2>1, CloseEffect
  <2>3. phase' \in Phases \ {"running", "flushing"} /\ phase # "flushing"
        /\ (phase' = "draining" => tries < 3)
    BY <1>2, <2>2 DEF Phases
  <2> QED
    BY <1>2, <2>1, <2>2, <2>3, PhaseInv
<1>4. CASE queue # <<>>
  <2>1. PICK n \in 0 .. Len(queue) :
          /\ OnDrop(DrainMarks(n))
          /\ \/ /\ n = Len(queue)
                /\ queue' = <<>>
                /\ fate' = Fated(Range(queue), "dropped")
                /\ Close
             \/ /\ n < Len(queue) /\ TRUE \in OnDropThrows
                /\ queue' = SubSeq(queue, n + 2, Len(queue))
                /\ fate' = Fated(Range(SubSeq(queue, 1, n + 1)), "dropped")
                /\ phase' = "closed" /\ UNCHANGED worker
    BY <1>4 DEF ShutdownDrain
  <2>2. /\ ClearFlushTimer /\ flushTimer' = FALSE /\ retryTimer' = FALSE
        /\ UNCHANGED <<idVars, rows, usageVars, rowCount, retryCount>>
    BY <1>4 DEF ShutdownDrain
  <2> DEFINE M == DrainMarks(n)
  <2>3. CASE n = Len(queue) /\ queue' = <<>> /\ fate' = Fated(Range(queue), "dropped") /\ Close
    <3>1. /\ phase' \in {"closing", "closed"} /\ worker' \in Worker
          /\ UNCHANGED <<worker.conn, worker.unwritten, worker.outbox>>
          /\ \A m \in Range(worker'.inbox) : m \in Range(worker.inbox) \/ m.type = "close"
          /\ ~UseWorker => worker'.inbox = worker.inbox
      BY <1>1, <2>3, CloseEffect
    <3>2. SubSeq(queue, 1, n) = queue
      BY <1>1, <2>3
    <3>3. M = Range(queue)
      BY <3>2 DEF DrainMarks
    <3>4. queue' \in Seq(Ids) /\ IsInjective(queue') /\ Range(queue') = Range(queue) \ Range(queue)
      BY <2>3, EmptyEntries
    <3>5. Range(queue) \subseteq Range(queue) /\ OnDrop(Range(queue))
          /\ (MarksDrops => Range(queue) = Range(queue))
      BY <2>1, <3>3
    <3> QED
      BY <1>2, <2>2, <2>3, <3>1, <3>4, <3>5, DrainInv
  <2>4. CASE /\ n < Len(queue) /\ TRUE \in OnDropThrows
             /\ queue' = SubSeq(queue, n + 2, Len(queue))
             /\ fate' = Fated(Range(SubSeq(queue, 1, n + 1)), "dropped")
             /\ phase' = "closed" /\ UNCHANGED worker
    <3> DEFINE S == Range(SubSeq(queue, 1, n + 1))
    <3>1. n + 1 \in 0 .. Len(queue) /\ (n + 1) + 1 = n + 2
      BY <1>1, <2>4
    <3>2. /\ SubSeq(queue, (n + 1) + 1, Len(queue)) \in Seq(Ids)
          /\ IsInjective(SubSeq(queue, (n + 1) + 1, Len(queue)))
          /\ Range(SubSeq(queue, (n + 1) + 1, Len(queue))) = Range(queue) \ S
          /\ S \subseteq Range(queue)
      BY <1>1, <3>1, SplitEntries
    <3>3. queue' \in Seq(Ids) /\ IsInjective(queue') /\ Range(queue') = Range(queue) \ S
      BY <2>4, <3>1, <3>2
    <3>4. M \subseteq S
      <4> DEFINE a == SubSeq(queue, 1, n)
                 b == SubSeq(queue, 1, n + 1)
      <4>1. /\ a \in Seq(Ids) /\ Len(a) = n /\ b \in Seq(Ids) /\ Len(b) = n + 1
            /\ \A j \in 1 .. n : a[j] = queue[j] /\ b[j] = queue[j]
        BY <1>1, <3>1
      <4> HIDE DEF a, b
      <4>2. Range(a) \subseteq Range(b)
        BY <3>1, <4>1, Positions
      <4> QED
        BY <4>2 DEF DrainMarks, a, b
    <3>5. ~MarksDrops /\ OnDrop(M)
      BY <2>1, <2>4 DEF MarksDrops
    <3>6. phase' \in {"closing", "closed"} /\ worker' = worker /\ fate' = Fated(S, "dropped")
      BY <2>4
    <3> HIDE DEF S, M
    <3> QED
      BY <1>1, <1>2, <2>2, <3>2, <3>3, <3>4, <3>5, <3>6, DrainInv
  <2> QED
    BY <2>1, <2>3, <2>4
<1> QED
  BY <1>3, <1>4

(***************************************************************************)
(* The theorems.                                                           *)
(***************************************************************************)
\* Nothing is queued, and no id is given out.
LEMMA InitWB == Init => WBInv
<1> SUFFICES ASSUME Init PROVE WBInv
  OBVIOUS
<1>1. /\ queue = <<>> /\ armed = 0 /\ retryCount = 0
      /\ flight = [k \in Flushes |-> Idle]
      /\ phase = "running" /\ tries = 0 /\ worker = FreshWorker /\ fate = [i \in Ids |-> "none"]
      /\ lastId = 0 /\ rows = {} /\ visionIds = {} /\ rowCount = 0
      /\ state = [i \in Ids |-> "none"] /\ accounted = {} /\ billed = [i \in Ids |-> 0]
  BY DEF Init, CapturesInit
<1>2. Flags /\ ArmedInv
  BY Zenon DEF Init, Flags, ArmedInv
<1>3. /\ Range(<<>>) = {} /\ IsInjective(<<>>)
      /\ <<>> \in Seq(Ids) /\ <<>> \in Seq(Message) /\ <<>> \in Seq(Reply)
  BY EmptyEntries
<1>4. \A k \in Flushes : flight[k] \in Flight /\ flight[k].st = "idle" /\ flight[k].batch = <<>>
  BY <1>1, <1>3, WriteBehindAssumption DEF Idle, Flight
<1>5. worker \in Worker /\ worker.inbox = <<>> /\ worker.outbox = <<>> /\ worker.unwritten = {}
      /\ worker.conn = "none"
  BY <1>1, <1>3 DEF FreshWorker, Worker
<1>6. Fields
  BY <1>1, <1>3, <1>4, <1>5, WriteBehindAssumption DEF Fields, Phases, Fates
<1>7. CapturesTypeOK /\ BilledOnce
  BY <1>1, CapturesAssumption DEF CapturesTypeOK, BilledOnce, RowStates
<1>8. ShutdownInv /\ PartsInv /\ FreshInv
  BY <1>1, <1>3, <1>4 DEF ShutdownInv, PartsInv, FreshInv, Flushes
<1>9. BoxInv /\ StoredInv /\ BrokenInv /\ StrandInv /\ PhantomInv
  BY <1>1, <1>3, <1>4, <1>5 DEF BoxInv, StoredInv, BrokenInv, StrandInv, PhantomInv, NoPhantomRows
<1> QED
  BY <1>2, <1>6, <1>7, <1>8, <1>9 DEF WBInv

\* Every step keeps the invariant.
LEMMA NextWB == WBInv /\ [Next]_vars => WBInv'
<1> SUFFICES ASSUME WBInv, [Next]_vars PROVE WBInv'
  OBVIOUS
<1>1. CASE \E i \in Ids : QueueUpdate(i)
  BY <1>1, QueueAndArmStep, QueueAndFlushStep, QueueAndChainStep DEF QueueUpdate
<1>2. CASE \E k \in Flushes : Settle(k) \/ AckTimeout(k)
  BY <1>2, SettleStep, AckTimeoutStep
<1>3. CASE UNCHANGED vars
  <2>1. UNCHANGED <<captureVars, queue, flushTimer, armed, retryTimer, retryCount, flight,
                    chained, worker, phase, tries, fate>>
    BY <1>3, Zenon DEF vars, timerVars, flushVars, shutdownVars
  <2>2. CapturesTypeOK' /\ BilledOnce' /\ UNCHANGED <<lastId, rows, state, accounted>>
    BY <2>1, UnchangedTable DEF WBInv
  <2>3. Flags' /\ ArmedInv'
    BY <2>1, Zenon DEF WBInv, Flags, ArmedInv
  <2>4. Fields' /\ ShutdownInv' /\ PartsInv' /\ FreshInv' /\ BrokenInv'
    BY <2>1, <2>2 DEF WBInv, Fields, ShutdownInv, PartsInv, FreshInv, BrokenInv
  <2>5. \A i : Effected(i)' <=> Effected(i)
    BY <2>1, <2>2 DEF Effected
  <2>6. BoxInv' /\ StoredInv' /\ StrandInv'
    BY <2>1, <2>5 DEF WBInv, BoxInv, StoredInv, StrandInv, Busy
  <2>7. PhantomInv'
    BY <2>1, <2>2 DEF WBInv, PhantomInv, NoPhantomRows
  <2> QED
    BY <2>2, <2>3, <2>4, <2>6, <2>7 DEF WBInv
<1> QED
  BY <1>1, <1>2, <1>3, RequestStartsStep, RequestStreamsStep, TimersStep, WorkerStepStep,
     DeliverStep, ShutdownEndsStep, ShutdownFlushStep, ShutdownDrainStep, ClearStep, RestartStep
     DEF Next

\* The inductive invariant of the write-behind queue.
LEMMA AlwaysWB == Spec => []WBInv
  BY InitWB, NextWB, PTL DEF Spec

\* No update disappears and none is there twice, for every batch size, depth,
\* number of retries and captures, with or without the worker, and whatever
\* fails: what is neither stored, dropped, given up after the retries nor lost
\* with the process is exactly once in the queue or in a flush under way.
THEOREM UpdatesConserved == Spec => []Conserved
<1>1. WBInv => Conserved
  <2> SUFFICES ASSUME WBInv PROVE Conserved
    OBVIOUS
  <2> DEFINE g == flight["guarded"].batch
             s == flight["shutdown"].batch
  <2>1. queue \in Seq(Ids) /\ g \in Seq(Ids) /\ s \in Seq(Ids)
    BY DEF WBInv, Fields, Flight, Flushes
  <2>2. /\ IsInjective(queue) /\ IsInjective(g) /\ IsInjective(s)
        /\ Range(queue) \cap Range(g) = {} /\ Range(queue) \cap Range(s) = {}
        /\ Range(g) \cap Range(s) = {}
        /\ {i \in Ids : fate[i] = "queued"} = Range(queue) \cup Range(g) \cup Range(s)
    BY DEF WBInv, PartsInv, Flushes
  <2> HIDE DEF g, s
  <2> DEFINE a == queue \o g
  <2>3. a \in Seq(Ids) /\ Range(a) = Range(queue) \cup Range(g) /\ IsInjective(a)
    BY <2>1, <2>2, ConcatEntries
  <2> HIDE DEF a
  <2>4. Range(a) \cap Range(s) = {}
    BY <2>2, <2>3
  <2>5. Range(a \o s) = Range(a) \cup Range(s) /\ IsInjective(a \o s)
    BY <2>1, <2>2, <2>3, <2>4, ConcatEntries
  <2>6. Pending = a \o s
    BY DEF Pending, a, g, s
  <2> QED
    BY <2>2, <2>3, <2>5, <2>6 DEF Conserved
<1> QED
  BY <1>1, AlwaysWB, PTL

\* What the queue reports as stored is done and accounted, if its row is still
\* there and it was not acknowledged unwritten by a connection without a
\* statement, and nothing is billed twice, whatever happens to batches and
\* acknowledgements between the two threads: timeouts, late answers, retries of
\* what was applied.
THEOREM StoredOnce == Spec => []AppliedOnce
<1>1. WBInv => AppliedOnce
  BY RowsAreIds DEF WBInv, StoredInv, Effected, AppliedOnce, StoredApplied
<1> QED
  BY <1>1, AlwaysWB, PTL

\* As long as onFlush does not throw, the running server always has something
\* under way that will flush a queue that is not empty.
THEOREM NothingStranded == ASSUME TRUE \notin OnFlushThrows PROVE Spec => []NoStranded
<1>1. WBInv => NoStranded
  BY DEF WBInv, StrandInv, NoStranded
<1> QED
  BY <1>1, AlwaysWB, PTL

\* If onDrop does its work and the worker has its statements, the table tells
\* the truth about finished requests: what is stored is done and accounted, and
\* no row is left in flight without an update that can still come, but for those
\* whose update was given up after the retries.
THEOREM TableTruthful == ASSUME MarksDrops PROVE Spec => []TableAgrees
<1>1. WBInv => TableAgrees
  <2> SUFFICES ASSUME WBInv PROVE TableAgrees
    OBVIOUS
  <2>1. QueueTypeOK
    <3>1. flushTimer \in BOOLEAN /\ retryTimer \in BOOLEAN /\ chained \in BOOLEAN
          /\ (flushTimer => armed > 0)
      BY Zenon DEF WBInv, Flags, ArmedInv
    <3>2. worker.alive \in BOOLEAN /\ worker.conn \in {"none", "open", "broken"}
      BY DEF WBInv, Fields, Worker
    <3> QED
      BY <3>1, <3>2 DEF QueueTypeOK, WBInv, Fields, Flight
  <2>2. StoredApplied
    BY RowsAreIds DEF WBInv, StoredInv, Effected, StoredApplied
  <2>3. NoPhantomRows
    BY DEF WBInv, PhantomInv
  <2> QED
    BY <2>1, <2>2, <2>3 DEF TableAgrees
<1> QED
  BY <1>1, AlwaysWB, PTL
=============================================================================
