---------------------------- MODULE MeasureProofs ----------------------------
(***************************************************************************)
(* Proofs about what the proxy measures: the two sliding windows of        *)
(* RateWindow, for every limit, window, weight and history, and the row of *)
(* a day of DailyRow, for every day.                                       *)
(*                                                                         *)
(* Both add over sets and both define a function by recursion. The sums    *)
(* and the recursive functions are tables here: a table is shown to exist  *)
(* and so to satisfy its definition, and induction is the argument from    *)
(* the least number that fails, over a set of numbers.                     *)
(***************************************************************************)
EXTENDS RateWindow, DailyRow, SequenceLemmas, TLAPS

(***************************************************************************)
(* Sums.                                                                   *)
(***************************************************************************)

\* The element of a set that CHOOSE takes.
Pick(s) == CHOOSE x \in s : TRUE

\* The sum of a function over a set.
SumOf(f, S) == MapThenSumSet(LAMBDA i : f[i], S)

\* The table of the sums over the subsets of S, by one application of its
\* definition to another, and by the definition of recursive functions.
SumStep(f, S, it) ==
  [s \in SUBSET S |-> IF s = {} THEN 0 ELSE f[Pick(s)] + it[s \ {Pick(s)}]]
SumTable(f, S) == CHOOSE it : it = SumStep(f, S, it)

\* Induction, with a set for the numbers that have the property.
LEMMA Reached ==
  ASSUME NEW T \in SUBSET Nat, \A n \in Nat : (\A m \in Nat : m < n => m \in T) => n \in T
  PROVE  T = Nat
<1> SUFFICES ASSUME Nat \ T # {} PROVE FALSE
  OBVIOUS
<1>1. PICK n \in Nat \ T : \A m \in Nat \ T : n <= m
  BY LeastNumber
<1>2. \A m \in Nat : m < n => m \in T
  BY <1>1
<1> QED
  BY <1>1, <1>2

\* A sum is an entry of a table.
LEMMA SumIsTable ==
  ASSUME NEW f, NEW S
  PROVE  SumOf(f, S) = SumTable(f, S)[S]
  BY DEF SumOf, SumTable, SumStep, MapThenSumSet, MapThenFoldSet, Pick

\* One element less.
LEMMA SmallerSet ==
  ASSUME NEW S, IsFiniteSet(S), NEW s \in SUBSET S
  PROVE  /\ IsFiniteSet(s) /\ Cardinality(s) \in Nat /\ Cardinality(s) <= Cardinality(S)
         /\ s # {} => /\ Pick(s) \in s /\ s \ {Pick(s)} \in SUBSET S
                      /\ Cardinality(s \ {Pick(s)}) = Cardinality(s) - 1
                      /\ Cardinality(s) >= 1
<1>1. IsFiniteSet(s) /\ Cardinality(s) <= Cardinality(S) /\ Cardinality(s) \in Nat
  BY FS_Subset, FS_CardinalityType
<1>2. ASSUME s # {} PROVE Pick(s) \in s
  BY <1>2 DEF Pick
<1>3. ASSUME s # {} PROVE Cardinality(s \ {Pick(s)}) = Cardinality(s) - 1 /\ Cardinality(s) # 0
  BY <1>1, <1>2, <1>3, FS_RemoveElement, FS_EmptySet
<1> QED
  BY <1>1, <1>2, <1>3

\* The table exists.
LEMMA TableExists ==
  ASSUME NEW f, NEW S, IsFiniteSet(S)
  PROVE  \E it : it = SumStep(f, S, it)
<1> DEFINE n == Cardinality(S)
           Upto(it, d) == \A s \in SUBSET S : Cardinality(s) <= d => it[s] = SumStep(f, S, it)[s]
           Good == {d \in Nat : \E it : it = [s \in SUBSET S |-> it[s]] /\ Upto(it, d)}
<1> HIDE DEF Upto
<1>0. \A s \in SUBSET S : Cardinality(s) \in Nat /\ Cardinality(s) <= n
  BY SmallerSet
<1>1. ASSUME NEW d \in Nat, \A m \in Nat : m < d => m \in Good
      PROVE  d \in Good
  <2>1. \E it : \A s \in SUBSET S : Cardinality(s) < d => it[s] = SumStep(f, S, it)[s]
    <3>1. CASE d = 0
      <4>1. \A s \in SUBSET S : ~(Cardinality(s) < d)
        BY <3>1, <1>0
      <4> QED
        BY <4>1
    <3>2. CASE d # 0
      <4>1. d - 1 \in Good
        <5> HIDE DEF Good
        <5>1. d - 1 \in Nat /\ d - 1 < d
          BY <3>2
        <5> QED
          BY <1>1, <5>1
      <4>2. PICK it : Upto(it, d - 1)
        BY <4>1
      <4>3. \A s \in SUBSET S : Cardinality(s) < d => Cardinality(s) <= d - 1
        BY <1>0
      <4> QED
        BY <4>2, <4>3 DEF Upto
    <3> QED
      BY <3>1, <3>2
  <2>2. PICK it : \A s \in SUBSET S : Cardinality(s) < d => it[s] = SumStep(f, S, it)[s]
    BY <2>1
  <2> DEFINE nx == SumStep(f, S, it)
  <2>3. ASSUME NEW s \in SUBSET S, Cardinality(s) <= d
        PROVE  nx[s] = SumStep(f, S, nx)[s]
    <3>1. CASE s = {}
      BY <3>1 DEF SumStep
    <3>2. CASE s # {}
      <4>1. /\ Pick(s) \in s /\ s \ {Pick(s)} \in SUBSET S
            /\ Cardinality(s \ {Pick(s)}) < d
        BY <2>3, <3>2, SmallerSet
      <4>2. nx[s \ {Pick(s)}] = it[s \ {Pick(s)}]
        BY <4>1, <2>2
      <4>3. nx[s] = f[Pick(s)] + it[s \ {Pick(s)}]
        BY <3>2 DEF SumStep
      <4>4. SumStep(f, S, nx)[s] = f[Pick(s)] + nx[s \ {Pick(s)}]
        BY <3>2 DEF SumStep
      <4> QED
        BY <4>2, <4>3, <4>4
    <3> QED
      BY <3>1, <3>2
  <2>4. nx = [s \in SUBSET S |-> nx[s]]
    BY DEF SumStep
  <2> HIDE DEF nx
  <2>5. Upto(nx, d)
    BY <2>3 DEF Upto
  <2> QED
    BY <2>4, <2>5
<1>2. Good \in SUBSET Nat
  OBVIOUS
<1>3. Good = Nat
  <2> HIDE DEF Good
  <2> QED
    BY <1>1, <1>2, Reached
<1>4. n \in Nat
  BY FS_CardinalityType
<1>5. PICK it : it = [s \in SUBSET S |-> it[s]] /\ Upto(it, n)
  BY <1>3, <1>4
<1>7. \A s \in SUBSET S : it[s] = SumStep(f, S, it)[s]
  BY <1>0, <1>5 DEF Upto
<1>8. it = SumStep(f, S, it)
  BY <1>5, <1>7 DEF SumStep
<1> QED
  BY <1>8

\* So it is what its definition says.
LEMMA TableIs ==
  ASSUME NEW f, NEW S, IsFiniteSet(S)
  PROVE  SumTable(f, S) = SumStep(f, S, SumTable(f, S))
<1>1. \E it : it = SumStep(f, S, it)
  BY TableExists
<1> QED
  BY <1>1 DEF SumTable

\* The table of a larger set has the same sums.
LEMMA TablesAgree ==
  ASSUME NEW f, NEW U, IsFiniteSet(U)
  PROVE  \A R \in SUBSET U : \A s \in SUBSET R : SumTable(f, R)[s] = SumOf(f, s)
<1> DEFINE Same(d) == \A R \in SUBSET U : \A s \in SUBSET R :
                        Cardinality(s) = d => SumTable(f, R)[s] = SumOf(f, s)
           Good == {d \in Nat : Same(d)}
<1>0. \A s \in SUBSET U : IsFiniteSet(s) /\ Cardinality(s) \in Nat
  BY SmallerSet
<1>1. ASSUME NEW d \in Nat, \A m \in Nat : m < d => m \in Good
      PROVE  d \in Good
  <2> SUFFICES ASSUME NEW R \in SUBSET U, NEW s \in SUBSET R, Cardinality(s) = d
               PROVE  SumTable(f, R)[s] = SumTable(f, s)[s]
    BY SumIsTable
  <2>0. IsFiniteSet(R) /\ IsFiniteSet(s) /\ s \in SUBSET U /\ s \in SUBSET s
    BY <1>0
  <2>1. /\ SumTable(f, R) = SumStep(f, R, SumTable(f, R))
        /\ SumTable(f, s) = SumStep(f, s, SumTable(f, s))
    BY <2>0, TableIs
  <2>2. CASE s = {}
    BY <2>1, <2>2 DEF SumStep
  <2>3. CASE s # {}
    <3> DEFINE r == s \ {Pick(s)}
    <3>1. /\ Pick(s) \in s /\ r \in SUBSET s /\ r \in SUBSET R
          /\ Cardinality(r) < d /\ Cardinality(r) \in Nat
      BY <2>0, <2>3, SmallerSet
    <3>2. /\ SumTable(f, R)[s] = f[Pick(s)] + SumTable(f, R)[r]
          /\ SumTable(f, s)[s] = f[Pick(s)] + SumTable(f, s)[r]
      BY <2>0, <2>1, <2>3 DEF SumStep
    <3> HIDE DEF r
    <3>3. Same(Cardinality(r))
      BY <1>1, <3>1
    <3>4. SumTable(f, R)[r] = SumOf(f, r) /\ SumTable(f, s)[r] = SumOf(f, r)
      BY <2>0, <3>1, <3>3
    <3> QED
      BY <3>2, <3>4
  <2> QED
    BY <2>2, <2>3
<1>2. Good = Nat
  <2>1. Good \in SUBSET Nat
    OBVIOUS
  <2> HIDE DEF Good
  <2> QED
    BY <1>1, <2>1, Reached
<1>3. ASSUME NEW R \in SUBSET U, NEW s \in SUBSET R
      PROVE  SumTable(f, R)[s] = SumOf(f, s)
  <2>1. Cardinality(s) \in Nat
    BY <1>0
  <2>2. Same(Cardinality(s))
    BY <1>2, <2>1
  <2> QED
    BY <2>2
<1> QED
  BY <1>3

\* A sum is the chosen element's value and the sum of the others.
LEMMA SumPick ==
  ASSUME NEW f, NEW S, IsFiniteSet(S)
  PROVE  /\ S = {} => SumOf(f, S) = 0
         /\ S # {} => SumOf(f, S) = f[Pick(S)] + SumOf(f, S \ {Pick(S)})
<1>1. SumTable(f, S) = SumStep(f, S, SumTable(f, S)) /\ SumOf(f, S) = SumTable(f, S)[S]
  BY TableIs, SumIsTable
<1>2. S = {} => SumOf(f, S) = 0
  BY <1>1 DEF SumStep
<1>3. ASSUME S # {} PROVE SumOf(f, S) = f[Pick(S)] + SumTable(f, S)[S \ {Pick(S)}]
  BY <1>1, <1>3 DEF SumStep
<1>4. S \in SUBSET S /\ S \ {Pick(S)} \in SUBSET S
  OBVIOUS
<1>5. SumTable(f, S)[S \ {Pick(S)}] = SumOf(f, S \ {Pick(S)})
  BY <1>4, TablesAgree
<1> QED
  BY <1>2, <1>3, <1>5

\* Whichever element is taken away: x + (y + c) = y + (x + c) is all a sum needs.
LEMMA SumAdd ==
  ASSUME NEW U, IsFiniteSet(U), NEW f, \A u \in U : f[u] \in Int
  PROVE  /\ \A S \in SUBSET U : SumOf(f, S) \in Int
         /\ \A S \in SUBSET U : \A x \in U \ S : SumOf(f, S \cup {x}) = f[x] + SumOf(f, S)
<1> DEFINE Fine(S) == /\ SumOf(f, S) \in Int
                      /\ \A x \in U \ S : SumOf(f, S \cup {x}) = f[x] + SumOf(f, S)
           Good == {d \in Nat : \A S \in SUBSET U : Cardinality(S) = d => Fine(S)}
<1>0. \A s \in SUBSET U : IsFiniteSet(s) /\ Cardinality(s) \in Nat
  BY SmallerSet
<1>1. ASSUME NEW d \in Nat, \A m \in Nat : m < d => m \in Good
      PROVE  d \in Good
  <2> SUFFICES ASSUME NEW S \in SUBSET U, Cardinality(S) = d
               PROVE  Fine(S)
    OBVIOUS
  <2>0. IsFiniteSet(S)
    BY <1>0
  <2>a. \A T \in SUBSET S : T # S => Fine(T)
    <3> SUFFICES ASSUME NEW T \in SUBSET S, T # S PROVE Fine(T)
      OBVIOUS
    <3>1. Cardinality(T) < d /\ Cardinality(T) \in Nat /\ T \in SUBSET U
      BY <2>0, <1>0, FS_Subset
    <3>2. Cardinality(T) \in Good
      <4> HIDE DEF Good
      <4> QED
        BY <1>1, <3>1
    <3> HIDE DEF Fine
    <3> QED
      BY <3>1, <3>2
  <2>1. SumOf(f, S) \in Int
    <3>1. CASE S = {}
      BY <2>0, <3>1, SumPick
    <3>2. CASE S # {}
      <4>1. Pick(S) \in S
        BY <2>0, <3>2, SmallerSet
      <4>2. SumOf(f, S \ {Pick(S)}) \in Int
        BY <2>a, <4>1
      <4> QED
        BY <2>0, <3>2, <4>1, <4>2, SumPick
    <3> QED
      BY <3>1, <3>2
  <2>2. ASSUME NEW x \in U \ S
        PROVE  SumOf(f, S \cup {x}) = f[x] + SumOf(f, S)
    <3> DEFINE A == S \cup {x}
               y == Pick(A)
               T == S \ {y}
    <3>0. IsFiniteSet(A) /\ A # {} /\ A \in SUBSET U
      BY <2>0, FS_AddElement
    <3>1. y \in A /\ SumOf(f, A) = f[y] + SumOf(f, A \ {y})
      <4> HIDE DEF A
      <4>1. A \in SUBSET A
        OBVIOUS
      <4>2. y \in A
        BY <3>0, <4>1, SmallerSet
      <4> QED
        BY <3>0, <4>2, SumPick
    <3>2. CASE y = x
      <4>1. A \ {y} = S
        BY <3>2
      <4> HIDE DEF y, A
      <4> QED
        BY <3>1, <3>2, <4>1 DEF A
    <3>3. CASE y # x
      <4> HIDE DEF y
      <4>1. y \in S /\ A \ {y} = T \cup {x} /\ S = T \cup {y} /\ x \in U \ T /\ y \in U \ T
        BY <3>1, <3>3
      <4>2. T \in SUBSET S /\ T # S
        BY <4>1
      <4> HIDE DEF A, T
      <4>3. Fine(T)
        BY <2>a, <4>2
      <4>4. SumOf(f, A \ {y}) = f[x] + SumOf(f, T) /\ SumOf(f, S) = f[y] + SumOf(f, T)
        BY <4>1, <4>3
      <4>5. f[x] \in Int /\ f[y] \in Int /\ SumOf(f, T) \in Int
        BY <4>1, <4>3
      <4>6. SumOf(f, A) = f[x] + SumOf(f, S)
        BY <3>1, <4>4, <4>5
      <4> QED
        BY <4>6 DEF A
    <3> QED
      BY <3>2, <3>3
  <2> QED
    BY <2>1, <2>2
<1>2. Good = Nat
  <2>1. Good \in SUBSET Nat
    OBVIOUS
  <2> HIDE DEF Good
  <2> QED
    BY <1>1, <2>1, Reached
<1>3. ASSUME NEW S \in SUBSET U PROVE Fine(S)
  <2>1. Cardinality(S) \in Nat
    BY <1>0
  <2> HIDE DEF Fine
  <2> QED
    BY <1>2, <2>1
<1> QED
  BY <1>3

\* Sums of disjoint sets add up.
LEMMA SumUnion ==
  ASSUME NEW U, IsFiniteSet(U), NEW f, \A u \in U : f[u] \in Int,
         NEW S \in SUBSET U, NEW T \in SUBSET U, S \cap T = {}
  PROVE  SumOf(f, S \cup T) = SumOf(f, S) + SumOf(f, T)
<1> DEFINE Fine(R) == SumOf(f, S \cup R) = SumOf(f, S) + SumOf(f, R)
           Good == {d \in Nat : \A R \in SUBSET T : Cardinality(R) = d => Fine(R)}
<1>0. /\ IsFiniteSet(T) /\ \A s \in SUBSET T : IsFiniteSet(s) /\ Cardinality(s) \in Nat
      /\ SumOf(f, S) \in Int
  BY SmallerSet, SumAdd
<1>a. /\ \A R \in SUBSET U : SumOf(f, R) \in Int
      /\ \A R \in SUBSET U : \A x \in U \ R : SumOf(f, R \cup {x}) = f[x] + SumOf(f, R)
  BY SumAdd
<1>1. ASSUME NEW d \in Nat, \A m \in Nat : m < d => m \in Good
      PROVE  d \in Good
  <2> SUFFICES ASSUME NEW R \in SUBSET T, Cardinality(R) = d
               PROVE  Fine(R)
    OBVIOUS
  <2>0. IsFiniteSet(R)
    BY <1>0
  <2>1. CASE R = {}
    <3>1. S \cup R = S /\ SumOf(f, R) = 0
      BY <2>0, <2>1, SumPick
    <3> QED
      BY <1>0, <3>1
  <2>2. CASE R # {}
    <3> DEFINE x == Pick(R)
               Q == R \ {x}
    <3>1. x \in R /\ Q \in SUBSET T /\ Cardinality(Q) \in Nat /\ Cardinality(Q) < d
      BY <1>0, <2>0, <2>2, SmallerSet
    <3>2. SumOf(f, R) = f[x] + SumOf(f, Q)
      BY <2>0, <2>2, SumPick
    <3>3. Fine(Q)
      <4>1. Cardinality(Q) \in Good
        <5> HIDE DEF Good, Q
        <5> QED
          BY <1>1, <3>1
      <4> HIDE DEF Q, Fine
      <4> QED
        BY <3>1, <4>1
    <3> HIDE DEF x
    <3>4. /\ S \cup R = (S \cup Q) \cup {x} /\ S \cup Q \in SUBSET U
          /\ x \in U \ (S \cup Q) /\ Q \in SUBSET U
      BY <3>1
    <3> HIDE DEF Q
    <3>5. SumOf(f, (S \cup Q) \cup {x}) = f[x] + SumOf(f, S \cup Q)
      BY <3>4, <1>a
    <3>6. SumOf(f, Q) \in Int
      BY <3>4, <1>a
    <3>7. f[x] \in Int
      BY <3>4
    <3>8. SumOf(f, S \cup Q) = SumOf(f, S) + SumOf(f, Q) /\ SumOf(f, S) \in Int
      BY <1>0, <3>3
    <3>9. SumOf(f, (S \cup Q) \cup {x}) = SumOf(f, S) + SumOf(f, R)
      BY <3>2, <3>5, <3>6, <3>7, <3>8
    <3>10. SumOf(f, S \cup R) = SumOf(f, S) + SumOf(f, R)
      BY <3>4, <3>9
    <3> QED
      BY <3>10
  <2> QED
    BY <2>1, <2>2
<1>2. Good = Nat
  <2>1. Good \in SUBSET Nat
    OBVIOUS
  <2> HIDE DEF Good
  <2> QED
    BY <1>1, <2>1, Reached
<1>3. Fine(T)
  <2>1. Cardinality(T) \in Nat
    BY <1>0
  <2> HIDE DEF Fine
  <2> QED
    BY <1>2, <2>1
<1> QED
  BY <1>3

\* Only the values at the elements matter.
LEMMA SumSame ==
  ASSUME NEW S, IsFiniteSet(S), NEW f, NEW g, \A x \in S : f[x] = g[x]
  PROVE  SumOf(f, S) = SumOf(g, S)
<1> DEFINE Good == {d \in Nat : \A R \in SUBSET S : Cardinality(R) = d => SumOf(f, R) = SumOf(g, R)}
<1>0. \A s \in SUBSET S : IsFiniteSet(s) /\ Cardinality(s) \in Nat
  BY SmallerSet
<1>1. ASSUME NEW d \in Nat, \A m \in Nat : m < d => m \in Good
      PROVE  d \in Good
  <2> SUFFICES ASSUME NEW R \in SUBSET S, Cardinality(R) = d
               PROVE  SumOf(f, R) = SumOf(g, R)
    OBVIOUS
  <2>0. IsFiniteSet(R)
    BY <1>0
  <2>1. CASE R = {}
    BY <2>0, <2>1, SumPick
  <2>2. CASE R # {}
    <3> DEFINE x == Pick(R)
               Q == R \ {x}
    <3>1. x \in R /\ Q \in SUBSET S /\ Cardinality(Q) \in Nat /\ Cardinality(Q) < d
      BY <1>0, <2>0, <2>2, SmallerSet
    <3>2. SumOf(f, R) = f[x] + SumOf(f, Q) /\ SumOf(g, R) = g[x] + SumOf(g, Q)
      BY <2>0, <2>2, SumPick
    <3> HIDE DEF Q, x
    <3>3. Cardinality(Q) \in Good
      <4> HIDE DEF Good
      <4> QED
        BY <1>1, <3>1
    <3>4. SumOf(f, Q) = SumOf(g, Q) /\ f[x] = g[x]
      BY <3>1, <3>3
    <3> QED
      BY <3>2, <3>4
  <2> QED
    BY <2>1, <2>2
<1>2. Good = Nat
  <2>1. Good \in SUBSET Nat
    OBVIOUS
  <2> HIDE DEF Good
  <2> QED
    BY <1>1, <2>1, Reached
<1> QED
  BY <1>0, <1>2

\* A sum of numbers that are not negative is not, and a part of it is no more.
LEMMA SumGrows ==
  ASSUME NEW S, IsFiniteSet(S), NEW f, \A x \in S : f[x] \in Nat, NEW T \in SUBSET S
  PROVE  /\ SumOf(f, S) \in Nat /\ SumOf(f, T) \in Nat
         /\ SumOf(f, T) <= SumOf(f, S)
<1> DEFINE Good == {d \in Nat : \A R \in SUBSET S : Cardinality(R) = d => SumOf(f, R) \in Nat}
<1>0. \A s \in SUBSET S : IsFiniteSet(s) /\ Cardinality(s) \in Nat
  BY SmallerSet
<1>1. ASSUME NEW d \in Nat, \A m \in Nat : m < d => m \in Good
      PROVE  d \in Good
  <2> SUFFICES ASSUME NEW R \in SUBSET S, Cardinality(R) = d
               PROVE  SumOf(f, R) \in Nat
    OBVIOUS
  <2>0. IsFiniteSet(R)
    BY <1>0
  <2>1. CASE R = {}
    <3>1. SumOf(f, R) = 0
      BY <2>0, <2>1, SumPick
    <3> QED
      BY <3>1
  <2>2. CASE R # {}
    <3> DEFINE x == Pick(R)
               Q == R \ {x}
    <3>1. x \in R /\ Q \in SUBSET S /\ Cardinality(Q) \in Nat /\ Cardinality(Q) < d
      BY <1>0, <2>0, <2>2, SmallerSet
    <3>2. SumOf(f, R) = f[x] + SumOf(f, Q)
      BY <2>0, <2>2, SumPick
    <3> HIDE DEF Q, x
    <3>3. Cardinality(Q) \in Good
      <4> HIDE DEF Good
      <4> QED
        BY <1>1, <3>1
    <3>4. SumOf(f, Q) \in Nat /\ f[x] \in Nat
      BY <3>1, <3>3
    <3> QED
      BY <3>2, <3>4
  <2> QED
    BY <2>1, <2>2
<1>2. Good = Nat
  <2>1. Good \in SUBSET Nat
    OBVIOUS
  <2> HIDE DEF Good
  <2> QED
    BY <1>1, <2>1, Reached
<1>3. \A R \in SUBSET S : SumOf(f, R) \in Nat
  BY <1>0, <1>2
<1>4. /\ T \cap (S \ T) = {} /\ T \cup (S \ T) = S /\ S \ T \in SUBSET S /\ S \in SUBSET S
      /\ \A x \in S : f[x] \in Int
  OBVIOUS
<1>5. SumOf(f, T \cup (S \ T)) = SumOf(f, T) + SumOf(f, S \ T)
  BY <1>4, SumUnion
<1>6. SumOf(f, S) = SumOf(f, T) + SumOf(f, S \ T)
  BY <1>4, <1>5
<1> QED
  BY <1>3, <1>4, <1>6

\* h[j] is the sum of the first j values of f after position a.
PrefixSums(h, f, a, m) ==
  /\ h[0] = 0 /\ \A j \in 0 .. m : h[j] \in Int
  /\ \A j \in 0 .. m : j < m => h[j + 1] = h[j] + f[a + j + 1]

\* The sum over an interval is the last of them.
LEMMA SumInterval ==
  ASSUME NEW a \in Int, NEW m \in Nat, NEW f, \A i \in a + 1 .. a + m : f[i] \in Int,
         NEW h, PrefixSums(h, f, a, m)
  PROVE  SumOf(f, a + 1 .. a + m) = h[m]
<1> DEFINE I(d) == a + 1 .. a + d
           Good == {d \in Nat : d <= m => SumOf(f, I(d)) = h[d]}
<1>1. ASSUME NEW d \in Nat, \A n \in Nat : n < d => n \in Good
      PROVE  d \in Good
  <2> SUFFICES ASSUME d <= m PROVE SumOf(f, I(d)) = h[d]
    OBVIOUS
  <2>1. CASE d = 0
    <3>1. I(d) = {}
      BY <2>1
    <3> QED
      BY <2>1, <3>1, SumPick, FS_EmptySet DEF PrefixSums
  <2>2. CASE d # 0
    <3>1. /\ I(d) = I(d - 1) \cup {a + d} /\ I(d - 1) \in SUBSET I(m)
          /\ a + d \in I(m) \ I(d - 1)
      BY <2>2
    <3>2. d - 1 \in Good
      <4> HIDE DEF Good
      <4>1. d - 1 \in Nat /\ d - 1 < d
        BY <2>2
      <4> QED
        BY <1>1, <4>1
    <3>3. SumOf(f, I(d - 1)) = h[d - 1]
      BY <3>2
    <3>4. IsFiniteSet(I(m))
      BY FS_Interval
    <3>5. \A i \in I(m) : f[i] \in Int
      OBVIOUS
    <3>6. h[d] = h[d - 1] + f[a + d]
      <4>1. d - 1 \in 0 .. m /\ d - 1 < m /\ (d - 1) + 1 = d /\ a + (d - 1) + 1 = a + d
        BY <2>2
      <4> QED
        BY <4>1 DEF PrefixSums
    <3>7. f[a + d] \in Int /\ h[d - 1] \in Int
      BY <2>2 DEF PrefixSums
    <3> HIDE DEF I
    <3>8. SumOf(f, I(d)) = f[a + d] + SumOf(f, I(d - 1))
      BY <3>1, <3>4, <3>5, SumAdd
    <3> QED
      BY <3>3, <3>6, <3>7, <3>8
  <2> QED
    BY <2>1, <2>2
<1>2. Good = Nat
  <2>1. Good \in SUBSET Nat
    OBVIOUS
  <2> HIDE DEF Good
  <2> QED
    BY <1>1, <2>1, Reached
<1>3. m \in Good
  BY <1>2
<1> QED
  BY <1>3
-----------------------------------------------------------------------------
(***************************************************************************)
(* The binary search of prune().                                           *)
(***************************************************************************)

\* The ranges that it may look at.
Ranges(n) == (0 .. n) \X (0 .. n)

\* The table of its results: one application of its definition to a table g, and
\* the recursive function.
SearchStep(es, cutoff, g) ==
  [r \in Ranges(Len(es)) |->
     IF r[1] >= r[2] THEN r[1]
     ELSE IF es[Mid(r) + 1].time < cutoff THEN g[<<Mid(r) + 1, r[2]>>] ELSE g[<<r[1], Mid(r)>>]]
SearchTable(es, cutoff) == CHOOSE g : g = SearchStep(es, cutoff, g)

\* Its result is an entry of the table.
LEMMA SearchIsTable ==
  ASSUME NEW es, NEW cutoff
  PROVE  Search(es, cutoff) = SearchTable(es, cutoff)[<<0, Len(es)>>]
  BY DEF Search, SearchTable, SearchStep, Ranges

\* A range that is not empty is halved.
LEMMA MidOfRange ==
  ASSUME NEW n \in Nat, NEW r \in Ranges(n), r[1] < r[2]
  PROVE  /\ Mid(r) \in r[1] .. r[2] - 1 /\ r[1] \in Nat /\ r[2] \in Nat /\ Mid(r) \in Nat
         /\ <<Mid(r) + 1, r[2]>> \in Ranges(n) /\ <<r[1], Mid(r)>> \in Ranges(n)
<1>1. r[1] \in 0 .. n /\ r[2] \in 0 .. n
  BY DEF Ranges
<1>2. Mid(r) \in r[1] .. r[2] - 1
  BY <1>1 DEF Mid
<1>3. Mid(r) \in 0 .. n /\ Mid(r) + 1 \in 0 .. n
  BY <1>1, <1>2
<1> QED
  BY <1>1, <1>2, <1>3 DEF Ranges

\* The search ends: its table exists, and is what its definition says.
LEMMA SearchDefined ==
  ASSUME NEW es, NEW cutoff, Len(es) \in Nat
  PROVE  SearchTable(es, cutoff) = SearchStep(es, cutoff, SearchTable(es, cutoff))
<1> DEFINE n == Len(es)
           Size(r) == IF r[1] >= r[2] THEN 0 ELSE r[2] - r[1]
           Upto(g, d) == \A r \in Ranges(n) : Size(r) <= d => g[r] = SearchStep(es, cutoff, g)[r]
           Good == {d \in Nat : \E g : Upto(g, d)}
<1>0. \A r \in Ranges(n) : r[1] \in 0 .. n /\ r[2] \in 0 .. n /\ Size(r) \in 0 .. n
  BY DEF Ranges
<1> HIDE DEF Upto
<1>1. ASSUME NEW d \in Nat, \A m \in Nat : m < d => m \in Good
      PROVE  d \in Good
  <2>1. \E g : \A r \in Ranges(n) : Size(r) < d => g[r] = SearchStep(es, cutoff, g)[r]
    <3>1. CASE d = 0
      <4>1. \A r \in Ranges(n) : ~(Size(r) < d)
        BY <3>1, <1>0
      <4> HIDE DEF Size
      <4> QED
        BY <4>1
    <3>2. CASE d # 0
      <4>1. d - 1 \in Nat /\ d - 1 < d
        BY <3>2
      <4>2. d - 1 \in Good
        <5> HIDE DEF Good
        <5> QED
          BY <1>1, <4>1
      <4>3. PICK g : Upto(g, d - 1)
        BY <4>2
      <4>4. \A r \in Ranges(n) : Size(r) < d => Size(r) <= d - 1
        BY <1>0
      <4> HIDE DEF Size
      <4> QED
        BY <4>3, <4>4 DEF Upto
    <3> QED
      BY <3>1, <3>2
  <2>2. PICK g : \A r \in Ranges(n) : Size(r) < d => g[r] = SearchStep(es, cutoff, g)[r]
    BY <2>1
  <2> DEFINE nx == SearchStep(es, cutoff, g)
  <2>3. ASSUME NEW r \in Ranges(n), Size(r) <= d
        PROVE  nx[r] = SearchStep(es, cutoff, nx)[r]
    <3>1. CASE r[1] >= r[2]
      BY <3>1 DEF SearchStep
    <3>2. CASE ~(r[1] >= r[2])
      <4> DEFINE hi == <<Mid(r) + 1, r[2]>>
                 lo == <<r[1], Mid(r)>>
      <4>1. r[1] \in Nat /\ r[2] \in Nat /\ r[1] < r[2]
        BY <3>2, <1>0
      <4>2. /\ Mid(r) \in r[1] .. r[2] - 1 /\ Mid(r) \in Nat
            /\ hi \in Ranges(n) /\ lo \in Ranges(n)
        BY <4>1, MidOfRange
      <4>3. Size(r) = r[2] - r[1]
        BY <4>1
      <4>4. Size(hi) < d /\ Size(lo) < d
        BY <2>3, <4>1, <4>2, <4>3
      <4> HIDE DEF Size
      <4>5. nx[hi] = g[hi] /\ nx[lo] = g[lo]
        BY <4>2, <4>4, <2>2
      <4>6. nx[r] = IF es[Mid(r) + 1].time < cutoff THEN g[hi] ELSE g[lo]
        BY <3>2 DEF SearchStep
      <4>7. SearchStep(es, cutoff, nx)[r] = IF es[Mid(r) + 1].time < cutoff THEN nx[hi] ELSE nx[lo]
        BY <3>2 DEF SearchStep
      <4> HIDE DEF hi, lo, nx
      <4> QED
        BY <4>5, <4>6, <4>7
    <3> QED
      BY <3>1, <3>2
  <2> HIDE DEF nx, Size
  <2>5. Upto(nx, d)
    BY <2>3 DEF Upto
  <2> QED
    BY <2>5
<1>2. Good = Nat
  <2>1. Good \in SUBSET Nat
    OBVIOUS
  <2> HIDE DEF Good
  <2> QED
    BY <1>1, <2>1, Reached
<1>3. PICK g : Upto(g, n)
  BY <1>2
<1>4. \A r \in Ranges(n) : g[r] = SearchStep(es, cutoff, g)[r]
  <2>1. \A r \in Ranges(n) : Size(r) <= n
    BY <1>0
  <2> HIDE DEF Size
  <2> QED
    BY <1>3, <2>1 DEF Upto
<1> DEFINE h == [r \in Ranges(n) |-> g[r]]
<1>5. h = SearchStep(es, cutoff, h)
  <2>1. ASSUME NEW r \in Ranges(n)
        PROVE  h[r] = SearchStep(es, cutoff, h)[r]
    <3>0. h[r] = SearchStep(es, cutoff, g)[r]
      BY <1>4
    <3>1. CASE r[1] >= r[2]
      BY <3>0, <3>1 DEF SearchStep
    <3>2. CASE ~(r[1] >= r[2])
      <4>1. r[1] < r[2]
        BY <3>2, <1>0
      <4>2. <<Mid(r) + 1, r[2]>> \in Ranges(n) /\ <<r[1], Mid(r)>> \in Ranges(n)
        BY <4>1, MidOfRange
      <4>3. h[<<Mid(r) + 1, r[2]>>] = g[<<Mid(r) + 1, r[2]>>] /\ h[<<r[1], Mid(r)>>] = g[<<r[1], Mid(r)>>]
        BY <4>2
      <4> HIDE DEF h
      <4> QED
        BY <3>0, <3>2, <4>3 DEF SearchStep
    <3> QED
      BY <3>1, <3>2
  <2>2. h = [r \in Ranges(n) |-> h[r]]
    OBVIOUS
  <2> HIDE DEF h
  <2> QED
    BY <2>1, <2>2 DEF SearchStep
<1>6. \E t : t = SearchStep(es, cutoff, t)
  BY <1>5
<1> QED
  BY <1>6 DEF SearchTable

\* What a history holds, in the order of its times.
Entry == [time: Int, weight: Nat]
Sorted(es) == \A i, j \in 1 .. Len(es) : i <= j => es[i].time <= es[j].time

\* What the binary search finds: how many entries are before the cutoff, as
\* long as the entries are in the order of their times.
LEMMA SearchCounts ==
  ASSUME NEW es \in Seq(Entry), Sorted(es), NEW cutoff \in Int
  PROVE  /\ Search(es, cutoff) \in 0 .. Len(es)
         /\ \A i \in 1 .. Len(es) : i <= Search(es, cutoff) <=> es[i].time < cutoff
<1> DEFINE n == Len(es)
           t == SearchTable(es, cutoff)
           Around(r) == /\ r[1] <= r[2]
                        /\ \A i \in 1 .. n : i <= r[1] => es[i].time < cutoff
                        /\ \A i \in 1 .. n : i > r[2] => es[i].time >= cutoff
           Found(k) == k \in 0 .. n /\ \A i \in 1 .. n : i <= k <=> es[i].time < cutoff
           Good == {d \in Nat : \A r \in Ranges(n) : Around(r) /\ r[2] - r[1] = d => Found(t[r])}
<1>0. n \in Nat /\ \A i \in 1 .. n : es[i].time \in Int
  <2>1. n \in Nat /\ \A i \in 1 .. n : es[i] \in Entry
    OBVIOUS
  <2>2. \A x \in Entry : x.time \in Int
    BY DEF Entry
  <2> QED
    BY <2>1, <2>2
<1>1. t = SearchStep(es, cutoff, t)
  BY <1>0, SearchDefined
<1> HIDE DEF t
<1>2. ASSUME NEW d \in Nat, \A m \in Nat : m < d => m \in Good
      PROVE  d \in Good
  <2> SUFFICES ASSUME NEW r \in Ranges(n), Around(r), r[2] - r[1] = d
               PROVE  Found(t[r])
    OBVIOUS
  <2>0. r[1] \in 0 .. n /\ r[2] \in 0 .. n /\ r[1] <= r[2]
    BY DEF Ranges
  <2>1. CASE r[1] >= r[2]
    <3>1. t[r] = r[1] /\ r[1] = r[2]
      BY <1>1, <2>0, <2>1 DEF SearchStep
    <3>2. \A i \in 1 .. n : i <= r[1] <=> es[i].time < cutoff
      BY <1>0, <2>0, <3>1
    <3> QED
      BY <2>0, <3>1, <3>2
  <2>2. CASE ~(r[1] >= r[2])
    <3> DEFINE hi == <<Mid(r) + 1, r[2]>>
               lo == <<r[1], Mid(r)>>
    <3>1. r[1] < r[2]
      BY <2>0, <2>2
    <3>2. /\ Mid(r) \in r[1] .. r[2] - 1 /\ Mid(r) \in Nat
          /\ hi \in Ranges(n) /\ lo \in Ranges(n)
      BY <1>0, <3>1, MidOfRange
    <3>3. t[r] = IF es[Mid(r) + 1].time < cutoff THEN t[hi] ELSE t[lo]
      BY <1>1, <2>2 DEF SearchStep
    <3>4. Mid(r) + 1 \in 1 .. n
      BY <2>0, <3>2
    <3>s. /\ \A i \in 1 .. n : i <= Mid(r) + 1 => es[i].time <= es[Mid(r) + 1].time
          /\ \A i \in 1 .. n : i > Mid(r) => es[i].time >= es[Mid(r) + 1].time
      BY <1>0, <3>2, <3>4 DEF Sorted
    <3>5. CASE es[Mid(r) + 1].time < cutoff
      <4>1. hi[1] = Mid(r) + 1 /\ hi[2] = r[2]
        OBVIOUS
      <4>2. \A i \in 1 .. n : i <= Mid(r) + 1 => es[i].time < cutoff
        BY <1>0, <3>4, <3>5, <3>s
      <4>3. Around(hi)
        BY <2>0, <3>2, <4>1, <4>2
      <4>4. hi[2] - hi[1] \in Nat /\ hi[2] - hi[1] < d
        BY <2>0, <3>2, <4>1
      <4> HIDE DEF hi, Around, Found
      <4>5. Found(t[hi])
        BY <1>2, <3>2, <4>3, <4>4
      <4> QED
        BY <3>3, <3>5, <4>5
    <3>6. CASE ~(es[Mid(r) + 1].time < cutoff)
      <4>1. lo[1] = r[1] /\ lo[2] = Mid(r)
        OBVIOUS
      <4>2. \A i \in 1 .. n : i > Mid(r) => es[i].time >= cutoff
        BY <1>0, <3>4, <3>6, <3>s
      <4>3. Around(lo)
        BY <2>0, <3>2, <4>1, <4>2
      <4>4. lo[2] - lo[1] \in Nat /\ lo[2] - lo[1] < d
        BY <2>0, <3>2, <4>1
      <4> HIDE DEF lo, Around, Found
      <4>5. Found(t[lo])
        BY <1>2, <3>2, <4>3, <4>4
      <4> QED
        BY <3>3, <3>6, <4>5
    <3> QED
      BY <3>5, <3>6
  <2> QED
    BY <2>1, <2>2
<1>3. Good = Nat
  <2>1. Good \in SUBSET Nat
    OBVIOUS
  <2> HIDE DEF Good
  <2> QED
    BY <1>2, <2>1, Reached
<1>4. Found(t[<<0, n>>])
  <2> DEFINE w == <<0, n>>
  <2>1. w \in Ranges(n) /\ w[1] = 0 /\ w[2] = n /\ w[2] - w[1] \in Nat
    BY <1>0 DEF Ranges
  <2>2. Around(w)
    BY <1>0, <2>1
  <2> HIDE DEF w, Around, Found
  <2>3. Found(t[w])
    BY <1>3, <2>1, <2>2
  <2> QED
    BY <2>3 DEF w
<1> QED
  BY <1>4, SearchIsTable DEF t

-----------------------------------------------------------------------------
\* What follows the first k of a sequence.
Rest(es, k) == SubSeq(es, k + 1, Len(es))

\* The weights of a sequence of entries.
Weights(es) == [i \in DOMAIN es |-> es[i].weight]

\* `part` is the entries of `all` from the one after position k on.
TailAfter(part, all, k) ==
  /\ Len(all) = k + Len(part)
  /\ \A i \in 1 .. Len(part) : part[i] = all[k + i]

\* What the limiter holds are the last requests it admitted, in the order of
\* their times, and those it no longer holds are out of the window.
RequestsHold(es, s, all) ==
  /\ es \in Seq(Entry) /\ all \in Seq(Entry) /\ Sorted(es)
  /\ \A i \in 1 .. Len(es) : es[i].time <= time
  /\ s = Total(es) /\ s <= Limit
  /\ \E k \in 0 .. Len(all) :
       TailAfter(es, all, k) /\ \A i \in 1 .. k : all[i].time < time - Window

\* The same for the failures, of which there are no more than allowed.
LoginsHold(fs, all) ==
  /\ fs \in Seq(Int) /\ all \in Seq(Int)
  /\ \A i, j \in 1 .. Len(fs) : i <= j => fs[i] <= fs[j]
  /\ \A i \in 1 .. Len(fs) : fs[i] <= time
  /\ Len(fs) <= MaxFailures
  /\ \E k \in 0 .. Len(all) :
       TailAfter(fs, all, k) /\ \A i \in 1 .. k : all[i] < time - Window

\* The inductive invariant of the two windows.
WindowInv == time \in Nat /\ RequestsHold(entries, sum, admitted) /\ LoginsHold(failures, compared)

\* The weights are numbers.
LEMMA WeightsAre ==
  ASSUME NEW es \in Seq(Entry)
  PROVE  /\ Len(es) \in Nat /\ DOMAIN es = 1 .. Len(es) /\ IsFiniteSet(1 .. Len(es))
         /\ \A i \in 1 .. Len(es) : /\ es[i].time \in Int /\ Weights(es)[i] = es[i].weight
                                    /\ Weights(es)[i] \in Nat
         /\ Total(es) = SumOf(Weights(es), 1 .. Len(es)) /\ Total(es) \in Nat
<1>1. Len(es) \in Nat /\ DOMAIN es = 1 .. Len(es) /\ \A i \in 1 .. Len(es) : es[i] \in Entry
  OBVIOUS
<1>2. IsFiniteSet(1 .. Len(es))
  BY <1>1, FS_Interval
<1>3. \A x \in Entry : x.time \in Int /\ x.weight \in Nat
  BY DEF Entry
<1>4. \A i \in 1 .. Len(es) : /\ es[i].time \in Int /\ Weights(es)[i] = es[i].weight
                              /\ Weights(es)[i] \in Nat
  BY <1>1, <1>3 DEF Weights
<1>5. Total(es) = SumOf(Weights(es), DOMAIN es)
  BY DEF Total, Weights, SumOf, MapThenSumSet, MapThenFoldSet
<1>6. SumOf(Weights(es), 1 .. Len(es)) \in Nat
  BY <1>2, <1>4, SumGrows
<1> QED
  BY <1>1, <1>2, <1>4, <1>5, <1>6

\* What a part of a sequence weighs, counted where the part is.
LEMMA PartWeighs ==
  ASSUME NEW part \in Seq(Entry), NEW all \in Seq(Entry), NEW k \in Nat,
         k + Len(part) <= Len(all), \A i \in 1 .. Len(part) : part[i] = all[k + i]
  PROVE  Total(part) = SumOf(Weights(all), k + 1 .. k + Len(part))
<1> DEFINE m == Len(part)
           f == Weights(part)
           g == Weights(all)
           h == [j \in 0 .. m |-> SumOf(f, 1 .. j)]
<1>1. /\ m \in Nat /\ IsFiniteSet(1 .. m) /\ \A i \in 1 .. m : f[i] \in Int /\ f[i] = part[i].weight
      /\ Total(part) = SumOf(f, 1 .. m)
  BY WeightsAre
<1>2. \A i \in 1 .. Len(all) : g[i] \in Int /\ g[i] = all[i].weight
  BY WeightsAre
<1>3. \A i \in 1 .. m : k + i \in 1 .. Len(all) /\ g[k + i] = f[i]
  <2> SUFFICES ASSUME NEW i \in 1 .. m PROVE k + i \in 1 .. Len(all) /\ g[k + i] = f[i]
    OBVIOUS
  <2>1. Len(all) \in Nat /\ k + i \in 1 .. Len(all)
    BY <1>1
  <2> QED
    BY <1>1, <1>2, <2>1
<1> HIDE DEF f, g
<1>4. /\ \A S \in SUBSET (1 .. m) : SumOf(f, S) \in Int
      /\ \A S \in SUBSET (1 .. m) : \A x \in (1 .. m) \ S : SumOf(f, S \cup {x}) = f[x] + SumOf(f, S)
  <2> DEFINE U == 1 .. m
  <2>1. IsFiniteSet(U) /\ \A u \in U : f[u] \in Int
    BY <1>1
  <2> HIDE DEF U
  <2>2. /\ \A S \in SUBSET U : SumOf(f, S) \in Int
        /\ \A S \in SUBSET U : \A x \in U \ S : SumOf(f, S \cup {x}) = f[x] + SumOf(f, S)
    BY <2>1, SumAdd
  <2> QED
    BY <2>2 DEF U
<1>5. h[0] = 0 /\ \A j \in 0 .. m : h[j] \in Int /\ h[j] = SumOf(f, 1 .. j)
  <2>1. \A j \in 0 .. m : h[j] = SumOf(f, 1 .. j)
    OBVIOUS
  <2>2. \A j \in 0 .. m : 1 .. j \in SUBSET (1 .. m)
    BY <1>1
  <2>3. 1 .. 0 = {}
    OBVIOUS
  <2>4. SumOf(f, {}) = 0
    BY SumPick, FS_EmptySet
  <2> QED
    BY <1>1, <1>4, <2>1, <2>2, <2>3, <2>4
<1> HIDE DEF h
<1>6. ASSUME NEW j \in 0 .. m, j < m
      PROVE  h[j + 1] = h[j] + g[k + j + 1]
  <2>1. /\ 1 .. j \in SUBSET (1 .. m) /\ j + 1 \in (1 .. m) \ (1 .. j) /\ j + 1 \in 0 .. m
        /\ 1 .. (j + 1) = (1 .. j) \cup {j + 1} /\ k + (j + 1) = k + j + 1
    BY <1>1, <1>6
  <2>2. SumOf(f, 1 .. (j + 1)) = f[j + 1] + SumOf(f, 1 .. j)
    BY <1>4, <2>1
  <2>3. f[j + 1] \in Int /\ h[j] \in Int /\ h[j] = SumOf(f, 1 .. j) /\ h[j + 1] = SumOf(f, 1 .. (j + 1))
    BY <1>1, <1>5, <2>1
  <2>4. g[k + (j + 1)] = f[j + 1]
    BY <1>3, <2>1
  <2> QED
    BY <2>1, <2>2, <2>3, <2>4
<1>7. \A i \in k + 1 .. k + m : g[i] \in Int
  BY <1>1, <1>2
<1>8. SumOf(g, k + 1 .. k + m) = h[m]
  <2>1. PrefixSums(h, g, k, m)
    BY <1>5, <1>6 DEF PrefixSums
  <2>2. m \in Nat /\ k \in Int
    BY <1>1
  <2> HIDE DEF m
  <2> QED
    BY <1>7, <2>1, <2>2, SumInterval
<1> QED
  BY <1>1, <1>5, <1>8 DEF g

\* Cutting a sequence cuts its weight.
LEMMA TotalSplit ==
  ASSUME NEW es \in Seq(Entry), NEW k \in 0 .. Len(es)
  PROVE  /\ SubSeq(es, 1, k) \in Seq(Entry) /\ Rest(es, k) \in Seq(Entry)
         /\ Len(Rest(es, k)) = Len(es) - k
         /\ \A i \in 1 .. Len(es) - k : Rest(es, k)[i] = es[k + i]
         /\ Total(Rest(es, k)) = Total(es) - Total(SubSeq(es, 1, k))
         /\ Total(Rest(es, k)) <= Total(es)
<1> DEFINE p == SubSeq(es, 1, k)
           q == Rest(es, k)
           w == Weights(es)
<1>1. /\ p \in Seq(Entry) /\ Len(p) = k /\ \A i \in 1 .. k : p[i] = es[0 + i]
  OBVIOUS
<1>2. /\ q \in Seq(Entry) /\ Len(q) = Len(es) - k /\ \A i \in 1 .. Len(es) - k : q[i] = es[k + i]
  BY DEF Rest
<1> HIDE DEF p, q
<1>3. /\ Len(es) \in Nat /\ IsFiniteSet(1 .. Len(es)) /\ Total(es) = SumOf(w, 1 .. Len(es))
      /\ \A i \in 1 .. Len(es) : w[i] \in Int /\ w[i] \in Nat
      /\ Total(es) \in Nat /\ Total(p) \in Nat /\ Total(q) \in Nat
  BY <1>1, <1>2, WeightsAre
<1> HIDE DEF w
<1>4. Total(p) = SumOf(w, 0 + 1 .. 0 + Len(p))
  <2>1. 0 + Len(p) <= Len(es) /\ \A i \in 1 .. Len(p) : p[i] = es[0 + i]
    BY <1>1, <1>3
  <2> QED
    BY <1>1, <2>1, PartWeighs DEF w
<1>5. Total(q) = SumOf(w, k + 1 .. k + Len(q))
  <2>1. k \in Nat /\ k + Len(q) <= Len(es) /\ \A i \in 1 .. Len(q) : q[i] = es[k + i]
    BY <1>2, <1>3
  <2> QED
    BY <1>2, <2>1, PartWeighs DEF w
<1>6. /\ (0 + 1 .. 0 + Len(p)) \cap (k + 1 .. k + Len(q)) = {}
      /\ (0 + 1 .. 0 + Len(p)) \cup (k + 1 .. k + Len(q)) = 1 .. Len(es)
  BY <1>1, <1>2, <1>3
<1>7. SumOf(w, 1 .. Len(es)) = Total(p) + Total(q)
  <2> DEFINE A == 0 + 1 .. 0 + Len(p)
             B == k + 1 .. k + Len(q)
  <2>1. A \in SUBSET (1 .. Len(es)) /\ B \in SUBSET (1 .. Len(es)) /\ A \cap B = {} /\ A \cup B = 1 .. Len(es)
    BY <1>6
  <2>2. Total(p) = SumOf(w, A) /\ Total(q) = SumOf(w, B)
    BY <1>4, <1>5
  <2> HIDE DEF A, B
  <2>3. SumOf(w, A \cup B) = SumOf(w, A) + SumOf(w, B)
    BY <1>3, <2>1, SumUnion
  <2> QED
    BY <2>1, <2>2, <2>3
<1>8. Total(q) = Total(es) - Total(p) /\ Total(q) <= Total(es)
  BY <1>3, <1>7
<1> QED
  BY <1>1, <1>2, <1>8 DEF p, q

\* One entry more.
LEMMA TotalAppend ==
  ASSUME NEW es \in Seq(Entry), NEW e \in Entry
  PROVE  Append(es, e) \in Seq(Entry) /\ Total(Append(es, e)) = Total(es) + e.weight
<1> DEFINE a == Append(es, e)
           n == Len(es)
           w == Weights(a)
<1>1. /\ a \in Seq(Entry) /\ Len(a) = n + 1 /\ n \in Nat
      /\ \A i \in 1 .. n : es[i] = a[0 + i] /\ a[n + 1] = e
  OBVIOUS
<1>a. a[n + 1] = e
  OBVIOUS
<1> HIDE DEF a
<1>2. /\ IsFiniteSet(1 .. n + 1) /\ Total(a) = SumOf(w, 1 .. n + 1) /\ Total(es) \in Nat
      /\ \A i \in 1 .. n + 1 : w[i] \in Int /\ w[i] = a[i].weight
  BY <1>1, WeightsAre
<1> HIDE DEF w
<1>3. Total(es) = SumOf(w, 0 + 1 .. 0 + n)
  <2>1. 0 + Len(es) <= Len(a) /\ \A i \in 1 .. Len(es) : es[i] = a[0 + i]
    BY <1>1
  <2> QED
    BY <1>1, <2>1, PartWeighs DEF w
<1>4. /\ 0 + 1 .. 0 + n = 1 .. n /\ 1 .. n \in SUBSET (1 .. n + 1) /\ n + 1 \in (1 .. n + 1) \ (1 .. n)
      /\ (1 .. n) \cup {n + 1} = 1 .. n + 1
  BY <1>1
<1>5. SumOf(w, (1 .. n) \cup {n + 1}) = w[n + 1] + SumOf(w, 1 .. n) /\ SumOf(w, 1 .. n) \in Int
  <2> DEFINE U == 1 .. n + 1
             S == 1 .. n
  <2>1. IsFiniteSet(U) /\ (\A u \in U : w[u] \in Int) /\ S \in SUBSET U /\ n + 1 \in U \ S
    BY <1>2, <1>4
  <2> HIDE DEF U, S
  <2>2. SumOf(w, S \cup {n + 1}) = w[n + 1] + SumOf(w, S) /\ SumOf(w, S) \in Int
    BY <2>1, SumAdd
  <2> QED
    BY <2>2 DEF S
<1>6. w[n + 1] = e.weight /\ w[n + 1] \in Int
  BY <1>a, <1>2, <1>4
<1>7. Total(a) = Total(es) + e.weight
  <2>1. Total(es) = SumOf(w, 1 .. n)
    BY <1>3, <1>4
  <2>2. Total(a) = SumOf(w, (1 .. n) \cup {n + 1})
    BY <1>2, <1>4
  <2> QED
    BY <2>1, <2>2, <1>5, <1>6
<1> QED
  BY <1>1, <1>7 DEF a

\* What is left of a tail when its first j entries are dropped: a tail again.
TailLeft(S, es, all, k, j) ==
  /\ Rest(es, j) \in Seq(S) /\ k + j \in 0 .. Len(all)
  /\ Len(Rest(es, j)) = Len(es) - j
  /\ \A i \in 1 .. Len(es) - j : Rest(es, j)[i] = es[j + i]
  /\ TailAfter(Rest(es, j), all, k + j)
  /\ \A i \in 1 .. k + j : i <= k \/ (i - k \in 1 .. j /\ all[i] = es[i - k])

\* A tail and its whole with one entry more.
TailGrown(S, es, all, k, e) ==
  /\ Append(es, e) \in Seq(S) /\ Append(all, e) \in Seq(S)
  /\ k \in 0 .. Len(Append(all, e)) /\ TailAfter(Append(es, e), Append(all, e), k)
  /\ Len(Append(es, e)) = Len(es) + 1
  /\ \A i \in 1 .. Len(es) + 1 : Append(es, e)[i] = IF i <= Len(es) THEN es[i] ELSE e
  /\ \A i \in 1 .. k : Append(all, e)[i] = all[i]

\* A part of a part.
LEMMA TailOfTail ==
  ASSUME NEW S, NEW es \in Seq(S), NEW all \in Seq(S), NEW k \in 0 .. Len(all),
         TailAfter(es, all, k), NEW j \in 0 .. Len(es)
  PROVE  TailLeft(S, es, all, k, j)
<1> DEFINE q == Rest(es, j)
<1>1. q \in Seq(S) /\ Len(q) = Len(es) - j /\ \A i \in 1 .. Len(es) - j : q[i] = es[j + i]
  BY DEF Rest
<1> HIDE DEF q
<1>2. Len(es) \in Nat /\ Len(all) \in Nat /\ Len(all) = k + Len(es)
      /\ \A i \in 1 .. Len(es) : es[i] = all[k + i]
  BY DEF TailAfter
<1>3. \A i \in 1 .. Len(q) : q[i] = all[(k + j) + i]
  <2> SUFFICES ASSUME NEW i \in 1 .. Len(q) PROVE q[i] = all[(k + j) + i]
    OBVIOUS
  <2>1. j + i \in 1 .. Len(es) /\ k + (j + i) = (k + j) + i /\ i \in 1 .. Len(es) - j
    BY <1>1, <1>2
  <2> QED
    BY <1>1, <1>2, <2>1
<1>4. \A i \in 1 .. k + j : i <= k \/ (i - k \in 1 .. j /\ all[i] = es[i - k])
  <2> SUFFICES ASSUME NEW i \in 1 .. k + j, ~(i <= k) PROVE i - k \in 1 .. j /\ all[i] = es[i - k]
    OBVIOUS
  <2>1. i - k \in 1 .. j /\ i - k \in 1 .. Len(es) /\ k + (i - k) = i
    BY <1>2
  <2> QED
    BY <1>2, <2>1
<1>5. TailAfter(q, all, k + j) /\ k + j \in 0 .. Len(all)
  BY <1>1, <1>2, <1>3 DEF TailAfter
<1> QED
  BY <1>1, <1>4, <1>5 DEF q, TailLeft

\* One entry more at the end of both.
LEMMA TailAppend ==
  ASSUME NEW S, NEW es \in Seq(S), NEW all \in Seq(S), NEW k \in 0 .. Len(all),
         TailAfter(es, all, k), NEW e \in S
  PROVE  TailGrown(S, es, all, k, e)
<1> DEFINE a == Append(es, e)
           b == Append(all, e)
<1>1. /\ a \in Seq(S) /\ Len(a) = Len(es) + 1 /\ Len(es) \in Nat
      /\ \A i \in 1 .. Len(es) + 1 : a[i] = IF i <= Len(es) THEN es[i] ELSE e
  OBVIOUS
<1>2. /\ b \in Seq(S) /\ Len(b) = Len(all) + 1 /\ Len(all) \in Nat
      /\ \A i \in 1 .. Len(all) + 1 : b[i] = IF i <= Len(all) THEN all[i] ELSE e
  OBVIOUS
<1> HIDE DEF a, b
<1>3. Len(all) = k + Len(es) /\ \A i \in 1 .. Len(es) : es[i] = all[k + i]
  BY DEF TailAfter
<1>4. \A i \in 1 .. Len(a) : a[i] = b[k + i]
  <2> SUFFICES ASSUME NEW i \in 1 .. Len(a) PROVE a[i] = b[k + i]
    OBVIOUS
  <2>1. CASE i <= Len(es)
    <3>1. i \in 1 .. Len(es) /\ k + i \in 1 .. Len(all) + 1 /\ k + i <= Len(all)
      BY <1>1, <1>3, <2>1
    <3>2. a[i] = es[i] /\ b[k + i] = all[k + i]
      BY <1>1, <1>2, <2>1, <3>1
    <3> QED
      BY <1>3, <3>1, <3>2
  <2>2. CASE ~(i <= Len(es))
    <3>1. k + i \in 1 .. Len(all) + 1 /\ ~(k + i <= Len(all))
      BY <1>1, <1>3, <2>2
    <3> QED
      BY <1>1, <1>2, <2>2, <3>1
  <2> QED
    BY <2>1, <2>2
<1>5. TailAfter(a, b, k)
  <2>1. Len(b) = k + Len(a)
    BY <1>1, <1>2, <1>3
  <2> QED
    BY <1>4, <2>1 DEF TailAfter
<1>6. \A i \in 1 .. k : b[i] = all[i]
  BY <1>1, <1>2, <1>3
<1> QED
  BY <1>1, <1>2, <1>5, <1>6 DEF a, b, TailGrown

\* prune() of rate.ts keeps the sum right and drops only what is too old.
LEMMA PruneHolds ==
  ASSUME WindowAssumption, WindowInv
  PROVE  RequestsHold(PrunedEntries.entries, PrunedEntries.sum, admitted)
<1> DEFINE old == Search(entries, time - Window)
           q == Rest(entries, old)
<1>0. PrunedEntries.entries = q /\ PrunedEntries.sum = sum - Total(SubSeq(entries, 1, old))
  BY DEF PrunedEntries, Rest
<1>1. /\ entries \in Seq(Entry) /\ admitted \in Seq(Entry) /\ Sorted(entries) /\ time \in Nat
      /\ \A i \in 1 .. Len(entries) : entries[i].time <= time
      /\ sum = Total(entries) /\ sum <= Limit /\ Limit \in Nat /\ Window \in Nat
  BY DEF WindowInv, RequestsHold, WindowAssumption
<1>2. PICK k \in 0 .. Len(admitted) :
        TailAfter(entries, admitted, k) /\ \A i \in 1 .. k : admitted[i].time < time - Window
  BY DEF WindowInv, RequestsHold
<1>3. /\ old \in 0 .. Len(entries)
      /\ \A i \in 1 .. Len(entries) : i <= old <=> entries[i].time < time - Window
  <2>1. time - Window \in Int
    BY <1>1
  <2> QED
    BY <1>1, <2>1, SearchCounts
<1> HIDE DEF old
<1>4. /\ q \in Seq(Entry) /\ Len(q) = Len(entries) - old
      /\ \A i \in 1 .. Len(entries) - old : q[i] = entries[old + i]
      /\ Total(q) = Total(entries) - Total(SubSeq(entries, 1, old))
      /\ Total(q) <= Total(entries)
  BY <1>1, <1>3, TotalSplit
<1>5. /\ k + old \in 0 .. Len(admitted) /\ TailAfter(q, admitted, k + old)
      /\ \A i \in 1 .. k + old : i <= k \/ (i - k \in 1 .. old /\ admitted[i] = entries[i - k])
  <2>1. TailAfter(entries, admitted, k)
    BY <1>2
  <2>2. TailLeft(Entry, entries, admitted, k, old)
    BY <1>1, <1>3, <2>1, TailOfTail
  <2> QED
    BY <2>2 DEF TailLeft
<1> HIDE DEF q
<1>6. \A i \in 1 .. k + old : admitted[i].time < time - Window
  <2> SUFFICES ASSUME NEW i \in 1 .. k + old PROVE admitted[i].time < time - Window
    OBVIOUS
  <2>1. k \in Nat /\ Len(entries) \in Nat
    BY <1>1, <1>2
  <2>2. CASE i <= k
    BY <1>2, <2>1, <2>2
  <2>3. CASE ~(i <= k)
    <3>1. i - k \in 1 .. old /\ admitted[i] = entries[i - k]
      BY <1>5, <2>3
    <3>2. i - k \in 1 .. Len(entries) /\ i - k <= old
      BY <1>3, <2>1, <3>1
    <3> QED
      BY <1>3, <3>1, <3>2
  <2> QED
    BY <2>2, <2>3
<1>7. Sorted(q) /\ \A i \in 1 .. Len(q) : q[i].time <= time
  <2>1. Len(entries) \in Nat
    BY <1>1
  <2>2. \A i \in 1 .. Len(q) : old + i \in 1 .. Len(entries) /\ q[i] = entries[old + i]
    <3> SUFFICES ASSUME NEW i \in 1 .. Len(q)
                 PROVE  old + i \in 1 .. Len(entries) /\ q[i] = entries[old + i]
      OBVIOUS
    <3>1. i \in 1 .. Len(entries) - old /\ old + i \in 1 .. Len(entries)
      BY <1>3, <1>4, <2>1
    <3> QED
      BY <1>4, <3>1
  <2>3. ASSUME NEW i \in 1 .. Len(q), NEW j \in 1 .. Len(q), i <= j PROVE q[i].time <= q[j].time
    <3>1. old + i <= old + j
      BY <1>3, <1>4, <2>1, <2>3
    <3> QED
      BY <1>1, <2>2, <3>1 DEF Sorted
  <2> QED
    BY <1>1, <2>2, <2>3 DEF Sorted
<1>8. Total(q) <= Limit
  <2>1. Total(q) \in Nat /\ Total(entries) \in Nat
    BY <1>1, <1>4, WeightsAre
  <2> QED
    BY <1>1, <1>4, <2>1
<1>9. RequestsHold(q, Total(q), admitted)
  BY <1>1, <1>4, <1>5, <1>6, <1>7, <1>8 DEF RequestsHold
<1>10. PrunedEntries.entries = q /\ PrunedEntries.sum = Total(q)
  BY <1>0, <1>1, <1>4 DEF q
<1> QED
  BY <1>9, <1>10

\* check() records what it allows.
LEMMA AdmitHolds ==
  ASSUME WindowAssumption, time \in Nat, NEW es, NEW s, NEW w \in Nat,
         RequestsHold(es, s, admitted), s + w <= Limit
  PROVE  RequestsHold(Append(es, [time |-> time, weight |-> w]), s + w,
                      Append(admitted, [time |-> time, weight |-> w]))
<1> DEFINE e == [time |-> time, weight |-> w]
           a == Append(es, e)
           b == Append(admitted, e)
<1>0. e \in Entry /\ e.time = time /\ e.weight = w
  BY DEF Entry
<1> HIDE DEF e
<1>1. /\ es \in Seq(Entry) /\ admitted \in Seq(Entry) /\ Sorted(es) /\ s = Total(es)
      /\ \A i \in 1 .. Len(es) : es[i].time <= time
      /\ Len(es) \in Nat
  BY DEF RequestsHold
<1>2. PICK k \in 0 .. Len(admitted) :
        TailAfter(es, admitted, k) /\ \A i \in 1 .. k : admitted[i].time < time - Window
  BY DEF RequestsHold
<1>3. /\ a \in Seq(Entry) /\ b \in Seq(Entry) /\ k \in 0 .. Len(b) /\ TailAfter(a, b, k)
      /\ Len(a) = Len(es) + 1
      /\ \A i \in 1 .. Len(es) + 1 : a[i] = IF i <= Len(es) THEN es[i] ELSE e
      /\ \A i \in 1 .. k : b[i] = admitted[i]
  <2>1. TailAfter(es, admitted, k)
    BY <1>2
  <2>2. TailGrown(Entry, es, admitted, k, e)
    BY <1>0, <1>1, <2>1, TailAppend
  <2> QED
    BY <2>2 DEF TailGrown
<1>4. Total(a) = s + w
  BY <1>0, <1>1, TotalAppend
<1> HIDE DEF a, b
<1>5. \A i \in 1 .. Len(a) : a[i].time <= time
  <2> SUFFICES ASSUME NEW i \in 1 .. Len(a) PROVE a[i].time <= time
    OBVIOUS
  <2>1. CASE i <= Len(es)
    <3>1. i \in 1 .. Len(es) /\ a[i] = es[i]
      BY <1>1, <1>3, <2>1
    <3> QED
      BY <1>1, <3>1
  <2>2. CASE ~(i <= Len(es))
    <3>1. a[i] = e
      BY <1>1, <1>3, <2>2
    <3> QED
      BY <1>0, <3>1
  <2> QED
    BY <2>1, <2>2
<1>6. Sorted(a)
  <2> SUFFICES ASSUME NEW i \in 1 .. Len(a), NEW j \in 1 .. Len(a), i <= j
               PROVE  a[i].time <= a[j].time
    BY DEF Sorted
  <2>1. CASE j <= Len(es)
    <3>1. i \in 1 .. Len(es) /\ j \in 1 .. Len(es) /\ a[i] = es[i] /\ a[j] = es[j]
      BY <1>1, <1>3, <2>1
    <3> QED
      BY <1>1, <3>1 DEF Sorted
  <2>2. CASE ~(j <= Len(es))
    <3>1. a[j] = e
      BY <1>1, <1>3, <2>2
    <3> QED
      BY <1>0, <1>5, <3>1
  <2> QED
    BY <2>1, <2>2
<1>7. \A i \in 1 .. k : b[i].time < time - Window
  BY <1>2, <1>3
<1>8. RequestsHold(a, s + w, b)
  BY <1>3, <1>4, <1>5, <1>6, <1>7 DEF RequestsHold
<1> QED
  BY <1>8 DEF a, b, e

\* prune() of auth.ts keeps the failures of the window and no others.
LEMMA RecentHolds ==
  ASSUME WindowAssumption, WindowInv
  PROVE  LoginsHold(Recent, compared) /\ \A i \in 1 .. Len(Recent) : InWindow(Recent[i])
<1> DEFINE n == Len(failures)
           kept == {i \in DOMAIN failures : failures[i] >= time - Window}
<1>1. /\ failures \in Seq(Int) /\ compared \in Seq(Int) /\ time \in Nat /\ Window \in Nat
      /\ \A i, j \in 1 .. n : i <= j => failures[i] <= failures[j]
      /\ \A i \in 1 .. n : failures[i] <= time
      /\ n <= MaxFailures /\ MaxFailures \in Nat /\ n \in Nat /\ DOMAIN failures = 1 .. n
      /\ \A i \in 1 .. n : failures[i] \in Int
  BY DEF WindowInv, LoginsHold, WindowAssumption
<1>2. PICK k \in 0 .. Len(compared) :
        TailAfter(failures, compared, k) /\ \A i \in 1 .. k : compared[i] < time - Window
  BY DEF WindowInv, LoginsHold
<1>a. TailAfter(failures, compared, k) /\ k \in Nat
  BY <1>2
<1>3. PICK j \in 0 .. n :
        /\ \A i \in 1 .. j : failures[i] < time - Window
        /\ \A i \in j + 1 .. n : failures[i] >= time - Window
        /\ Recent = IF j = n THEN <<>> ELSE SubSeq(failures, j + 1, n)
  <2>1. CASE kept = {}
    <3>1. Recent = <<>>
      BY <2>1 DEF Recent
    <3>2. \A i \in 1 .. n : failures[i] < time - Window
      <4>1. \A i \in 1 .. n : ~(failures[i] >= time - Window)
        BY <1>1, <2>1
      <4> HIDE DEF kept
      <4> QED
        BY <1>1, <4>1
    <3>3. n \in 0 .. n /\ \A i \in n + 1 .. n : FALSE
      BY <1>1
    <3> QED
      BY <3>1, <3>2, <3>3
  <2>2. CASE kept # {}
    <3>0. kept \in SUBSET Nat
      BY <1>1
    <3>1. Min(kept) \in kept /\ \A m \in kept : Min(kept) <= m
      <4> HIDE DEF kept
      <4>1. \E x \in kept : \A m \in kept : x <= m
        BY <2>2, <3>0, LeastNumber
      <4> QED
        BY <4>1 DEF Min
    <3> DEFINE x == Min(kept)
    <3>2. Recent = SubSeq(failures, x, n)
      BY <2>2 DEF Recent
    <3> HIDE DEF x
    <3>3. x \in 1 .. n /\ failures[x] >= time - Window /\ \A m \in kept : x <= m
      BY <1>1, <3>1 DEF x
    <3>4. \A i \in 1 .. x - 1 : failures[i] < time - Window
      <4> SUFFICES ASSUME NEW i \in 1 .. x - 1, ~(failures[i] < time - Window) PROVE FALSE
        OBVIOUS
      <4>1. i \in 1 .. n /\ ~(x <= i)
        BY <1>1, <3>3
      <4>2. i \in kept
        BY <1>1, <4>1
      <4> QED
        BY <3>3, <4>1, <4>2
    <3>5. \A i \in (x - 1) + 1 .. n : failures[i] >= time - Window
      <4> SUFFICES ASSUME NEW i \in (x - 1) + 1 .. n PROVE failures[i] >= time - Window
        OBVIOUS
      <4>1. i \in 1 .. n /\ x <= i
        BY <1>1, <3>3
      <4>2. failures[x] <= failures[i] /\ failures[x] \in Int /\ failures[i] \in Int
        BY <1>1, <3>3, <4>1
      <4> QED
        BY <1>1, <3>3, <4>2
    <3>6. x - 1 \in 0 .. n /\ (x - 1) + 1 = x /\ x - 1 # n
      BY <1>1, <3>3
    <3> QED
      BY <3>2, <3>4, <3>5, <3>6
  <2> QED
    BY <2>1, <2>2
<1> DEFINE q == Rest(failures, j)
<1>4. Recent = q
  <2>1. CASE j = n
    <3>1. q = <<>>
      BY <1>1, <2>1 DEF Rest
    <3> QED
      BY <1>3, <2>1, <3>1
  <2>2. CASE j # n
    BY <1>3, <2>2 DEF Rest
  <2> QED
    BY <2>1, <2>2
<1>5. /\ q \in Seq(Int) /\ k + j \in 0 .. Len(compared) /\ Len(q) = n - j
      /\ \A i \in 1 .. n - j : q[i] = failures[j + i]
      /\ TailAfter(q, compared, k + j)
      /\ \A i \in 1 .. k + j : i <= k \/ (i - k \in 1 .. j /\ compared[i] = failures[i - k])
  <2>1. failures \in Seq(Int) /\ compared \in Seq(Int) /\ TailAfter(failures, compared, k)
    BY <1>1, <1>a
  <2>2. j \in 0 .. Len(failures)
    OBVIOUS
  <2> HIDE DEF kept
  <2>3. TailLeft(Int, failures, compared, k, j)
    BY <2>1, <2>2, TailOfTail
  <2> QED
    BY <2>3 DEF TailLeft
<1> HIDE DEF q
<1>6. \A i \in 1 .. Len(q) : j + i \in j + 1 .. n /\ j + i \in 1 .. n /\ q[i] = failures[j + i]
  <2> SUFFICES ASSUME NEW i \in 1 .. Len(q)
               PROVE  j + i \in j + 1 .. n /\ j + i \in 1 .. n /\ q[i] = failures[j + i]
    OBVIOUS
  <2>1. i \in 1 .. n - j /\ j + i \in j + 1 .. n /\ j + i \in 1 .. n
    BY <1>1, <1>5
  <2> QED
    BY <1>5, <2>1
<1>7. \A i \in 1 .. Len(q) : q[i] >= time - Window /\ q[i] <= time
  BY <1>1, <1>3, <1>6
<1>8. \A i, m \in 1 .. Len(q) : i <= m => q[i] <= q[m]
  <2> SUFFICES ASSUME NEW i \in 1 .. Len(q), NEW m \in 1 .. Len(q), i <= m PROVE q[i] <= q[m]
    OBVIOUS
  <2>1. j + i <= j + m
    BY <1>1, <1>5
  <2> QED
    BY <1>1, <1>6, <2>1
<1>9. \A i \in 1 .. k + j : compared[i] < time - Window
  <2> SUFFICES ASSUME NEW i \in 1 .. k + j PROVE compared[i] < time - Window
    OBVIOUS
  <2>1. CASE i <= k
    <3>1. i \in 1 .. k
      BY <1>a, <2>1
    <3> QED
      BY <1>2, <3>1
  <2>2. CASE ~(i <= k)
    BY <1>3, <1>5, <2>2
  <2> QED
    BY <2>1, <2>2
<1>10. Len(q) <= MaxFailures
  BY <1>1, <1>5
<1>11. LoginsHold(q, compared)
  BY <1>1, <1>5, <1>7, <1>8, <1>9, <1>10 DEF LoginsHold
<1> QED
  BY <1>4, <1>7, <1>11 DEF InWindow

\* A wrong token that was compared is recorded, and a right one forgets them all.
LEMMA ComparedHolds ==
  ASSUME WindowAssumption, time \in Nat, NEW fs, LoginsHold(fs, compared)
  PROVE  /\ LoginsHold(<<>>, <<>>)
         /\ Len(fs) < MaxFailures => LoginsHold(Append(fs, time), Append(compared, time))
<1>1. LoginsHold(<<>>, <<>>)
  <2>1. <<>> \in Seq(Int) /\ Len(<<>>) = 0 /\ 1 .. 0 = {} /\ MaxFailures \in Nat
    BY DEF WindowAssumption
  <2>2. 0 \in 0 .. 0 /\ TailAfter(<<>>, <<>>, 0)
    BY <2>1 DEF TailAfter
  <2> QED
    BY <2>1, <2>2 DEF LoginsHold
<1>2. ASSUME Len(fs) < MaxFailures
      PROVE  LoginsHold(Append(fs, time), Append(compared, time))
  <2> DEFINE a == Append(fs, time)
             b == Append(compared, time)
             n == Len(fs)
  <2>1. /\ fs \in Seq(Int) /\ compared \in Seq(Int) /\ n \in Nat /\ time \in Int
        /\ \A i, j \in 1 .. n : i <= j => fs[i] <= fs[j]
        /\ \A i \in 1 .. n : fs[i] <= time
        /\ MaxFailures \in Nat
    BY DEF LoginsHold, WindowAssumption
  <2>2. PICK k \in 0 .. Len(compared) :
          TailAfter(fs, compared, k) /\ \A i \in 1 .. k : compared[i] < time - Window
    BY DEF LoginsHold
  <2>a. TailAfter(fs, compared, k)
    BY <2>2
  <2>3. /\ a \in Seq(Int) /\ b \in Seq(Int) /\ k \in 0 .. Len(b) /\ TailAfter(a, b, k)
        /\ Len(a) = n + 1
        /\ \A i \in 1 .. n + 1 : a[i] = IF i <= n THEN fs[i] ELSE time
        /\ \A i \in 1 .. k : b[i] = compared[i]
    <3>1. TailGrown(Int, fs, compared, k, time)
      BY <2>1, <2>a, TailAppend
    <3> QED
      BY <3>1 DEF TailGrown
  <2> HIDE DEF a, b
  <2>c. \A i \in 1 .. Len(a) : (i \in 1 .. n /\ a[i] = fs[i]) \/ (i = n + 1 /\ a[i] = time)
    <3> SUFFICES ASSUME NEW i \in 1 .. Len(a)
                 PROVE  (i \in 1 .. n /\ a[i] = fs[i]) \/ (i = n + 1 /\ a[i] = time)
      OBVIOUS
    <3>1. i \in 1 .. n + 1 /\ a[i] = IF i <= n THEN fs[i] ELSE time
      BY <2>3
    <3> HIDE DEF n
    <3>2. CASE i <= n
      BY <2>1, <3>1, <3>2
    <3>3. CASE ~(i <= n)
      BY <2>1, <3>1, <3>3
    <3> QED
      BY <3>2, <3>3
  <2> HIDE DEF n
  <2>4. \A i \in 1 .. Len(a) : a[i] <= time
    <3> SUFFICES ASSUME NEW i \in 1 .. Len(a) PROVE a[i] <= time
      OBVIOUS
    <3>1. (i \in 1 .. n /\ a[i] = fs[i]) \/ a[i] = time
      BY <2>c
    <3> QED
      BY <2>1, <3>1
  <2>5. \A i, j \in 1 .. Len(a) : i <= j => a[i] <= a[j]
    <3> SUFFICES ASSUME NEW i \in 1 .. Len(a), NEW j \in 1 .. Len(a), i <= j PROVE a[i] <= a[j]
      OBVIOUS
    <3>1. CASE j = n + 1
      BY <2>1, <2>4, <2>c, <3>1
    <3>2. CASE j # n + 1
      <4>1. i \in 1 .. n /\ j \in 1 .. n /\ a[i] = fs[i] /\ a[j] = fs[j]
        BY <2>1, <2>3, <2>c, <3>2
      <4> QED
        BY <2>1, <4>1
    <3> QED
      BY <3>1, <3>2
  <2>6. Len(a) <= MaxFailures
    BY <1>2, <2>1, <2>3 DEF n
  <2>7. \A i \in 1 .. k : b[i] < time - Window
    BY <2>2, <2>3
  <2>8. LoginsHold(a, b)
    BY <2>3, <2>4, <2>5, <2>6, <2>7 DEF LoginsHold
  <2> QED
    BY <2>8 DEF a, b
<1> QED
  BY <1>1, <1>2

\* When a window begins, so does the invariant.
LEMMA InitWindow == ASSUME WindowAssumption, WindowInit PROVE WindowInv
<1>1. entries = <<>> /\ sum = 0 /\ failures = <<>> /\ time = 0 /\ admitted = <<>> /\ compared = <<>>
  BY DEF WindowInit
<1>2. /\ <<>> \in Seq(Entry) /\ <<>> \in Seq(Int) /\ Len(<<>>) = 0 /\ 1 .. 0 = {}
      /\ Limit \in Nat /\ MaxFailures \in Nat
  BY DEF WindowAssumption
<1>3. Total(<<>>) = 0
  <2>1. Total(<<>>) = SumOf(Weights(<<>>), {})
    BY <1>2, WeightsAre
  <2> QED
    BY <2>1, SumPick, FS_EmptySet
<1>4. 0 \in 0 .. 0 /\ TailAfter(<<>>, <<>>, 0) /\ Sorted(<<>>)
  BY <1>2 DEF TailAfter, Sorted
<1>5. RequestsHold(entries, sum, admitted)
  BY <1>1, <1>2, <1>3, <1>4 DEF RequestsHold
<1>6. LoginsHold(failures, compared)
  BY <1>1, <1>2, <1>4 DEF LoginsHold
<1> QED
  BY <1>1, <1>5, <1>6 DEF WindowInv

\* Every step keeps it.
LEMMA NextWindow == ASSUME WindowAssumption, WindowInv, [WindowNext]_windowVars PROVE WindowInv'
<1> DEFINE p == PrunedEntries
<1>0. time \in Nat /\ RequestsHold(p.entries, p.sum, admitted)
  BY PruneHolds DEF WindowInv
<1>1. ASSUME NEW w \in Weight, NEW n \in Counts, NEW a \in UpstreamCaps, NEW b \in UpstreamCaps,
             CheckRateLimit(w, n, a, b)
      PROVE  WindowInv'
  <2> DEFINE e == [time |-> time, weight |-> w]
  <2>1. UNCHANGED <<failures, time, compared>>
    BY <1>1 DEF CheckRateLimit
  <2>2. LoginsHold(failures, compared)'
    BY <2>1 DEF WindowInv, LoginsHold, TailAfter
  <2>3. RequestsHold(entries', sum', admitted')
    <3>1. CASE p.sum + w <= Limit
      <4>1. /\ entries' = Append(p.entries, e) /\ sum' = p.sum + w
            /\ admitted' = Append(admitted, e)
        BY <1>1, <3>1 DEF CheckRateLimit, Check
      <4>2. w \in Nat
        BY DEF WindowAssumption
      <4> HIDE DEF p
      <4>3. RequestsHold(Append(p.entries, e), p.sum + w, Append(admitted, e))
        BY <1>0, <3>1, <4>2, AdmitHolds
      <4> QED
        BY <4>1, <4>3
    <3>2. CASE ~(p.sum + w <= Limit)
      <4>1. entries' = p.entries /\ sum' = p.sum /\ admitted' = admitted
        BY <1>1, <3>2 DEF CheckRateLimit, Check
      <4> QED
        BY <1>0, <4>1
    <3> QED
      BY <3>1, <3>2
  <2>4. RequestsHold(entries, sum, admitted)'
    BY <2>1, <2>3 DEF RequestsHold
  <2> QED
    BY <1>0, <2>1, <2>2, <2>4 DEF WindowInv
<1>2. ASSUME Look PROVE WindowInv'
  <2>1. /\ entries' = p.entries /\ sum' = p.sum
        /\ UNCHANGED <<failures, time, admitted, compared>>
    BY <1>2 DEF Look
  <2> HIDE DEF p
  <2>2. RequestsHold(entries', sum', admitted')
    BY <1>0, <2>1
  <2>3. RequestsHold(entries, sum, admitted)'
    BY <2>1, <2>2 DEF RequestsHold
  <2>4. LoginsHold(failures, compared)'
    BY <2>1 DEF WindowInv, LoginsHold, TailAfter
  <2> QED
    BY <1>0, <2>1, <2>3, <2>4 DEF WindowInv
<1>3. ASSUME NEW valid \in BOOLEAN, Login(valid) PROVE WindowInv'
  <2>1. UNCHANGED <<entries, sum, time, admitted>>
    BY <1>3 DEF Login
  <2>2. RequestsHold(entries, sum, admitted)'
    BY <2>1 DEF WindowInv, RequestsHold, TailAfter
  <2>3. LoginsHold(Recent, compared)
    BY RecentHolds
  <2>4. /\ LoginsHold(<<>>, <<>>)
        /\ Len(Recent) < MaxFailures => LoginsHold(Append(Recent, time), Append(compared, time))
    BY <1>0, <2>3, ComparedHolds
  <2>5. Len(Recent) \in Nat /\ MaxFailures \in Nat
    BY <2>3 DEF LoginsHold, WindowAssumption
  <2>6. LoginsHold(failures', compared')
    <3>1. CASE Len(Recent) >= MaxFailures
      <4>1. failures' = Recent /\ compared' = compared
        BY <1>3, <3>1 DEF Login
      <4> QED
        BY <2>3, <4>1
    <3>2. CASE Len(Recent) < MaxFailures /\ valid
      <4>1. failures' = <<>> /\ compared' = <<>>
        BY <1>3, <2>5, <3>2 DEF Login
      <4> QED
        BY <2>4, <4>1
    <3>3. CASE Len(Recent) < MaxFailures /\ ~valid
      <4>1. failures' = Append(Recent, time) /\ compared' = Append(compared, time)
        BY <1>3, <2>5, <3>3 DEF Login
      <4> QED
        BY <2>4, <3>3, <4>1
    <3> QED
      BY <2>5, <3>1, <3>2, <3>3
  <2>7. LoginsHold(failures, compared)'
    BY <2>1, <2>6 DEF LoginsHold
  <2> QED
    BY <1>0, <2>1, <2>2, <2>7 DEF WindowInv
<1>4. ASSUME Advance PROVE WindowInv'
  <2>1. time' = time + 1 /\ UNCHANGED <<entries, sum, failures, admitted, compared>> /\ Window \in Nat
    BY <1>4 DEF Advance, WindowAssumption
  <2>2. RequestsHold(entries, sum, admitted)'
    <3>1. /\ entries \in Seq(Entry) /\ admitted \in Seq(Entry) /\ Sorted(entries)
          /\ \A i \in 1 .. Len(entries) : entries[i].time <= time
          /\ sum = Total(entries) /\ sum <= Limit
      BY DEF WindowInv, RequestsHold
    <3>2. PICK k \in 0 .. Len(admitted) :
            TailAfter(entries, admitted, k) /\ \A i \in 1 .. k : admitted[i].time < time - Window
      BY DEF WindowInv, RequestsHold
    <3>3. /\ Len(entries) \in Nat /\ \A i \in 1 .. Len(entries) : entries[i].time \in Int
          /\ Len(admitted) \in Nat /\ \A i \in 1 .. Len(admitted) : admitted[i].time \in Int
      BY <3>1, WeightsAre
    <3>4. \A i \in 1 .. Len(entries) : entries[i].time <= time + 1
      BY <1>0, <3>1, <3>3
    <3>5. \A i \in 1 .. k : admitted[i].time < (time + 1) - Window
      <4>1. \A i \in 1 .. k : i \in 1 .. Len(admitted)
        BY <3>3
      <4> QED
        BY <1>0, <2>1, <3>2, <3>3, <4>1
    <3> QED
      BY <2>1, <3>1, <3>2, <3>4, <3>5 DEF RequestsHold
  <2>3. LoginsHold(failures, compared)'
    <3>1. /\ failures \in Seq(Int) /\ compared \in Seq(Int)
          /\ \A i, j \in 1 .. Len(failures) : i <= j => failures[i] <= failures[j]
          /\ \A i \in 1 .. Len(failures) : failures[i] <= time
          /\ Len(failures) <= MaxFailures
      BY DEF WindowInv, LoginsHold
    <3>2. PICK k \in 0 .. Len(compared) :
            TailAfter(failures, compared, k) /\ \A i \in 1 .. k : compared[i] < time - Window
      BY DEF WindowInv, LoginsHold
    <3>3. /\ \A i \in 1 .. Len(failures) : failures[i] \in Int
          /\ \A i \in 1 .. k : compared[i] \in Int
      BY <3>1
    <3>4. \A i \in 1 .. Len(failures) : failures[i] <= time + 1
      BY <1>0, <3>1, <3>3
    <3>5. \A i \in 1 .. k : compared[i] < (time + 1) - Window
      BY <1>0, <2>1, <3>2, <3>3
    <3> QED
      BY <2>1, <3>1, <3>2, <3>4, <3>5 DEF LoginsHold
  <2> QED
    BY <1>0, <2>1, <2>2, <2>3 DEF WindowInv
<1>5. ASSUME UNCHANGED windowVars PROVE WindowInv'
  <2>1. UNCHANGED <<entries, sum, failures, time, admitted, compared>>
    BY <1>5 DEF windowVars
  <2> QED
    BY <2>1 DEF WindowInv, RequestsHold, LoginsHold, TailAfter
<1>6. ASSUME WindowNext PROVE WindowInv'
  BY <1>1, <1>2, <1>3, <1>4, <1>6 DEF WindowNext
<1> QED
  BY <1>5, <1>6

\* What the invariant means for what was admitted and compared.
LEMMA WindowFollows == ASSUME WindowAssumption, WindowInv PROVE WindowRespected
<1> DEFINE S == {i \in DOMAIN admitted : InWindow(admitted[i].time)}
           C == {i \in DOMAIN compared : InWindow(compared[i])}
<1>1. /\ entries \in Seq(Entry) /\ admitted \in Seq(Entry) /\ sum = Total(entries) /\ sum <= Limit
      /\ time \in Nat /\ Limit \in Nat /\ Window \in Nat
  BY DEF WindowInv, RequestsHold, WindowAssumption
<1>2. MapThenSumSet(LAMBDA i : admitted[i].weight, S) <= Limit
  <2> DEFINE w == Weights(admitted)
             A == 1 .. Len(admitted)
  <2>1. PICK k \in 0 .. Len(admitted) :
          TailAfter(entries, admitted, k) /\ \A i \in 1 .. k : admitted[i].time < time - Window
    BY DEF WindowInv, RequestsHold
  <2>2. /\ Len(admitted) \in Nat /\ DOMAIN admitted = A /\ IsFiniteSet(A)
        /\ \A i \in A : admitted[i].time \in Int /\ w[i] \in Nat
    BY <1>1, WeightsAre
  <2>3. MapThenSumSet(LAMBDA i : admitted[i].weight, S) = SumOf(w, S)
    <3> DEFINE v == [i \in S |-> admitted[i].weight]
    <3>1. S \subseteq A /\ S \subseteq DOMAIN admitted
      BY <2>2
    <3>2. IsFiniteSet(S)
      BY <2>2, <3>1, FS_Subset
    <3> HIDE DEF S
    <3>3. MapThenSumSet(LAMBDA i : admitted[i].weight, S) = SumOf(v, S)
      BY DEF SumOf, MapThenSumSet, MapThenFoldSet
    <3>4. \A i \in S : v[i] = w[i]
      BY <3>1 DEF Weights
    <3> HIDE DEF v, w
    <3> QED
      BY <3>2, <3>3, <3>4, SumSame
  <2>4. /\ Len(entries) \in Nat /\ Len(admitted) = k + Len(entries) /\ k \in Nat
        /\ \A i \in 1 .. Len(entries) : entries[i] = admitted[k + i]
    BY <1>1, <2>1, WeightsAre DEF TailAfter
  <2>5. Total(entries) = SumOf(w, k + 1 .. k + Len(entries))
    <3>1. k + Len(entries) <= Len(admitted)
      BY <2>2, <2>4
    <3> QED
      BY <1>1, <2>4, <3>1, PartWeighs
  <2>6. S \subseteq k + 1 .. k + Len(entries)
    <3> SUFFICES ASSUME NEW i \in S PROVE i \in k + 1 .. k + Len(entries)
      OBVIOUS
    <3>1. i \in A /\ admitted[i].time >= time - Window
      BY <2>2 DEF InWindow
    <3>2. ~(i \in 1 .. k)
      BY <1>1, <2>1, <2>2, <3>1
    <3> QED
      BY <2>2, <2>4, <3>1, <3>2
  <2>7. SumOf(w, S) <= SumOf(w, k + 1 .. k + Len(entries)) /\ SumOf(w, S) \in Nat
    <3> DEFINE B == k + 1 .. k + Len(entries)
    <3>1. IsFiniteSet(B) /\ S \in SUBSET B
      BY <2>4, <2>6, FS_Interval
    <3>2. \A i \in B : w[i] \in Nat
      <4>1. B \subseteq A
        BY <2>2, <2>4
      <4> QED
        BY <2>2, <4>1
    <3> HIDE DEF B, S, w
    <3>3. SumOf(w, S) <= SumOf(w, B) /\ SumOf(w, S) \in Nat
      BY <3>1, <3>2, SumGrows
    <3> QED
      BY <3>3 DEF B
  <2> HIDE DEF S, w
  <2>8. Total(entries) \in Nat
    BY <1>1, WeightsAre
  <2> HIDE DEF A
  <2>9. SumOf(w, S) <= Limit
    BY <1>1, <2>5, <2>7, <2>8
  <2> QED
    BY <2>3, <2>9
<1>3. Cardinality(C) <= MaxFailures
  <2>1. /\ failures \in Seq(Int) /\ compared \in Seq(Int) /\ Len(failures) <= MaxFailures
        /\ MaxFailures \in Nat
    BY DEF WindowInv, LoginsHold, WindowAssumption
  <2>2. PICK k \in 0 .. Len(compared) :
          TailAfter(failures, compared, k) /\ \A i \in 1 .. k : compared[i] < time - Window
    BY DEF WindowInv, LoginsHold
  <2>3. /\ Len(failures) \in Nat /\ Len(compared) = k + Len(failures) /\ k \in Nat
        /\ DOMAIN compared = 1 .. Len(compared) /\ \A i \in 1 .. Len(compared) : compared[i] \in Int
    BY <2>1, <2>2 DEF TailAfter
  <2> DEFINE B == k + 1 .. k + Len(failures)
  <2>4. C \in SUBSET B
    <3> SUFFICES ASSUME NEW i \in C PROVE i \in B
      OBVIOUS
    <3>1. i \in 1 .. Len(compared) /\ compared[i] >= time - Window
      BY <2>3 DEF InWindow
    <3>2. ~(i \in 1 .. k)
      BY <1>1, <2>2, <2>3, <3>1
    <3> QED
      BY <2>3, <3>1, <3>2
  <2>5. IsFiniteSet(B) /\ Cardinality(B) = Len(failures)
    <3>1. k + 1 \in Int /\ k + Len(failures) \in Int
      BY <2>3
    <3>2. /\ IsFiniteSet(B)
          /\ Cardinality(B) = IF k + 1 > k + Len(failures) THEN 0 ELSE (k + Len(failures)) - (k + 1) + 1
      <4> DEFINE a == k + 1
                 b == k + Len(failures)
      <4>1. a \in Int /\ b \in Int
        BY <3>1
      <4> HIDE DEF a, b
      <4>2. IsFiniteSet(a .. b) /\ Cardinality(a .. b) = IF a > b THEN 0 ELSE b - a + 1
        BY <4>1, FS_Interval
      <4> QED
        BY <4>2 DEF a, b
    <3> HIDE DEF B
    <3>3. (k + Len(failures)) - (k + 1) + 1 = Len(failures) /\ (k + 1 > k + Len(failures) => Len(failures) = 0)
      BY <2>3
    <3> QED
      BY <3>2, <3>3
  <2> HIDE DEF B, C
  <2>6. Cardinality(C) <= Cardinality(B) /\ Cardinality(C) \in Nat
    BY <2>4, <2>5, FS_Subset, FS_CardinalityType
  <2> QED
    BY <2>1, <2>3, <2>5, <2>6
<1>4. \A i \in DOMAIN Recent : InWindow(Recent[i])
  <2>1. LoginsHold(Recent, compared) /\ \A i \in 1 .. Len(Recent) : InWindow(Recent[i])
    BY RecentHolds
  <2>2. Recent \in Seq(Int)
    BY <2>1 DEF LoginsHold
  <2>3. DOMAIN Recent = 1 .. Len(Recent)
    BY <2>2
  <2> QED
    BY <2>1, <2>3
<1> QED
  BY <1>1, <1>2, <1>3, <1>4 DEF WindowRespected

\* The two limiters never let more through than they are set to: for every
\* limit, window and weights, the requests admitted in the last window weigh no
\* more than the limit, although entries are dropped by a binary search and the
\* sum is kept beside them, and no more wrong tokens are compared in a window
\* than allowed (rate.ts, auth.ts).
THEOREM WindowsHold == WindowInit /\ [][WindowNext]_windowVars => []WindowRespected
<1>1. WindowInit => WindowInv
  BY WindowAssumption, InitWindow
<1>2. WindowInv /\ [WindowNext]_windowVars => WindowInv'
  BY WindowAssumption, NextWindow
<1>3. WindowInv => WindowRespected
  BY WindowAssumption, WindowFollows
<1> QED
  BY <1>1, <1>2, <1>3, PTL

(***************************************************************************)
(* A day.                                                                  *)
(***************************************************************************)
DayAssumption ==
  /\ HourLen \in Nat \ {0} /\ HourCount \in Nat \ {0}
  /\ GapThreshold \in Nat /\ IdleTimeout \in Nat

\* The samples of a day: at times of the day, in their order.
DaySample ==
  [at: 0 .. DayTicks - 1, sessions: Nat, tokens: Nat, low: BOOLEAN, boxed: Int, demoted: BOOLEAN,
   mode: STRING, rest: Int]
SamplesOfDay(ss) ==
  ss \in Seq(DaySample) /\ \A i \in Steps(ss) : ss[i - 1].at <= ss[i].at

\* The intervals between them, as a function.
Intervals(ss) == [i \in Steps(ss) |-> Interval(ss, i)]

\* They are lengths of time.
LEMMA IntervalsAre ==
  ASSUME DayAssumption, NEW ss, SamplesOfDay(ss)
  PROVE  /\ Len(ss) \in Nat /\ Steps(ss) = 2 .. Len(ss) /\ IsFiniteSet(Steps(ss)) /\ DayTicks \in Nat
         /\ \A i \in 1 .. Len(ss) : ss[i].at \in 0 .. DayTicks - 1 /\ ss[i].at \in Int
         /\ \A i \in Steps(ss) : /\ i - 1 \in 1 .. Len(ss) /\ i \in 1 .. Len(ss)
                                 /\ Intervals(ss)[i] = ss[i].at - ss[i - 1].at
                                 /\ Intervals(ss)[i] \in Nat
<1>1. ss \in Seq(DaySample) /\ Len(ss) \in Nat /\ \A i \in 1 .. Len(ss) : ss[i] \in DaySample
  BY DEF SamplesOfDay
<1>2. DayTicks \in Nat
  BY DEF DayAssumption, DayTicks
<1>3. \A s \in DaySample : s.at \in 0 .. DayTicks - 1 /\ s.at \in Int
  BY <1>2 DEF DaySample
<1>4. \A i \in 1 .. Len(ss) : ss[i].at \in 0 .. DayTicks - 1 /\ ss[i].at \in Int
  BY <1>1, <1>3
<1>5. Steps(ss) = 2 .. Len(ss) /\ IsFiniteSet(Steps(ss))
  BY <1>1, FS_Interval DEF Steps
<1>6. ASSUME NEW i \in Steps(ss)
      PROVE  /\ i - 1 \in 1 .. Len(ss) /\ i \in 1 .. Len(ss)
             /\ Intervals(ss)[i] = ss[i].at - ss[i - 1].at
             /\ Intervals(ss)[i] \in Nat
  <2>1. i - 1 \in 1 .. Len(ss) /\ i \in 1 .. Len(ss)
    BY <1>1, <1>5
  <2>2. Intervals(ss)[i] = ss[i].at - ss[i - 1].at
    BY DEF Intervals, Interval
  <2>3. ss[i - 1].at <= ss[i].at
    BY DEF SamplesOfDay
  <2>4. ss[i].at \in Int /\ ss[i - 1].at \in Int
    BY <1>4, <2>1
  <2> QED
    BY <2>1, <2>2, <2>3, <2>4
<1> QED
  BY <1>1, <1>2, <1>4, <1>5, <1>6

\* How the sums of the row are sums of these.
LEMMA IntervalSums ==
  ASSUME DayAssumption, NEW ss, SamplesOfDay(ss), NEW T \in SUBSET Steps(ss)
  PROVE  MapThenSumSet(LAMBDA i : Interval(ss, i), T) = SumOf(Intervals(ss), T)
<1> DEFINE v == [i \in T |-> Interval(ss, i)]
<1>1. MapThenSumSet(LAMBDA i : Interval(ss, i), T) = SumOf(v, T)
  BY DEF SumOf, MapThenSumSet, MapThenFoldSet
<1>2. IsFiniteSet(T)
  BY IntervalsAre, FS_Subset
<1>3. \A i \in T : v[i] = Intervals(ss)[i]
  BY DEF Intervals
<1> HIDE DEF v
<1> QED
  BY <1>1, <1>2, <1>3, SumSame

\* All intervals together are the span, so a part of them fits into it.
LEMMA PartFits ==
  ASSUME DayAssumption, NEW ss, SamplesOfDay(ss), ss # <<>>, NEW T \in SUBSET Steps(ss)
  PROVE  SumOf(Intervals(ss), T) \in 0 .. utcClockSpanMinutes(ss)
<1> DEFINE f == Intervals(ss)
           m == Len(ss) - 1
           h == [j \in 0 .. m |-> ss[j + 1].at - ss[1].at]
<1>1. /\ Len(ss) \in Nat /\ Steps(ss) = 2 .. Len(ss) /\ IsFiniteSet(Steps(ss))
      /\ \A i \in 1 .. Len(ss) : ss[i].at \in Int
      /\ \A i \in Steps(ss) : f[i] = ss[i].at - ss[i - 1].at /\ f[i] \in Nat
  BY IntervalsAre
<1>2. m \in Nat
  BY <1>1 DEF SamplesOfDay
<1> HIDE DEF f
<1>3. PrefixSums(h, f, 1, m)
  <2>1. \A j \in 0 .. m : h[j] = ss[j + 1].at - ss[1].at
    OBVIOUS
  <2> HIDE DEF h
  <2>2. \A j \in 0 .. m : j + 1 \in 1 .. Len(ss)
    BY <1>1, <1>2
  <2>3. \A j \in 0 .. m : h[j] \in Int
    BY <1>1, <1>2, <2>1, <2>2
  <2>4. h[0] = 0
    BY <1>1, <1>2, <2>1, <2>2
  <2>5. ASSUME NEW j \in 0 .. m, j < m PROVE h[j + 1] = h[j] + f[1 + j + 1]
    <3>1. j + 1 \in 0 .. m /\ 1 + j + 1 \in Steps(ss) /\ (1 + j + 1) - 1 = j + 1 /\ (j + 1) + 1 = 1 + j + 1
      BY <1>1, <1>2, <2>5
    <3>2. f[1 + j + 1] = ss[1 + j + 1].at - ss[j + 1].at
      BY <1>1, <3>1
    <3>3. h[j + 1] = ss[1 + j + 1].at - ss[1].at /\ h[j] = ss[j + 1].at - ss[1].at
      BY <2>1, <3>1
    <3>4. ss[1 + j + 1].at \in Int /\ ss[j + 1].at \in Int /\ ss[1].at \in Int
      <4>1. 1 + j + 1 \in 1 .. Len(ss) /\ j + 1 \in 1 .. Len(ss) /\ 1 \in 1 .. Len(ss)
        BY <1>1, <1>2, <2>5
      <4> QED
        BY <1>1, <4>1
    <3> QED
      BY <3>2, <3>3, <3>4
  <2> QED
    BY <2>3, <2>4, <2>5 DEF PrefixSums
<1>4. Steps(ss) = 1 + 1 .. 1 + m
  BY <1>1
<1>5. SumOf(f, Steps(ss)) = h[m]
  <2> DEFINE a == 1
  <2>1. \A i \in a + 1 .. a + m : f[i] \in Int
    BY <1>1, <1>4
  <2>2. a \in Int /\ PrefixSums(h, f, a, m)
    BY <1>3
  <2>3. Steps(ss) = a + 1 .. a + m
    BY <1>4
  <2> HIDE DEF h, m, a
  <2>4. SumOf(f, a + 1 .. a + m) = h[m]
    BY <1>2, <2>1, <2>2, SumInterval
  <2> QED
    BY <2>3, <2>4
<1>6. h[m] = utcClockSpanMinutes(ss)
  <2>1. m \in 0 .. m /\ m + 1 = Len(ss)
    BY <1>1, <1>2
  <2> QED
    BY <2>1 DEF utcClockSpanMinutes
<1>7. SumOf(f, T) <= SumOf(f, Steps(ss)) /\ SumOf(f, T) \in Nat /\ SumOf(f, Steps(ss)) \in Nat
  <2>1. \A i \in Steps(ss) : f[i] \in Nat
    BY <1>1
  <2> QED
    BY <1>1, <2>1, SumGrows
<1>8. SumOf(f, T) \in 0 .. utcClockSpanMinutes(ss)
  <2> HIDE DEF h, m
  <2> QED
    BY <1>5, <1>6, <1>7
<1> QED
  BY <1>8 DEF f

\* A sum by classes is the sum: f over A, grouped by a key below n.
LEMMA SumByKey ==
  ASSUME NEW A, IsFiniteSet(A), NEW f, \A i \in A : f[i] \in Int,
         NEW n \in Nat, NEW key, \A i \in A : key[i] \in 0 .. n - 1,
         NEW g, \A k \in 0 .. n - 1 : g[k] = SumOf(f, {i \in A : key[i] = k})
  PROVE  SumOf(g, 0 .. n - 1) = SumOf(f, A)
<1> DEFINE Below(j) == {i \in A : key[i] < j}
           Class(j) == {i \in A : key[i] = j}
           h == [j \in 0 .. n |-> SumOf(f, Below(j))]
           a == -1
<1>1. \A S \in SUBSET A : SumOf(f, S) \in Int
  BY SumAdd
<1>2. \A j \in 0 .. n : h[j] = SumOf(f, Below(j)) /\ h[j] \in Int
  BY <1>1
<1>3. Below(0) = {} /\ Below(n) = A
  <2>1. \A i \in A : ~(key[i] < 0) /\ key[i] < n
    OBVIOUS
  <2> QED
    BY <2>1
<1>4. \A j \in 0 .. n - 1 : /\ Below(j + 1) = Below(j) \cup Class(j) /\ Below(j) \cap Class(j) = {}
                            /\ Below(j) \in SUBSET A /\ Class(j) \in SUBSET A
  <2> SUFFICES ASSUME NEW j \in 0 .. n - 1
               PROVE  /\ Below(j + 1) = Below(j) \cup Class(j) /\ Below(j) \cap Class(j) = {}
                      /\ Below(j) \in SUBSET A /\ Class(j) \in SUBSET A
    OBVIOUS
  <2>1. \A i \in A : (key[i] < j + 1 <=> key[i] < j \/ key[i] = j) /\ ~(key[i] < j /\ key[i] = j)
    OBVIOUS
  <2> QED
    BY <2>1
<1>5. \A j \in 0 .. n - 1 : g[j] = SumOf(f, Class(j)) /\ g[j] \in Int
  BY <1>1
<1> HIDE DEF h, Below, Class
<1>6. PrefixSums(h, g, a, n)
  <2>1. h[0] = 0
    <3>1. SumOf(f, Below(0)) = 0
      <4>1. SumOf(f, {}) = 0
        BY SumPick, FS_EmptySet
      <4> QED
        BY <1>3, <4>1
    <3> QED
      BY <1>2, <3>1
  <2>2. ASSUME NEW j \in 0 .. n, j < n PROVE h[j + 1] = h[j] + g[a + j + 1]
    <3>1. j \in 0 .. n - 1 /\ j + 1 \in 0 .. n /\ a + j + 1 = j
      BY <2>2
    <3>2. SumOf(f, Below(j) \cup Class(j)) = SumOf(f, Below(j)) + SumOf(f, Class(j))
      BY <1>4, <3>1, SumUnion
    <3> QED
      BY <1>2, <1>4, <1>5, <3>1, <3>2
  <2> QED
    BY <1>2, <2>1, <2>2 DEF PrefixSums
<1>7. SumOf(g, a + 1 .. a + n) = h[n]
  <2>1. a \in Int /\ \A i \in a + 1 .. a + n : g[i] \in Int
    BY <1>5
  <2> HIDE DEF a
  <2> QED
    BY <1>6, <2>1, SumInterval
<1>8. a + 1 .. a + n = 0 .. n - 1 /\ h[n] = SumOf(f, A)
  BY <1>2, <1>3
<1> QED
  BY <1>7, <1>8

\* The hours of a day add up to its active time.
LEMMA HoursAddUp ==
  ASSUME DayAssumption, NEW ss, SamplesOfDay(ss)
  PROVE  accumulatedActiveMinutes(ss) = SumOf(hourBuckets(ss), DOMAIN hourBuckets(ss))
<1> DEFINE A == Active(ss)
           f == Intervals(ss)
           key == [i \in A |-> HourOf(ss[i - 1])]
           g == hourBuckets(ss)
           D == 0 .. HourCount - 1
<1>1. /\ IsFiniteSet(Steps(ss)) /\ \A i \in Steps(ss) : f[i] \in Nat /\ i - 1 \in 1 .. Len(ss)
      /\ \A i \in 1 .. Len(ss) : ss[i].at \in 0 .. DayTicks - 1
  BY IntervalsAre
<1>2. A \in SUBSET Steps(ss)
  BY DEF Active
<1>3. IsFiniteSet(A) /\ \A i \in A : f[i] \in Int
  BY <1>1, <1>2, FS_Subset
<1>4. \A i \in A : key[i] \in D
  <2> SUFFICES ASSUME NEW i \in A PROVE HourOf(ss[i - 1]) \in D
    OBVIOUS
  <2>1. ss[i - 1].at \in 0 .. DayTicks - 1
    BY <1>1, <1>2
  <2>2. \A t \in 0 .. DayTicks - 1 : t \div HourLen \in D
    BY DEF DayAssumption, DayTicks
  <2> QED
    BY <2>1, <2>2 DEF HourOf
<1>5. DOMAIN g = D /\ \A h \in D : g[h] = SumOf(f, {i \in A : key[i] = h})
  <2>1. DOMAIN g = D
    BY DEF hourBuckets
  <2>2. ASSUME NEW h \in D PROVE g[h] = SumOf(f, {i \in A : key[i] = h})
    <3> DEFINE T == {i \in A : HourOf(ss[i - 1]) = h}
    <3>1. T \in SUBSET Steps(ss) /\ T = {i \in A : key[i] = h}
      BY <1>2
    <3>2. g[h] = MapThenSumSet(LAMBDA i : Interval(ss, i), T)
      BY DEF hourBuckets
    <3> HIDE DEF T
    <3>3. MapThenSumSet(LAMBDA i : Interval(ss, i), T) = SumOf(f, T)
      BY <3>1, IntervalSums
    <3> QED
      BY <3>1, <3>2, <3>3
  <2> QED
    BY <2>1, <2>2
<1>6. accumulatedActiveMinutes(ss) = SumOf(f, A)
  <2>1. accumulatedActiveMinutes(ss) = MapThenSumSet(LAMBDA i : Interval(ss, i), A)
    BY DEF accumulatedActiveMinutes
  <2> HIDE DEF A
  <2>2. MapThenSumSet(LAMBDA i : Interval(ss, i), A) = SumOf(f, A)
    BY <1>2, IntervalSums
  <2> QED
    BY <2>1, <2>2
<1> HIDE DEF A, f, key, g
<1>7. SumOf(g, D) = SumOf(f, A)
  <2>1. HourCount \in Nat
    BY DEF DayAssumption
  <2> QED
    BY <1>3, <1>4, <1>5, <2>1, SumByKey
<1>8. accumulatedActiveMinutes(ss) = SumOf(g, DOMAIN g)
  BY <1>5, <1>6, <1>7
<1> QED
  BY <1>8 DEF g

\* idleStreakMs is what its loop computes.
LEMMA StreakIs ==
  ASSUME NEW ss, Len(ss) \in Nat
  PROVE  \A i \in 1 .. Len(ss) :
           IdleStreak(ss)[i] = IF i > 1 /\ Waiting(ss, i) THEN IdleStreak(ss)[i - 1] + Interval(ss, i) ELSE 0
<1> DEFINE n == Len(ss)
           Step(s) == [i \in 1 .. n |-> IF i > 1 /\ Waiting(ss, i) THEN s[i - 1] + Interval(ss, i) ELSE 0]
           Upto(s, d) == \A i \in 1 .. n : i <= d => s[i] = Step(s)[i]
           Good == {d \in Nat : \E s : Upto(s, d)}
<1>1. ASSUME NEW d \in Nat, \A m \in Nat : m < d => m \in Good
      PROVE  d \in Good
  <2>1. CASE d = 0
    BY <2>1
  <2>2. CASE d # 0
    <3>1. d - 1 \in Nat /\ d - 1 < d
      BY <2>2
    <3>2. d - 1 \in Good
      <4> HIDE DEF Good
      <4> QED
        BY <1>1, <3>1
    <3>3. PICK s : Upto(s, d - 1)
      BY <3>2
    <3> DEFINE x == Step(s)
    <3>4. \A i \in 1 .. n : i < d => x[i] = s[i]
      BY <3>3
    <3>5. ASSUME NEW i \in 1 .. n, i <= d PROVE x[i] = Step(x)[i]
      <4>1. CASE i > 1 /\ Waiting(ss, i)
        <5>1. i - 1 \in 1 .. n /\ i - 1 < d
          BY <3>5, <4>1
        <5>2. x[i - 1] = s[i - 1]
          BY <3>4, <5>1
        <5>3. x[i] = s[i - 1] + Interval(ss, i) /\ Step(x)[i] = x[i - 1] + Interval(ss, i)
          BY <4>1
        <5> QED
          BY <5>2, <5>3
      <4>2. CASE ~(i > 1 /\ Waiting(ss, i))
        BY <4>2
      <4> QED
        BY <4>1, <4>2
    <3>6. Upto(x, d)
      <4> HIDE DEF x
      <4> QED
        BY <3>5
    <3> HIDE DEF x, Upto
    <3> QED
      BY <3>6
  <2> QED
    BY <2>1, <2>2
<1>2. Good = Nat
  <2>1. Good \in SUBSET Nat
    OBVIOUS
  <2> HIDE DEF Good
  <2> QED
    BY <1>1, <2>1, Reached
<1>3. PICK s : Upto(s, n)
  BY <1>2
<1> DEFINE t == [i \in 1 .. n |-> s[i]]
<1>4. t = Step(t)
  <2>1. ASSUME NEW i \in 1 .. n PROVE t[i] = Step(t)[i]
    <3>1. t[i] = s[i] /\ s[i] = Step(s)[i]
      BY <1>3
    <3>2. i > 1 => t[i - 1] = s[i - 1]
      OBVIOUS
    <3> HIDE DEF t
    <3> QED
      BY <3>1, <3>2
  <2> QED
    BY <2>1
<1> HIDE DEF t
<1>5. \E u : u = Step(u)
  BY <1>4
<1>6. IdleStreak(ss) = CHOOSE u : u = Step(u)
  BY DEF IdleStreak
<1>7. IdleStreak(ss) = Step(IdleStreak(ss))
  <2> HIDE DEF Step
  <2> QED
    BY <1>5, <1>6
<1> QED
  BY <1>7

\* The streak at the end of a stretch counts at least the stretch.
LEMMA StreakCounts ==
  ASSUME DayAssumption, NEW ss, SamplesOfDay(ss), NEW i \in Steps(ss), NEW j \in Steps(ss),
         i <= j, Stretch(ss, i, j)
  PROVE  IdleStreak(ss)[j] \in Nat /\ IdleStreak(ss)[j] >= SumOf(Intervals(ss), i .. j)
<1> DEFINE f == Intervals(ss)
           st == IdleStreak(ss)
           Fine(k) == st[k] \in Nat /\ (k >= i => st[k] >= SumOf(f, i .. k))
           Good == {k \in Nat : k \in 1 .. j => Fine(k)}
<1>1. /\ Len(ss) \in Nat /\ Steps(ss) = 2 .. Len(ss) /\ IsFiniteSet(Steps(ss))
      /\ \A k \in Steps(ss) : f[k] = Interval(ss, k) /\ f[k] \in Nat /\ f[k] \in Int
  BY IntervalsAre DEF Interval
<1>2. \A k \in 1 .. Len(ss) :
        st[k] = IF k > 1 /\ Waiting(ss, k) THEN st[k - 1] + Interval(ss, k) ELSE 0
  BY <1>1, StreakIs
<1>3. \A S \in SUBSET Steps(ss) :
        SumOf(f, S) \in Int /\ \A x \in Steps(ss) \ S : SumOf(f, S \cup {x}) = f[x] + SumOf(f, S)
  <2>1. \A k \in Steps(ss) : f[k] \in Int
    BY <1>1
  <2> QED
    BY <1>1, <2>1, SumAdd
<1> HIDE DEF f, st
<1>4. ASSUME NEW k \in Nat, \A m \in Nat : m < k => m \in Good
      PROVE  k \in Good
  <2> SUFFICES ASSUME k \in 1 .. j PROVE Fine(k)
    OBVIOUS
  <2>1. k \in 1 .. Len(ss) /\ i \in Nat /\ j \in Nat /\ i > 1
    BY <1>1
  <2>2. CASE ~(k > 1 /\ Waiting(ss, k))
    <3>1. st[k] = 0
      BY <1>2, <2>1, <2>2
    <3>2. ~(k >= i)
      BY <2>1, <2>2 DEF Stretch
    <3> QED
      BY <3>1, <3>2
  <2>3. CASE k > 1 /\ Waiting(ss, k)
    <3>1. k - 1 \in Nat /\ k - 1 < k /\ k - 1 \in 1 .. j /\ k \in Steps(ss)
      BY <1>1, <2>1, <2>3
    <3>2. k - 1 \in Good
      <4> HIDE DEF Good
      <4> QED
        BY <1>4, <3>1
    <3>3. Fine(k - 1)
      BY <3>1, <3>2
    <3>4. st[k] = st[k - 1] + f[k] /\ f[k] \in Nat
      BY <1>1, <1>2, <2>1, <2>3, <3>1
    <3>5. st[k] \in Nat
      BY <3>3, <3>4
    <3>6. ASSUME k >= i PROVE st[k] >= SumOf(f, i .. k)
      <4> DEFINE R == i .. k - 1
      <4>1. /\ i .. k = R \cup {k} /\ R \in SUBSET Steps(ss) /\ k \in Steps(ss) \ R
        BY <1>1, <2>1, <3>1, <3>6
      <4>2. SumOf(f, i .. k) = f[k] + SumOf(f, R) /\ SumOf(f, R) \in Int
        <5> HIDE DEF R
        <5> QED
          BY <1>3, <4>1
      <4>3. st[k - 1] >= SumOf(f, R)
        <5>1. CASE k - 1 >= i
          BY <3>3, <5>1
        <5>2. CASE ~(k - 1 >= i)
          <6>1. R = {}
            BY <2>1, <3>1, <5>2
          <6>2. SumOf(f, R) = 0
            BY <6>1, SumPick, FS_EmptySet
          <6> QED
            BY <3>3, <6>2
        <5> QED
          BY <5>1, <5>2
      <4> HIDE DEF R
      <4> QED
        BY <3>3, <3>4, <4>2, <4>3
    <3> QED
      BY <3>5, <3>6
  <2> QED
    BY <2>2, <2>3
<1>5. Good = Nat
  <2>1. Good \in SUBSET Nat
    OBVIOUS
  <2> HIDE DEF Good
  <2> QED
    BY <1>4, <2>1, Reached
<1>6. j \in Good /\ j \in 1 .. j /\ j >= i
  BY <1>1, <1>5
<1>7. st[j] \in Nat /\ st[j] >= SumOf(f, i .. j)
  BY <1>6
<1> QED
  BY <1>7 DEF st, f

\* So what counts of a stretch is no more than the timeout.
LEMMA StretchCounts ==
  ASSUME DayAssumption, NEW ss, SamplesOfDay(ss), NEW i \in Steps(ss), NEW j \in Steps(ss),
         i <= j, Stretch(ss, i, j)
  PROVE  MapThenSumSet(LAMBDA n : Interval(ss, n), Active(ss) \cap (i .. j)) <= IdleTimeout
<1> DEFINE f == Intervals(ss)
           T == Active(ss) \cap (i .. j)
<1>1. /\ Len(ss) \in Nat /\ Steps(ss) = 2 .. Len(ss) /\ IsFiniteSet(Steps(ss))
      /\ \A k \in Steps(ss) : f[k] \in Nat
  BY IntervalsAre
<1>2. T \in SUBSET Steps(ss)
  BY DEF Active
<1>3. MapThenSumSet(LAMBDA n : Interval(ss, n), T) = SumOf(f, T)
  <2> HIDE DEF T
  <2> QED
    BY <1>2, IntervalSums
<1>4. CASE T = {}
  <2>1. SumOf(f, T) = 0
    <3>1. SumOf(f, {}) = 0
      BY SumPick, FS_EmptySet
    <3> QED
      BY <1>4, <3>1
  <2> QED
    BY <1>3, <2>1 DEF DayAssumption
<1>5. CASE T # {}
  <2>1. T \in SUBSET (1 .. Len(ss))
    BY <1>1, <1>2
  <2>2. PICK m \in T : \A l \in T : l <= m
    <3> HIDE DEF T
    <3> QED
      BY <1>1, <1>5, <2>1, LastPosition
  <2>3. m \in Active(ss) /\ m \in i .. j /\ m \in Steps(ss) /\ i <= m /\ m \in Nat
    BY <1>1, <1>2, <2>2
  <2>4. Waiting(ss, m) /\ Stretch(ss, i, m)
    BY <1>1, <2>3 DEF Stretch
  <2>5. IdleStreak(ss)[m] <= IdleTimeout
    BY <2>3, <2>4 DEF Active
  <2>6. IdleStreak(ss)[m] >= SumOf(f, i .. m)
    BY <2>3, <2>4, StreakCounts
  <2>7. T \in SUBSET (i .. m)
    BY <1>1, <1>2, <2>2, <2>3
  <2>8. SumOf(f, T) <= SumOf(f, i .. m) /\ SumOf(f, T) \in Nat /\ SumOf(f, i .. m) \in Nat
    <3> DEFINE B == i .. m
    <3>1. B \in SUBSET Steps(ss)
      BY <1>1, <2>3
    <3> HIDE DEF B, T, f
    <3>2. IsFiniteSet(B) /\ \A k \in B : f[k] \in Nat
      BY <1>1, <3>1, FS_Subset
    <3>3. T \in SUBSET B
      BY <2>7 DEF B
    <3>4. SumOf(f, T) <= SumOf(f, B) /\ SumOf(f, T) \in Nat /\ SumOf(f, B) \in Nat
      BY <3>2, <3>3, SumGrows
    <3> QED
      BY <3>4 DEF B
  <2>9. IdleStreak(ss)[m] \in Int /\ IdleTimeout \in Int
    BY <2>3, <2>4, StreakCounts DEF DayAssumption
  <2> HIDE DEF f, T
  <2>10. SumOf(f, T) <= IdleTimeout
    <3> DEFINE x == SumOf(f, T)
               y == SumOf(f, i .. m)
               z == IdleStreak(ss)[m]
    <3>1. x \in Int /\ y \in Int /\ z \in Int /\ IdleTimeout \in Int
      BY <2>8, <2>9
    <3>2. x <= y /\ z >= y /\ z <= IdleTimeout
      BY <2>5, <2>6, <2>8
    <3> HIDE DEF x, y, z
    <3>3. x <= IdleTimeout
      BY <3>1, <3>2
    <3> QED
      BY <3>3 DEF x
  <2>11. MapThenSumSet(LAMBDA n : Interval(ss, n), T) <= IdleTimeout
    BY <1>3, <2>10
  <2> QED
    BY <2>11 DEF T
<1> QED
  BY <1>4, <1>5

\* The events of a day: at times of the day, in their order, and an event that
\* follows another is of its kind.
DayEvent ==
  [kind: STRING, at: 0 .. DayTicks, transition: {"onset", "morph", "resolved"}, prev: Nat, boxed: Int]
EventsOfDay(es) ==
  /\ es \in Seq(DayEvent)
  /\ \A i, j \in DOMAIN es : i <= j => es[i].at <= es[j].at
  /\ \A i, j \in DOMAIN es : es[j].prev = i => es[j].kind = es[i].kind

\* One ban is over before the next of its kind begins.
BansApart(es) ==
  \A i, j \in DOMAIN es : i < j /\ es[i].kind = es[j].kind /\ es[i].transition = "onset"
                            => \E n \in (i + 1) .. j : es[n].prev = i

\* The greatest of nothing and a length.
LEMMA MaxWithZero == ASSUME NEW x \in Int PROVE Max({0, x}) = IF x > 0 THEN x ELSE 0
<1> DEFINE y == IF x > 0 THEN x ELSE 0
           S == {0, x}
<1>1. y \in S /\ \A z \in S : z <= y
  OBVIOUS
<1>2. \A w \in S : (\A z \in S : z <= w) => w = y
  OBVIOUS
<1>3. Max(S) = y
  <2> HIDE DEF S, y
  <2> QED
    BY <1>1, <1>2 DEF Max
<1> QED
  BY <1>3

\* When a ban ends: in the day, and not after the next of its kind begins.
LEMMA BanEnds ==
  ASSUME DayAssumption, NEW es, EventsOfDay(es), BansApart(es), NEW i \in DOMAIN es,
         es[i].transition = "onset"
  PROVE  /\ BanEnd(es, i) \in Int /\ BanEnd(es, i) <= DayTicks
         /\ \A j \in DOMAIN es : i < j /\ es[j].kind = es[i].kind => BanEnd(es, i) <= es[j].at
<1> DEFINE closers == {j \in OfKind(es, es[i].kind) : es[j].prev = i}
<1>1. /\ es \in Seq(DayEvent) /\ DOMAIN es = 1 .. Len(es) /\ Len(es) \in Nat
      /\ \A j \in DOMAIN es : es[j] \in DayEvent
  BY DEF EventsOfDay
<1>2. DayTicks \in Nat
  BY DEF DayAssumption, DayTicks
<1>3. \A e \in DayEvent : e.at \in 0 .. DayTicks /\ e.at \in Int /\ e.boxed \in Int
  BY <1>2 DEF DayEvent
<1>4. \A j \in DOMAIN es : es[j].at \in 0 .. DayTicks /\ es[j].at \in Int /\ es[j].boxed \in Int
  BY <1>1, <1>3
<1>5. CASE closers # {}
  <2>1. closers \in SUBSET Nat /\ closers \subseteq DOMAIN es
    BY <1>1 DEF OfKind
  <2>2. Min(closers) \in closers /\ \A m \in closers : Min(closers) <= m
    <3> HIDE DEF closers
    <3>1. \E x \in closers : \A m \in closers : x <= m
      BY <1>5, <2>1, LeastNumber
    <3> QED
      BY <3>1 DEF Min
  <2>3. BanEnd(es, i) = es[Min(closers)].at
    BY <1>5 DEF BanEnd
  <2> DEFINE c == Min(closers)
  <2>4. c \in DOMAIN es /\ c \in Nat /\ \A m \in closers : c <= m
    BY <2>1, <2>2
  <2> HIDE DEF c
  <2>5. ASSUME NEW j \in DOMAIN es, i < j, es[j].kind = es[i].kind
        PROVE  es[c].at <= es[j].at
    <3>1. PICK n \in (i + 1) .. j : es[n].prev = i
      BY <2>5 DEF BansApart
    <3>2. n \in DOMAIN es /\ n <= j
      BY <1>1, <2>5, <3>1
    <3>3. es[n].kind = es[i].kind
      BY <3>1, <3>2 DEF EventsOfDay
    <3>4. n \in closers
      BY <3>1, <3>2, <3>3 DEF OfKind
    <3>5. c <= j
      <4>1. c <= n /\ n \in Nat /\ j \in Nat
        BY <1>1, <2>4, <3>2, <3>4
      <4> QED
        BY <2>4, <3>2, <4>1
    <3> QED
      BY <2>4, <3>5 DEF EventsOfDay
  <2>6. BanEnd(es, i) = es[c].at
    BY <2>3 DEF c
  <2>7. es[c].at \in Int /\ es[c].at <= DayTicks
    BY <1>2, <1>4, <2>4
  <2> QED
    BY <2>5, <2>6, <2>7
<1>6. CASE closers = {}
  <2>1. BanEnd(es, i) = IF es[i].boxed # NoBox /\ es[i].boxed < DayTicks THEN es[i].boxed ELSE DayTicks
    BY <1>6 DEF BanEnd
  <2>2. BanEnd(es, i) \in Int /\ BanEnd(es, i) <= DayTicks
    BY <1>2, <1>4, <2>1
  <2>3. ASSUME NEW j \in DOMAIN es, i < j, es[j].kind = es[i].kind
        PROVE  FALSE
    <3>1. PICK n \in (i + 1) .. j : es[n].prev = i
      BY <2>3 DEF BansApart
    <3>2. n \in DOMAIN es
      BY <1>1, <2>3, <3>1
    <3>3. es[n].kind = es[i].kind
      BY <3>1, <3>2 DEF EventsOfDay
    <3> QED
      BY <1>6, <3>1, <3>2, <3>3 DEF OfKind
  <2> QED
    BY <2>2, <2>3
<1> QED
  BY <1>5, <1>6

\* So the bans of a kind fit into the day, one after the other.
LEMMA BansFit ==
  ASSUME DayAssumption, NEW es, EventsOfDay(es), BansApart(es), NEW k
  PROVE  banTotalDuration(es, k) \in 0 .. DayTicks
<1> DEFINE On == {i \in OfKind(es, k) : es[i].transition = "onset"}
           dur(i) == Max({0, BanEnd(es, i) - es[i].at})
           f == [i \in On |-> dur(i)]
           n == Len(es)
           Before(j) == {i \in On : i < j}
           Upto(j) == {i \in On : i <= j}
           Fine(j) == j \in On => SumOf(f, Before(j)) <= es[j].at
           Good == {j \in Nat : Fine(j)}
<1>1. /\ es \in Seq(DayEvent) /\ DOMAIN es = 1 .. n /\ n \in Nat
      /\ \A j \in DOMAIN es : es[j] \in DayEvent
  BY DEF EventsOfDay
<1>2. DayTicks \in Nat
  BY DEF DayAssumption, DayTicks
<1>3. \A e \in DayEvent : e.at \in 0 .. DayTicks /\ e.at \in Int
  BY <1>2 DEF DayEvent
<1>4. \A j \in DOMAIN es : es[j].at \in 0 .. DayTicks /\ es[j].at \in Int
  BY <1>1, <1>3
<1>5. /\ On \in SUBSET (1 .. n) /\ On \subseteq DOMAIN es /\ IsFiniteSet(On)
      /\ \A i \in On : i \in Nat /\ es[i].kind = k /\ es[i].transition = "onset"
  <2>1. On \in SUBSET (1 .. n) /\ On \subseteq DOMAIN es
    BY <1>1 DEF OfKind
  <2>2. IsFiniteSet(On)
    <3>1. IsFiniteSet(1 .. n)
      BY <1>1, FS_Interval
    <3> HIDE DEF On
    <3> QED
      BY <2>1, <3>1, FS_Subset
  <2> QED
    BY <1>1, <2>1, <2>2 DEF OfKind
<1>6. banTotalDuration(es, k) = SumOf(f, On)
  <2>1. banTotalDuration(es, k) = MapThenSumSet(dur, On)
    BY DEF banTotalDuration
  <2> HIDE DEF On
  <2>2. MapThenSumSet(dur, On) = SumOf(f, On)
    BY DEF SumOf, MapThenSumSet, MapThenFoldSet
  <2> QED
    BY <2>1, <2>2
<1>7. \A i \in On : /\ f[i] \in Nat
                    /\ es[i].at + f[i] <= DayTicks
                    /\ \A j \in On : i < j => es[i].at + f[i] <= es[j].at
  <2> SUFFICES ASSUME NEW i \in On
               PROVE  /\ f[i] \in Nat
                      /\ es[i].at + f[i] <= DayTicks
                      /\ \A j \in On : i < j => es[i].at + f[i] <= es[j].at
    OBVIOUS
  <2> DEFINE e == BanEnd(es, i)
  <2>1. i \in DOMAIN es /\ es[i].transition = "onset" /\ es[i].kind = k
    BY <1>5
  <2>2. /\ e \in Int /\ e <= DayTicks
        /\ \A j \in DOMAIN es : i < j /\ es[j].kind = es[i].kind => e <= es[j].at
    BY <2>1, BanEnds
  <2>3. f[i] = dur(i)
    OBVIOUS
  <2> HIDE DEF f, e, On
  <2>4. es[i].at \in 0 .. DayTicks /\ es[i].at \in Int
    BY <1>4, <2>1
  <2>5. f[i] = IF e - es[i].at > 0 THEN e - es[i].at ELSE 0
    <3>1. e - es[i].at \in Int
      BY <2>2, <2>4
    <3> QED
      BY <2>3, <3>1, MaxWithZero DEF e
  <2>6. \A j \in On : i < j => e <= es[j].at /\ es[i].at <= es[j].at /\ es[j].at \in Int
    <3> SUFFICES ASSUME NEW j \in On, i < j PROVE e <= es[j].at /\ es[i].at <= es[j].at /\ es[j].at \in Int
      OBVIOUS
    <3>1. j \in DOMAIN es /\ es[j].kind = k /\ i <= j
      BY <1>1, <1>5, <2>1
    <3> QED
      BY <1>4, <2>1, <2>2, <3>1 DEF EventsOfDay
  <2> QED
    BY <1>2, <2>2, <2>4, <2>5, <2>6
<1> HIDE DEF f, On, dur
<1>8. /\ \A S \in SUBSET On : SumOf(f, S) \in Nat
      /\ \A S \in SUBSET On : \A x \in On \ S : SumOf(f, S \cup {x}) = f[x] + SumOf(f, S)
  <2>1. \A i \in On : f[i] \in Int /\ f[i] \in Nat
    BY <1>7
  <2>2. \A S \in SUBSET On : SumOf(f, S) \in Nat
    BY <1>5, <2>1, SumGrows
  <2>3. \A i \in On : f[i] \in Int
    BY <2>1
  <2>4. \A S \in SUBSET On : \A x \in On \ S : SumOf(f, S \cup {x}) = f[x] + SumOf(f, S)
    BY <1>5, <2>3, SumAdd
  <2> QED
    BY <2>2, <2>4
\* What has come before an onset, with the last of it singled out.
<1>9. \A p \in On : SumOf(f, Upto(p)) = f[p] + SumOf(f, Before(p))
  <2> SUFFICES ASSUME NEW p \in On PROVE SumOf(f, Upto(p)) = f[p] + SumOf(f, Before(p))
    OBVIOUS
  <2>1. Before(p) \in SUBSET On /\ p \in On \ Before(p) /\ Upto(p) = Before(p) \cup {p}
    BY <1>5
  <2> HIDE DEF Before, Upto
  <2> QED
    BY <1>8, <2>1
<1>10. ASSUME NEW j \in Nat, \A m \in Nat : m < j => m \in Good
       PROVE  j \in Good
  <2> SUFFICES ASSUME j \in On PROVE SumOf(f, Before(j)) <= es[j].at
    OBVIOUS
  <2>1. es[j].at \in Nat
    BY <1>2, <1>4, <1>5
  <2>2. CASE Before(j) = {}
    <3>1. SumOf(f, {}) = 0
      BY SumPick, FS_EmptySet
    <3> QED
      BY <2>1, <2>2, <3>1
  <2>3. CASE Before(j) # {}
    <3>1. Before(j) \in SUBSET (1 .. n) /\ Before(j) \subseteq On
      BY <1>5
    <3>2. PICK p \in Before(j) : \A l \in Before(j) : l <= p
      <4> HIDE DEF Before
      <4> QED
        BY <1>1, <2>3, <3>1, LastPosition
    <3>3. p \in On /\ p \in Nat /\ p < j
      BY <1>5, <3>1, <3>2
    <3>4. Before(j) = Upto(p)
      <4>1. ASSUME NEW i \in On PROVE i < j <=> i <= p
        <5>1. i \in Nat
          BY <1>5
        <5>2. i < j => i \in Before(j)
          OBVIOUS
        <5>3. i < j => i <= p
          <6> HIDE DEF Before
          <6> QED
            BY <3>2, <5>2
        <5>4. i <= p => i < j
          BY <3>3, <5>1
        <5> QED
          BY <5>3, <5>4
      <4> QED
        BY <4>1
    <3>5. SumOf(f, Before(p)) <= es[p].at
      BY <1>10, <3>3
    <3>6. es[p].at + f[p] <= es[j].at /\ f[p] \in Nat /\ es[p].at \in Int
      BY <1>4, <1>5, <1>7, <3>3
    <3>7. SumOf(f, Before(p)) \in Nat
      BY <1>8
    <3>8. SumOf(f, Before(j)) = f[p] + SumOf(f, Before(p))
      BY <1>9, <3>3, <3>4
    <3> HIDE DEF Before
    <3> QED
      BY <2>1, <3>5, <3>6, <3>7, <3>8
  <2> QED
    BY <2>2, <2>3
<1>11. Good = Nat
  <2>1. Good \in SUBSET Nat
    OBVIOUS
  <2> HIDE DEF Good
  <2> QED
    BY <1>10, <2>1, Reached
<1>12. SumOf(f, On) \in 0 .. DayTicks
  <2>1. CASE On = {}
    <3>1. SumOf(f, {}) = 0
      BY SumPick, FS_EmptySet
    <3> QED
      BY <1>2, <2>1, <3>1
  <2>2. CASE On # {}
    <3>1. PICK p \in On : \A l \in On : l <= p
      BY <1>1, <1>5, <2>2, LastPosition
    <3>2. On = Upto(p) /\ p \in Nat
      BY <1>5, <3>1
    <3>3. SumOf(f, Before(p)) <= es[p].at
      BY <1>11, <3>2
    <3>4. es[p].at + f[p] <= DayTicks /\ f[p] \in Nat /\ es[p].at \in Int
      BY <1>4, <1>5, <1>7
    <3>5. SumOf(f, Before(p)) \in Nat
      BY <1>8
    <3>6. SumOf(f, On) = f[p] + SumOf(f, Before(p))
      BY <1>9, <3>2
    <3> HIDE DEF Before
    <3> QED
      BY <1>2, <3>3, <3>4, <3>5, <3>6
  <2> QED
    BY <2>1, <2>2
<1> QED
  BY <1>6, <1>12

-----------------------------------------------------------------------------
\* The measures of a day agree with each other and with its clock, for every
\* day: any hours, any samples in the order of their times and any events
\* (computeDailyRow() of daily.ts; MCParts checks all days of six ticks).
THEOREM DaysAgree ==
  ASSUME DayAssumption, NEW ss, SamplesOfDay(ss), NEW es, EventsOfDay(es)
  PROVE  MeasuresAgree(ss, es)
<1> DEFINE row == computeDailyRow(ss, es)
           f == Intervals(ss)
<1> SUFFICES ASSUME ss # <<>>
             PROVE  /\ row.active = MapThenSumSet(LAMBDA h : row.byHour[h], DOMAIN row.byHour)
                    /\ {row.active, row.low, row.boxed, row.demoted, row.nonNormal} \subseteq 0 .. row.span
                    /\ \A i, j \in Steps(ss) :
                         i <= j /\ Stretch(ss, i, j) =>
                           MapThenSumSet(LAMBDA n : Interval(ss, n), Active(ss) \cap (i .. j)) <= IdleTimeout
                    /\ BansApart(es) => \A k \in DOMAIN row.ban : row.ban[k] \in 0 .. DayTicks
  BY DEF MeasuresAgree, BansApart
<1>1. /\ row.active = accumulatedActiveMinutes(ss) /\ row.byHour = hourBuckets(ss)
      /\ row.span = utcClockSpanMinutes(ss)
      /\ row.low = Burden(ss, PriorityLow(ss)) /\ row.boxed = Burden(ss, Boxed(ss))
      /\ row.demoted = Burden(ss, UnitsDemoted(ss)) /\ row.nonNormal = Burden(ss, NonNormal(ss))
      /\ row.ban = [k \in {"priority", "service_mode"} |-> banTotalDuration(es, k)]
  <2>1. row.active = accumulatedActiveMinutes(ss) /\ row.byHour = hourBuckets(ss)
    BY DEF computeDailyRow
  <2>2. row.span = utcClockSpanMinutes(ss)
    BY DEF computeDailyRow
  <2>3. row.low = Burden(ss, PriorityLow(ss)) /\ row.boxed = Burden(ss, Boxed(ss))
    BY DEF computeDailyRow
  <2>4. row.demoted = Burden(ss, UnitsDemoted(ss)) /\ row.nonNormal = Burden(ss, NonNormal(ss))
    BY DEF computeDailyRow
  <2>5. row.ban = [k \in {"priority", "service_mode"} |-> banTotalDuration(es, k)]
    BY DEF computeDailyRow
  <2> HIDE DEF row
  <2> QED
    BY <2>1, <2>2, <2>3, <2>4, <2>5
<1> HIDE DEF row
<1>2. row.active = MapThenSumSet(LAMBDA h : row.byHour[h], DOMAIN row.byHour)
  <2>1. MapThenSumSet(LAMBDA h : row.byHour[h], DOMAIN row.byHour) = SumOf(row.byHour, DOMAIN row.byHour)
    BY DEF SumOf
  <2>2. accumulatedActiveMinutes(ss) = SumOf(hourBuckets(ss), DOMAIN hourBuckets(ss))
    BY HoursAddUp
  <2> QED
    BY <1>1, <2>1, <2>2
<1>3. \A T \in SUBSET Steps(ss) : MapThenSumSet(LAMBDA i : Interval(ss, i), T) \in 0 .. row.span
  <2> SUFFICES ASSUME NEW T \in SUBSET Steps(ss)
               PROVE  MapThenSumSet(LAMBDA i : Interval(ss, i), T) \in 0 .. row.span
    OBVIOUS
  <2>1. SumOf(f, T) \in 0 .. utcClockSpanMinutes(ss)
    BY PartFits
  <2>2. MapThenSumSet(LAMBDA i : Interval(ss, i), T) = SumOf(f, T)
    BY IntervalSums
  <2> QED
    BY <1>1, <2>1, <2>2
<1>4. row.active \in 0 .. row.span
  <2>1. Active(ss) \in SUBSET Steps(ss)
    BY DEF Active
  <2>2. accumulatedActiveMinutes(ss) = MapThenSumSet(LAMBDA i : Interval(ss, i), Active(ss))
    BY DEF accumulatedActiveMinutes
  <2> QED
    BY <1>1, <1>3, <2>1, <2>2
<1>5. \A flagged : Burden(ss, flagged) \in 0 .. row.span
  <2> SUFFICES ASSUME NEW flagged PROVE Burden(ss, flagged) \in 0 .. row.span
    OBVIOUS
  <2> DEFINE T == {i \in Steps(ss) : ~Identical(ss, i) /\ i - 1 \in flagged}
  <2>1. T \in SUBSET Steps(ss)
    OBVIOUS
  <2>2. Burden(ss, flagged) = MapThenSumSet(LAMBDA i : Interval(ss, i), T)
    BY DEF Burden
  <2> HIDE DEF T
  <2> QED
    BY <1>3, <2>1, <2>2
<1>6. {row.active, row.low, row.boxed, row.demoted, row.nonNormal} \subseteq 0 .. row.span
  BY <1>1, <1>4, <1>5
<1>7. \A i, j \in Steps(ss) :
        i <= j /\ Stretch(ss, i, j) =>
          MapThenSumSet(LAMBDA n : Interval(ss, n), Active(ss) \cap (i .. j)) <= IdleTimeout
  BY StretchCounts
<1>8. BansApart(es) => \A k \in DOMAIN row.ban : row.ban[k] \in 0 .. DayTicks
  BY <1>1, BansFit
<1> QED
  BY <1>2, <1>6, <1>7, <1>8
=============================================================================
