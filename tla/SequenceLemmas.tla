--------------------------- MODULE SequenceLemmas ---------------------------
(***************************************************************************)
(* Facts about sequences that the proofs share: the entries of queues and  *)
(* mailboxes, queues without repetition, the last of some positions and    *)
(* the least of some numbers.                                              *)
(***************************************************************************)
EXTENDS SequenceTheorems, FiniteSetTheorems, WellFoundedInduction, TLAPS

\* Range and IsInjective of a sequence, by its positions.
LEMMA Positions ==
  ASSUME NEW S, NEW s \in Seq(S)
  PROVE  /\ \A x : x \in Range(s) <=> \E n \in 1 .. Len(s) : s[n] = x
         /\ IsInjective(s) <=> \A m, n \in 1 .. Len(s) : s[m] = s[n] => m = n
         /\ Range(s) \subseteq S /\ Len(s) \in Nat
  BY LenProperties DEF Range, IsInjective

\* An empty sequence has no entries.
LEMMA EmptyEntries ==
  /\ Range(<<>>) = {} /\ IsInjective(<<>>)
  /\ \A S : <<>> \in Seq(S)
<1>1. DOMAIN <<>> = {} /\ \A S : <<>> \in Seq(S)
  BY SMT
<1> QED
  BY <1>1 DEF Range, IsInjective

\* What putting one entry at the end of the queue does to its entries.
LEMMA AppendEntries ==
  ASSUME NEW S, NEW s \in Seq(S), NEW e \in S
  PROVE  /\ Append(s, e) \in Seq(S) /\ Append(s, e) # <<>>
         /\ Range(Append(s, e)) = Range(s) \cup {e}
         /\ IsInjective(s) /\ e \notin Range(s) => IsInjective(Append(s, e))
<1> DEFINE a == Append(s, e)
<1>1. /\ a \in Seq(S) /\ a # <<>> /\ Len(a) = Len(s) + 1 /\ Len(s) \in Nat
      /\ \A i \in 1 .. Len(s) + 1 : a[i] = IF i <= Len(s) THEN s[i] ELSE e
  OBVIOUS
<1> HIDE DEF a
<1>2. \A x : x \in Range(a) <=> x \in Range(s) \cup {e}
  <2>1. \A x : (\E n \in 1 .. Len(a) : a[n] = x) <=> (\E n \in 1 .. Len(s) : s[n] = x) \/ x = e
    BY <1>1
  <2> QED
    BY <1>1, <2>1, Positions
<1>3. ASSUME IsInjective(s), e \notin Range(s)
      PROVE  \A m, n \in 1 .. Len(a) : a[m] = a[n] => m = n
  <2>1. /\ \A m, n \in 1 .. Len(s) : s[m] = s[n] => m = n
        /\ \A n \in 1 .. Len(s) : s[n] # e
    BY <1>3, Positions
  <2> QED
    BY <1>1, <2>1
<1> QED
  BY <1>1, <1>2, <1>3, Positions DEF a

\* The same for taking the first one away.
LEMMA TailEntries ==
  ASSUME NEW S, NEW s \in Seq(S), s # <<>>, IsInjective(s)
  PROVE  /\ Tail(s) \in Seq(S) /\ IsInjective(Tail(s))
         /\ Range(Tail(s)) = Range(s) \ {Head(s)} /\ Head(s) \in Range(s)
<1> DEFINE t == Tail(s)
<1>1. /\ t \in Seq(S) /\ Len(t) = Len(s) - 1 /\ Len(s) \in Nat /\ Len(s) > 0
      /\ \A i \in 1 .. Len(s) - 1 : t[i] = s[i + 1]
      /\ Head(s) = s[1]
  OBVIOUS
<1>2. \A m, n \in 1 .. Len(s) : s[m] = s[n] => m = n
  BY Positions
<1> HIDE DEF t
<1>3. \A m, n \in 1 .. Len(t) : t[m] = t[n] => m = n
  BY <1>1, <1>2
<1>4. ASSUME NEW x PROVE x \in Range(t) <=> x \in Range(s) \ {Head(s)}
  <2>1. (\E n \in 1 .. Len(t) : t[n] = x) <=> (\E n \in 1 .. Len(s) : s[n] = x) /\ x # s[1]
    <3>1. ASSUME NEW n \in 1 .. Len(t), t[n] = x
          PROVE  n + 1 \in 1 .. Len(s) /\ s[n + 1] = x /\ x # s[1]
      BY <1>1, <1>2, <3>1
    <3>2. ASSUME NEW n \in 1 .. Len(s), s[n] = x, x # s[1]
          PROVE  n - 1 \in 1 .. Len(t) /\ t[n - 1] = x
      BY <1>1, <3>2
    <3> QED
      BY <3>1, <3>2
  <2> QED
    BY <1>1, <2>1, Positions
<1>5. Head(s) \in Range(s)
  BY <1>1, Positions
<1> QED
  BY <1>1, <1>3, <1>4, <1>5, Positions DEF t

\* ... and for putting a batch in front of it.
LEMMA ConcatEntries ==
  ASSUME NEW S, NEW s \in Seq(S), NEW t \in Seq(S)
  PROVE  /\ s \o t \in Seq(S)
         /\ Range(s \o t) = Range(s) \cup Range(t)
         /\ IsInjective(s) /\ IsInjective(t) /\ Range(s) \cap Range(t) = {} =>
              IsInjective(s \o t)
<1> DEFINE c == s \o t
<1>1. /\ c \in Seq(S) /\ Len(c) = Len(s) + Len(t) /\ Len(s) \in Nat /\ Len(t) \in Nat
      /\ \A i \in 1 .. Len(s) + Len(t) : c[i] = IF i <= Len(s) THEN s[i] ELSE t[i - Len(s)]
  OBVIOUS
<1> HIDE DEF c
<1>2. ASSUME NEW x PROVE x \in Range(c) <=> x \in Range(s) \cup Range(t)
  <2>1. ASSUME NEW n \in 1 .. Len(c), c[n] = x
        PROVE  (\E m \in 1 .. Len(s) : s[m] = x) \/ (\E m \in 1 .. Len(t) : t[m] = x)
    <3>1. CASE n <= Len(s)
      BY <1>1, <2>1, <3>1
    <3>2. CASE ~(n <= Len(s))
      <4>1. n - Len(s) \in 1 .. Len(t) /\ t[n - Len(s)] = x
        BY <1>1, <2>1, <3>2
      <4> QED
        BY <4>1
    <3> QED
      BY <3>1, <3>2
  <2>2. ASSUME NEW m \in 1 .. Len(s), s[m] = x PROVE m \in 1 .. Len(c) /\ c[m] = x
    BY <1>1, <2>2
  <2>3. ASSUME NEW m \in 1 .. Len(t), t[m] = x
        PROVE  m + Len(s) \in 1 .. Len(c) /\ c[m + Len(s)] = x
    <3>1. /\ m + Len(s) \in 1 .. Len(s) + Len(t) /\ ~(m + Len(s) <= Len(s))
          /\ (m + Len(s)) - Len(s) = m
      BY <1>1
    <3>2. c[m + Len(s)] = t[(m + Len(s)) - Len(s)]
      BY <1>1, <3>1
    <3> QED
      BY <1>1, <2>3, <3>1, <3>2
  <2>4. /\ x \in Range(c) <=> \E m \in 1 .. Len(c) : c[m] = x
        /\ x \in Range(s) <=> \E m \in 1 .. Len(s) : s[m] = x
        /\ x \in Range(t) <=> \E m \in 1 .. Len(t) : t[m] = x
    BY <1>1, Positions
  <2> QED
    BY <2>1, <2>2, <2>3, <2>4
<1>3. ASSUME IsInjective(s), IsInjective(t), Range(s) \cap Range(t) = {}
      PROVE  \A m, n \in 1 .. Len(c) : c[m] = c[n] => m = n
  <2>1. /\ \A m, n \in 1 .. Len(s) : s[m] = s[n] => m = n
        /\ \A m, n \in 1 .. Len(t) : t[m] = t[n] => m = n
        /\ \A m \in 1 .. Len(s), n \in 1 .. Len(t) : s[m] # t[n]
    BY <1>3, Positions
  <2> SUFFICES ASSUME NEW m \in 1 .. Len(c), NEW n \in 1 .. Len(c), c[m] = c[n] PROVE m = n
    OBVIOUS
  <2>2. CASE m <= Len(s) /\ n <= Len(s)
    BY <1>1, <2>1, <2>2
  <2>3. CASE ~(m <= Len(s)) /\ ~(n <= Len(s))
    <3>1. c[m] = t[m - Len(s)] /\ c[n] = t[n - Len(s)]
      BY <1>1, <2>3
    <3>2. m - Len(s) \in 1 .. Len(t) /\ n - Len(s) \in 1 .. Len(t)
      BY <1>1, <2>3
    <3>3. m - Len(s) = n - Len(s)
      BY <2>1, <3>1, <3>2
    <3> QED
      BY <1>1, <3>3
  <2>4. CASE (m <= Len(s)) # (n <= Len(s))
    <3>1. ASSUME NEW i \in 1 .. Len(c), NEW j \in 1 .. Len(c), i <= Len(s), ~(j <= Len(s))
          PROVE  c[i] # c[j]
      <4>1. c[i] = s[i] /\ c[j] = t[j - Len(s)]
        BY <1>1, <3>1
      <4>2. i \in 1 .. Len(s) /\ j - Len(s) \in 1 .. Len(t)
        BY <1>1, <3>1
      <4> QED
        BY <2>1, <4>1, <4>2
    <3> QED
      BY <2>4, <3>1
  <2> QED
    BY <2>2, <2>3, <2>4
<1> QED
  BY <1>1, <1>2, <1>3, Positions DEF c

\* ... and for cutting it in two.
LEMMA SplitEntries ==
  ASSUME NEW S, NEW s \in Seq(S), NEW n \in 0 .. Len(s), IsInjective(s)
  PROVE  /\ SubSeq(s, n + 1, Len(s)) \in Seq(S)
         /\ IsInjective(SubSeq(s, n + 1, Len(s)))
         /\ Range(SubSeq(s, n + 1, Len(s))) = Range(s) \ Range(SubSeq(s, 1, n))
         /\ Range(SubSeq(s, 1, n)) \subseteq Range(s)
<1> DEFINE a == SubSeq(s, 1, n)
           b == SubSeq(s, n + 1, Len(s))
<1>1. /\ a \in Seq(S) /\ Len(a) = n /\ Len(s) \in Nat
      /\ \A i \in 1 .. n : a[i] = s[i]
  OBVIOUS
<1>2. /\ b \in Seq(S) /\ Len(b) = Len(s) - n
      /\ \A i \in 1 .. Len(s) - n : b[i] = s[n + i]
  OBVIOUS
<1>3. \A k, m \in 1 .. Len(s) : s[k] = s[m] => k = m
  BY Positions
<1> HIDE DEF a, b
<1>4. \A k, m \in 1 .. Len(b) : b[k] = b[m] => k = m
  BY <1>1, <1>2, <1>3
<1>5. ASSUME NEW x \in Range(b) PROVE x \in Range(s) /\ x \notin Range(a)
  <2>1. PICK m \in 1 .. Len(b) : b[m] = x
    BY <1>2, Positions
  <2>2. n + m \in 1 .. Len(s) /\ s[n + m] = x
    BY <1>1, <1>2, <2>1
  <2>3. \A i \in 1 .. Len(a) : a[i] # x
    BY <1>1, <1>3, <2>1, <2>2
  <2> QED
    BY <1>1, <2>2, <2>3, Positions
<1>6. ASSUME NEW x \in Range(s) PROVE x \in Range(a) \/ x \in Range(b)
  <2>1. PICK m \in 1 .. Len(s) : s[m] = x
    BY Positions
  <2>2. CASE m <= n
    <3>1. m \in 1 .. Len(a) /\ a[m] = x
      BY <1>1, <2>1, <2>2
    <3> QED
      BY <1>1, <3>1, Positions
  <2>3. CASE ~(m <= n)
    <3>1. m - n \in 1 .. Len(b) /\ b[m - n] = x
      BY <1>1, <1>2, <2>1, <2>3
    <3> QED
      BY <1>2, <3>1, Positions
  <2> QED
    BY <2>2, <2>3
<1>7. ASSUME NEW x \in Range(a) PROVE x \in Range(s)
  <2>1. PICK m \in 1 .. Len(a) : a[m] = x
    BY <1>1, Positions
  <2>2. m \in 1 .. Len(s) /\ s[m] = x
    BY <1>1, <2>1
  <2> QED
    BY <2>2, Positions
<1>8. IsInjective(b)
  BY <1>2, <1>4, Positions
<1>9. Range(b) = Range(s) \ Range(a) /\ Range(a) \subseteq Range(s)
  BY <1>5, <1>6, <1>7
<1> QED
  BY <1>2, <1>8, <1>9 DEF a, b

\* A message that is read leaves its mailbox.
LEMMA ReadEntries ==
  ASSUME NEW S, NEW s \in Seq(S), s # <<>>
  PROVE  /\ Tail(s) \in Seq(S) /\ Head(s) \in Range(s) /\ Head(s) \in S
         /\ Range(Tail(s)) \subseteq Range(s)
<1> DEFINE t == Tail(s)
<1>1. /\ t \in Seq(S) /\ Len(t) = Len(s) - 1 /\ Len(s) \in Nat /\ Len(s) > 0
      /\ \A i \in 1 .. Len(s) - 1 : t[i] = s[i + 1]
      /\ Head(s) = s[1]
  OBVIOUS
<1> HIDE DEF t
<1>2. ASSUME NEW x \in Range(t) PROVE x \in Range(s)
  <2>1. PICK n \in 1 .. Len(t) : t[n] = x
    BY <1>1, Positions
  <2>2. n + 1 \in 1 .. Len(s) /\ s[n + 1] = x
    BY <1>1, <2>1
  <2> QED
    BY <2>2, Positions
<1>3. Head(s) \in Range(s) /\ Head(s) \in S
  BY <1>1, Positions
<1> QED
  BY <1>1, <1>2, <1>3 DEF t

\* Taking the entry at one position away.
LEMMA RemoveEntries ==
  ASSUME NEW S, NEW s \in Seq(S), NEW k \in 1 .. Len(s), IsInjective(s)
  PROVE  LET t == SubSeq(s, 1, k - 1) \o SubSeq(s, k + 1, Len(s))
         IN  /\ t \in Seq(S) /\ IsInjective(t) /\ Range(t) = Range(s) \ {s[k]}
             /\ Len(t) = Len(s) - 1
<1> DEFINE t == SubSeq(s, 1, k - 1) \o SubSeq(s, k + 1, Len(s))
           n == Len(s)
<1>1. n \in Nat /\ k \in 1 .. n
  OBVIOUS
<1>2. /\ SubSeq(s, 1, k - 1) \in Seq(S) /\ Len(SubSeq(s, 1, k - 1)) = k - 1
      /\ \A i \in 1 .. k - 1 : SubSeq(s, 1, k - 1)[i] = s[i]
  OBVIOUS
<1>3. /\ SubSeq(s, k + 1, n) \in Seq(S) /\ Len(SubSeq(s, k + 1, n)) = n - k
      /\ \A i \in 1 .. n - k : SubSeq(s, k + 1, n)[i] = s[k + i]
  OBVIOUS
<1>4. /\ t \in Seq(S) /\ Len(t) = n - 1
      /\ \A i \in 1 .. n - 1 : t[i] = IF i <= k - 1 THEN s[i] ELSE s[i + 1]
  <2>1. \A i \in 1 .. n - 1 : ~(i <= k - 1) =>
          i - (k - 1) \in 1 .. n - k /\ k + (i - (k - 1)) = i + 1
    BY <1>1
  <2>2. ASSUME NEW u \in Seq(S), NEW v \in Seq(S), Len(u) = k - 1, Len(v) = n - k
        PROVE  /\ u \o v \in Seq(S) /\ Len(u \o v) = n - 1
               /\ \A i \in 1 .. n - 1 : (u \o v)[i] = IF i <= k - 1 THEN u[i] ELSE v[i - (k - 1)]
    <3>1. /\ u \o v \in Seq(S) /\ Len(u \o v) = Len(u) + Len(v)
          /\ \A i \in 1 .. Len(u) + Len(v) : (u \o v)[i] = IF i <= Len(u) THEN u[i] ELSE v[i - Len(u)]
      OBVIOUS
    <3>2. Len(u) + Len(v) = n - 1
      BY <1>1, <2>2
    <3> HIDE DEF n
    <3> QED
      BY <2>2, <3>1, <3>2
  <2>3. /\ t \in Seq(S) /\ Len(t) = n - 1
        /\ \A i \in 1 .. n - 1 :
              t[i] = IF i <= k - 1 THEN SubSeq(s, 1, k - 1)[i]
                     ELSE SubSeq(s, k + 1, n)[i - (k - 1)]
    BY <1>2, <1>3, <2>2
  <2> HIDE DEF t, n
  <2> QED
    BY <1>1, <1>2, <1>3, <2>1, <2>3
<1>5. \A i, j \in 1 .. n : s[i] = s[j] => i = j
  BY Positions
<1> HIDE DEF t, n
<1>6. \A i, j \in 1 .. n - 1 : t[i] = t[j] => i = j
  <2> DEFINE p(i) == IF i <= k - 1 THEN i ELSE i + 1
  <2>1. \A i \in 1 .. n - 1 : p(i) \in 1 .. n /\ t[i] = s[p(i)]
    BY <1>1, <1>4
  <2>2. \A i, j \in 1 .. n - 1 : p(i) = p(j) => i = j
    BY <1>1
  <2> HIDE DEF p
  <2> QED
    BY <1>5, <2>1, <2>2
<1>7. ASSUME NEW x PROVE (\E i \in 1 .. n - 1 : t[i] = x) <=> (\E i \in 1 .. n : s[i] = x) /\ x # s[k]
  <2>1. ASSUME NEW i \in 1 .. n - 1, t[i] = x PROVE (\E j \in 1 .. n : s[j] = x) /\ x # s[k]
    <3>1. i \in 1 .. n /\ i + 1 \in 1 .. n
      BY <1>1
    <3>2. CASE i <= k - 1
      BY <1>1, <1>4, <1>5, <2>1, <3>1, <3>2
    <3>3. CASE ~(i <= k - 1)
      <4>1. s[i + 1] = x /\ i + 1 # k
        BY <1>1, <1>4, <2>1, <3>3
      <4> QED
        BY <1>1, <1>5, <3>1, <4>1
    <3> QED
      BY <3>2, <3>3
  <2>2. ASSUME NEW i \in 1 .. n, s[i] = x, x # s[k] PROVE \E j \in 1 .. n - 1 : t[j] = x
    <3>1. CASE i < k
      <4>1. i \in 1 .. n - 1 /\ t[i] = x
        BY <1>1, <1>4, <2>2, <3>1
      <4> QED
        BY <4>1
    <3>2. CASE i > k
      <4>1. i - 1 \in 1 .. n - 1 /\ t[i - 1] = x
        BY <1>1, <1>4, <2>2, <3>2
      <4> QED
        BY <4>1
    <3> QED
      BY <1>1, <2>2, <3>1, <3>2
  <2> QED
    BY <2>1, <2>2
<1>8. IsInjective(t) /\ \A x : x \in Range(t) <=> x \in Range(s) /\ x # s[k]
  <2>1. /\ \A x : x \in Range(t) <=> \E i \in 1 .. n - 1 : t[i] = x
        /\ IsInjective(t)
    BY <1>4, <1>6, Positions
  <2>2. \A x : x \in Range(s) <=> \E i \in 1 .. n : s[i] = x
    BY Positions DEF n
  <2> QED
    BY <1>7, <2>1, <2>2
<1> QED
  BY <1>4, <1>8 DEF t, n

\* A sequence without repetition has as many positions with some entries as
\* there are such entries.
LEMMA CountEntries ==
  ASSUME NEW S, NEW s \in Seq(S), IsInjective(s), NEW T \in SUBSET Range(s)
  PROVE  /\ IsFiniteSet(T)
         /\ Cardinality(T) = Cardinality({k \in DOMAIN s : s[k] \in T})
<1> DEFINE K == {k \in DOMAIN s : s[k] \in T}
           f == [k \in K |-> s[k]]
<1>1. DOMAIN s = 1 .. Len(s) /\ Len(s) \in Nat
  OBVIOUS
<1>2. IsFiniteSet(K)
  <2>1. IsFiniteSet(1 .. Len(s))
    BY <1>1, FS_Interval
  <2>2. K \in SUBSET (1 .. Len(s))
    BY <1>1
  <2> HIDE DEF K
  <2> QED
    BY <2>1, <2>2, FS_Subset
<1>3. f \in [K -> T] /\ \A a, b \in K : f[a] = f[b] => a = b
  BY DEF IsInjective
<1>4. \A x \in T : \E k \in K : f[k] = x
  BY DEF Range
<1>5. f \in Injection(K, T) /\ f \in Surjection(K, T)
  BY <1>3, <1>4 DEF Injection, Surjection, IsInjective
<1> HIDE DEF f
<1>6. ExistsBijection(K, T)
  BY <1>5 DEF ExistsBijection, Bijection
<1> HIDE DEF K
<1>7. IsFiniteSet(T) /\ Cardinality(T) = Cardinality(K)
  BY <1>2, <1>6, FS_Bijection
<1> QED
  BY <1>7 DEF K

\* ... and so its length is the number of its entries.
LEMMA LengthIsCount ==
  ASSUME NEW S, NEW s \in Seq(S), IsInjective(s)
  PROVE  IsFiniteSet(Range(s)) /\ Len(s) = Cardinality(Range(s))
<1>1. Len(s) \in Nat /\ {k \in DOMAIN s : s[k] \in Range(s)} = 1 .. Len(s)
  BY DEF Range
<1>2. Cardinality(1 .. Len(s)) = Len(s)
  <2>1. /\ \A b \in Int : Cardinality(1 .. b) = IF 1 > b THEN 0 ELSE b - 1 + 1
    BY FS_Interval
  <2> QED
    BY <1>1, <2>1
<1>3. Range(s) \in SUBSET Range(s)
  OBVIOUS
<1>4. /\ IsFiniteSet(Range(s))
      /\ Cardinality(Range(s)) = Cardinality({k \in DOMAIN s : s[k] \in Range(s)})
  BY <1>3, CountEntries
<1> QED
  BY <1>1, <1>2, <1>4

\* The least number of a set.
LEMMA LeastNumber ==
  ASSUME NEW T \in SUBSET Nat, T # {}
  PROVE  \E n \in T : \A m \in T : n <= m
<1>1. PICK t \in T : \A u \in T : <<u, t>> \notin OpToRel(<, Nat)
  BY NatLessThanWellFounded, WFMin
<1>2. \A u \in T : ~(u < t)
  BY <1>1 DEF OpToRel
<1>3. \A u \in T : u \in Nat
  OBVIOUS
<1> QED
  BY <1>2, <1>3

\* A set of positions that is not empty has a last one.
LEMMA LastPosition ==
  ASSUME NEW n \in Nat, NEW S \in SUBSET (1 .. n), S # {}
  PROVE  \E j \in S : \A l \in S : l <= j
<1> DEFINE T == {n - j : j \in S}
<1>0. \A j \in S : j \in Nat /\ n - j \in Nat /\ n - j \in T
  OBVIOUS
<1>1. T \subseteq Nat /\ T # {}
  BY <1>0
<1>2. PICK t \in T : \A u \in T : <<u, t>> \notin OpToRel(<, Nat)
  BY <1>1, NatLessThanWellFounded, WFMin
<1>3. \A u \in T : ~(u < t)
  BY <1>1, <1>2 DEF OpToRel
<1>4. PICK j \in S : t = n - j
  OBVIOUS
<1>5. \A l \in S : ~(n - l < n - j)
  BY <1>0, <1>3, <1>4
<1> HIDE DEF T
<1>6. \A l \in S : l <= j
  BY <1>0, <1>5
<1> QED
  BY <1>6

\* The elements of a finite set counted in an order: up[k] is k with what comes
\* before it. Every number up to the size of the set is the count of one element.
LEMMA Ranks ==
  ASSUME NEW S, IsFiniteSet(S), NEW up \in [S -> SUBSET S], \A k \in S : k \in up[k],
         \A j, k \in S : j # k => (up[j] \subseteq up[k] /\ k \notin up[j])
                                  \/ (up[k] \subseteq up[j] /\ j \notin up[k])
  PROVE  /\ Cardinality(S) \in Nat
         /\ \A k \in S : Cardinality(up[k]) \in 1 .. Cardinality(S)
         /\ \A m \in 1 .. Cardinality(S) : \E k \in S : Cardinality(up[k]) = m
         /\ \A j, k \in S : Cardinality(up[j]) = Cardinality(up[k]) => j = k
<1> DEFINE size == Cardinality(S)
           rank == [k \in S |-> Cardinality(up[k])]
<1>1. size \in Nat
  BY FS_CardinalityType
<1>2. \A k \in S : IsFiniteSet(up[k]) /\ Cardinality(up[k]) \in 1 .. size
  <2> SUFFICES ASSUME NEW k \in S PROVE IsFiniteSet(up[k]) /\ Cardinality(up[k]) \in 1 .. size
    OBVIOUS
  <2>1. up[k] \in SUBSET S /\ k \in up[k]
    OBVIOUS
  <2>2. IsFiniteSet(up[k]) /\ Cardinality(up[k]) <= size /\ Cardinality(up[k]) \in Nat
    BY <2>1, FS_Subset, FS_CardinalityType
  <2>3. Cardinality(up[k]) # 0
    BY <2>1, <2>2, FS_EmptySet
  <2> QED
    BY <1>1, <2>2, <2>3
<1>3. \A j, k \in S : up[j] \subseteq up[k] /\ k \notin up[j] => Cardinality(up[j]) # Cardinality(up[k])
  <2> SUFFICES ASSUME NEW j \in S, NEW k \in S, up[j] \subseteq up[k], k \notin up[j]
               PROVE  Cardinality(up[j]) # Cardinality(up[k])
    OBVIOUS
  <2>1. up[j] \in SUBSET up[k] /\ up[j] # up[k]
    OBVIOUS
  <2> QED
    BY <1>2, <2>1, FS_Subset
<1>4. \A j, k \in S : Cardinality(up[j]) = Cardinality(up[k]) => j = k
  BY <1>3
<1>5. rank \in Injection(S, 1 .. size)
  <2>1. rank \in [S -> 1 .. size]
    BY <1>2
  <2>2. \A j, k \in S : rank[j] = rank[k] => j = k
    BY <1>4
  <2> HIDE DEF rank
  <2> QED
    BY <2>1, <2>2 DEF Injection, IsInjective
<1>6. rank \in Surjection(S, 1 .. size)
  <2>1. IsFiniteSet(1 .. size) /\ Cardinality(1 .. size) = size
    BY <1>1, FS_Interval
  <2> HIDE DEF rank
  <2> QED
    BY <1>1, <1>5, <2>1, FS_Injection
<1>7. \A m \in 1 .. size : \E k \in S : Cardinality(up[k]) = m
  <2> SUFFICES ASSUME NEW m \in 1 .. size PROVE \E k \in S : Cardinality(up[k]) = m
    OBVIOUS
  <2>1. PICK k \in S : rank[k] = m
    <3> HIDE DEF rank
    <3> QED
      BY <1>6 DEF Surjection
  <2> QED
    BY <2>1
<1> QED
  BY <1>1, <1>2, <1>4, <1>7
=============================================================================
