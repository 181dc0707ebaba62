--------------------------- MODULE HttpFormsProofs ---------------------------
(***************************************************************************)
(* What the list operators of HttpForms compute, for lists of any length:  *)
(* Filtered keeps what it is told to, in its order, and last-wins keeps of *)
(* every name the last field.  Where that takes an induction it is one     *)
(* over a least counterexample.                                            *)
(***************************************************************************)
EXTENDS HttpForms, FiniteSetTheorems, NaturalsInduction, SequenceTheorems, TLAPS

-----------------------------------------------------------------------------
(* Numbers and positions *)

\* A set of numbers that is not empty has a least one.
LEMMA LeastElement ==
  ASSUME NEW B \in SUBSET Nat, B # {}
  PROVE  \E m \in B : \A k \in B : m <= k
<1> DEFINE Less == {ss \in Nat \X Nat : ss[1] < ss[2]}
<1>1. IsWellFoundedOn(Less, Nat)
  BY NatLessThanWellFounded, Zenon DEF OpToRel
<1>2. PICK m \in B : \A k \in B : <<k, m>> \notin Less
  <2> HIDE DEF Less
  <2> QED BY <1>1, WFMin
<1>3. \A k \in B : ~(k < m)
  BY <1>2
<1> QED BY <1>3

\* A set of positions that is not empty has a greatest one.
LEMMA GreatestElement ==
  ASSUME NEW n \in Nat, NEW T \in SUBSET (1..n), T # {}
  PROVE  \E m \in T : \A k \in T : k <= m
<1> DEFINE Mirrored == {x \in Nat : n - x \in T}
<1>0. \A k \in T : k \in Int /\ k <= n
  OBVIOUS
<1>1. \A k \in T : n - k \in Mirrored
  <2> SUFFICES ASSUME NEW k \in T PROVE n - k \in Mirrored
    OBVIOUS
  <2>1. n - k \in Nat /\ n - (n - k) = k
    BY <1>0
  <2> QED BY <2>1
<1>2. PICK m \in Mirrored : \A k \in Mirrored : m <= k
  <2>1. Mirrored \in SUBSET Nat /\ Mirrored # {}
    BY <1>1
  <2> HIDE DEF Mirrored
  <2> QED BY <2>1, LeastElement
<1>3. n - m \in T /\ m \in Nat
  OBVIOUS
<1>4. \A k \in T : k <= n - m
  <2> SUFFICES ASSUME NEW k \in T PROVE k <= n - m
    OBVIOUS
  <2>1. m <= n - k
    BY <1>1, <1>2
  <2> QED BY <1>0, <1>3, <2>1
<1> QED BY <1>3, <1>4

\* Members of 1..n are integers between 1 and n.
LEMMA PositionType ==
  ASSUME NEW n \in Nat, NEW S \in SUBSET (1..n), NEW q \in S
  PROVE  q \in Int /\ 1 <= q /\ q <= n
OBVIOUS

\* How many of S there are up to i.
Rank(S, i) == Cardinality({q \in S : q <= i})

LEMMA RankType ==
  ASSUME NEW n \in Nat, NEW S \in SUBSET (1..n), NEW i \in Int
  PROVE  /\ IsFiniteSet(S) /\ IsFiniteSet({q \in S : q <= i})
         /\ Rank(S, i) \in Nat /\ Rank(S, i) <= Cardinality(S) /\ Cardinality(S) \in Nat
<1>1. IsFiniteSet(S)
  <2>1. IsFiniteSet(1..n)
    BY FS_Interval
  <2> QED BY <2>1, FS_Subset
<1>2. {q \in S : q <= i} \subseteq S
  OBVIOUS
<1>3. IsFiniteSet({q \in S : q <= i}) /\ Cardinality({q \in S : q <= i}) <= Cardinality(S)
  BY <1>1, <1>2, FS_Subset
<1> QED BY <1>1, <1>3, FS_CardinalityType DEF Rank

LEMMA RankEnds ==
  ASSUME NEW n \in Nat, NEW S \in SUBSET (1..n)
  PROVE  Rank(S, 0) = 0 /\ Rank(S, n) = Cardinality(S)
<1>1. \A q \in S : ~(q <= 0) /\ q <= n
  BY PositionType
<1>2. {q \in S : q <= 0} = {} /\ {q \in S : q <= n} = S
  BY <1>1, Zenon
<1> QED BY <1>2, FS_EmptySet DEF Rank

LEMMA RankStep ==
  ASSUME NEW n \in Nat, NEW S \in SUBSET (1..n), NEW m \in 1..n
  PROVE  Rank(S, m) = IF m \in S THEN Rank(S, m - 1) + 1 ELSE Rank(S, m - 1)
<1> DEFINE A == {q \in S : q <= m - 1}
<1>1. \A q \in S : (q <= m <=> q <= m - 1 \/ q = m)
  BY PositionType
<1>2. IsFiniteSet(A) /\ m \notin A
  <2>1. m - 1 \in Int /\ ~(m <= m - 1)
    OBVIOUS
  <2>2. IsFiniteSet(A)
    BY <2>1, RankType
  <2> QED BY <2>1, <2>2
<1>3. CASE m \in S
  <2>1. {q \in S : q <= m} = A \cup {m}
    <3>1. m <= m /\ \A q \in S : q <= m - 1 => q <= m
      BY <1>1
    <3> QED BY <1>1, <1>3, <3>1, Zenon
  <2>2. Cardinality(A \cup {m}) = Cardinality(A) + 1
    <3> HIDE DEF A
    <3> QED BY <1>2, FS_AddElement
  <2> QED BY <1>3, <2>1, <2>2 DEF Rank
<1>4. CASE m \notin S
  <2>1. {q \in S : q <= m} = A
    <3>1. \A q \in S : q <= m <=> q <= m - 1
      BY <1>1, <1>4
    <3> QED BY <3>1, Zenon
  <2> QED BY <1>4, <2>1 DEF Rank
<1> QED BY <1>3, <1>4

\* Later members have higher ranks.
LEMMA RankGrows ==
  ASSUME NEW n \in Nat, NEW S \in SUBSET (1..n), NEW r \in S, NEW s \in S, r < s
  PROVE  Rank(S, r) < Rank(S, s)
<1> DEFINE A == {q \in S : q <= r}
           B == {q \in S : q <= s}
<1>0. r \in Int /\ s \in Int
  BY PositionType
<1>1. IsFiniteSet(A) /\ IsFiniteSet(B) /\ Rank(S, r) \in Nat /\ Rank(S, s) \in Nat
  BY <1>0, RankType
<1>2. A \cup {s} \subseteq B /\ s \notin A
  <2>1. s <= s /\ ~(s <= r) /\ \A q \in S : q <= r => q <= s
    BY <1>0, PositionType
  <2> QED BY <2>1, Zenon
<1>3. Cardinality(A \cup {s}) = Cardinality(A) + 1
  <2> HIDE DEF A
  <2> QED BY <1>1, <1>2, FS_AddElement
<1>4. Cardinality(A \cup {s}) <= Cardinality(B)
  <2> HIDE DEF A, B
  <2> QED BY <1>1, <1>2, FS_Subset
<1> QED BY <1>1, <1>3, <1>4 DEF Rank

LEMMA RankIsInjective ==
  ASSUME NEW n \in Nat, NEW S \in SUBSET (1..n), NEW r \in S, NEW s \in S, Rank(S, r) = Rank(S, s)
  PROVE  r = s
<1>0. r \in Int /\ s \in Int
  BY PositionType
<1>1. Rank(S, r) \in Nat /\ Rank(S, s) \in Nat
  BY <1>0, RankType
<1>2. ~(r < s) /\ ~(s < r)
  BY <1>1, RankGrows
<1> QED BY <1>0, <1>2

LEMMA RankOfMember ==
  ASSUME NEW n \in Nat, NEW S \in SUBSET (1..n), NEW r \in S
  PROVE  r \in 1..n /\ Rank(S, r) \in 1..Cardinality(S)
<1>1. r \in 1..n /\ r \in Int /\ r - 1 \in Int
  BY PositionType
<1>2. Rank(S, r) = Rank(S, r - 1) + 1
  BY <1>1, RankStep
<1>3. Rank(S, r - 1) \in Nat /\ Rank(S, r) <= Cardinality(S) /\ Cardinality(S) \in Nat
  BY <1>1, RankType
<1> QED BY <1>1, <1>2, <1>3

\* Every number up to the size of S is the rank of a member: of the first
\* position with a rank not below it.
LEMMA RankIsOnto ==
  ASSUME NEW n \in Nat, NEW S \in SUBSET (1..n), NEW k \in 1..Cardinality(S)
  PROVE  \E r \in S : Rank(S, r) = k
<1> DEFINE Reached == {m \in 0..n : k <= Rank(S, m)}
<1>0. k \in Nat /\ 1 <= k /\ k <= Cardinality(S)
  <2>1. Cardinality(S) \in Nat
    BY 0 \in Int, RankType
  <2> QED BY <2>1
<1>1. n \in Reached
  BY <1>0, RankEnds
<1>2. PICK m \in Reached : \A j \in Reached : m <= j
  <2>1. Reached \in SUBSET Nat
    OBVIOUS
  <2> HIDE DEF Reached
  <2> QED BY <1>1, <2>1, LeastElement
<1>3. m \in 1..n /\ m - 1 \in 0..n
  BY <1>0, <1>2, RankEnds
<1>4. m - 1 \notin Reached
  BY <1>2, <1>3
<1>5. Rank(S, m - 1) \in Nat /\ Rank(S, m) \in Nat
  <2>1. m - 1 \in Int /\ m \in Int
    BY <1>3
  <2> QED BY <2>1, RankType
<1>6. Rank(S, m - 1) < k /\ k <= Rank(S, m)
  BY <1>0, <1>2, <1>3, <1>4, <1>5
<1>7. m \in S /\ Rank(S, m) = Rank(S, m - 1) + 1
  BY <1>0, <1>3, <1>5, <1>6, RankStep
<1> QED BY <1>0, <1>5, <1>6, <1>7

-----------------------------------------------------------------------------
(* Filtered *)

\* The function that Filtered takes its last value of, and how it goes on.
KeptUpTo(seq, S) ==
  LET kept[n \in 0..Len(seq)] ==
        IF n = 0 THEN <<>>
        ELSE IF n \in S THEN Append(kept[n - 1], seq[n])
        ELSE kept[n - 1]
  IN kept

Longer(seq, S, n, before) == IF n \in S THEN Append(before, seq[n]) ELSE before

Goes(f, k, seq, S) ==
  f = [n \in 0..k |-> IF n = 0 THEN <<>> ELSE Longer(seq, S, n, f[n - 1])]

\* There is a function with the recursion's equations up to any m.
LEMMA KeptExists ==
  ASSUME NEW seq, NEW S, NEW m \in Nat
  PROVE  \E f : Goes(f, m, seq, S)
<1> DEFINE Solves(f, k) ==
             f = [n \in 0..k |-> IF n = 0 THEN <<>> ELSE Longer(seq, S, n, f[n - 1])]
           Insoluble == {k \in Nat : \A f : ~Solves(f, k)}
<1> SUFFICES ASSUME Insoluble # {} PROVE FALSE
  <2> HIDE DEF Solves
  <2>1. Insoluble = {} => \E f : Solves(f, m)
    OBVIOUS
  <2> QED BY <2>1 DEF Solves, Goes
<1>0. Insoluble \in SUBSET Nat
  <2> HIDE DEF Solves
  <2> QED OBVIOUS
<1>1. PICK k \in Insoluble : \A j \in Insoluble : k <= j
  <2> HIDE DEF Insoluble
  <2> QED BY <1>0, LeastElement
<1>2. k \in Nat /\ k # 0
  <2>1. Solves([n \in 0..0 |-> <<>>], 0)
    OBVIOUS
  <2> HIDE DEF Solves
  <2> QED BY <2>1
<1>3. PICK f : Solves(f, k - 1)
  <2>1. k - 1 \in Nat /\ ~(k <= k - 1)
    BY <1>2
  <2>2. k - 1 \notin Insoluble
    BY <1>1, <2>1
  <2> HIDE DEF Solves
  <2> QED BY <2>1, <2>2
<1> DEFINE g == [n \in 0..k |-> IF n = k THEN Longer(seq, S, k, f[k - 1]) ELSE f[n]]
<1>4. Solves(g, k)
  <2>1. \A n \in 0..(k - 1) : g[n] = f[n]
    BY <1>2
  <2>2. \A n \in 0..(k - 1) : f[n] = IF n = 0 THEN <<>> ELSE Longer(seq, S, n, f[n - 1])
    BY <1>3
  <2>3. \A n \in 1..(k - 1) : g[n] = Longer(seq, S, n, g[n - 1])
    <3> SUFFICES ASSUME NEW n \in 1..(k - 1) PROVE g[n] = Longer(seq, S, n, g[n - 1])
      OBVIOUS
    <3>1. n \in 0..(k - 1) /\ n - 1 \in 0..(k - 1) /\ n # 0
      BY <1>2
    <3> HIDE DEF g
    <3> QED BY <2>1, <2>2, <3>1
  <2>4. g[0] = <<>> /\ g[k] = Longer(seq, S, k, g[k - 1])
    <3>1. 0 \in 0..(k - 1) /\ k - 1 \in 0..(k - 1) /\ k \in 0..k
      BY <1>2
    <3> QED BY <2>1, <2>2, <3>1
  <2>5. \A n \in 0..k : g[n] = IF n = 0 THEN <<>> ELSE Longer(seq, S, n, g[n - 1])
    <3>1. \A n \in 0..k : n = 0 \/ n = k \/ n \in 1..(k - 1)
      BY <1>2
    <3> HIDE DEF g
    <3> QED BY <1>2, <2>3, <2>4, <3>1
  <2>6. g = [n \in 0..k |-> g[n]]
    OBVIOUS
  <2> HIDE DEF g
  <2> QED BY <2>5, <2>6
<1>5. QED
  <2> HIDE DEF Solves, g
  <2> QED BY <1>4

LEMMA KeptStep ==
  ASSUME NEW seq, Len(seq) \in Nat, NEW S
  PROVE  /\ KeptUpTo(seq, S)[0] = <<>>
         /\ \A n \in 1..Len(seq) :
              KeptUpTo(seq, S)[n] = Longer(seq, S, n, KeptUpTo(seq, S)[n - 1])
<1> DEFINE Solves(f) ==
             f = [n \in 0..Len(seq) |->
                    IF n = 0 THEN <<>> ELSE IF n \in S THEN Append(f[n - 1], seq[n]) ELSE f[n - 1]]
<1>1. \E f : Solves(f)
  <2>1. PICK f : Goes(f, Len(seq), seq, S)
    BY KeptExists
  <2>2. Solves(f)
    BY <2>1 DEF Goes, Longer
  <2> HIDE DEF Solves
  <2> QED BY <2>2
<1>2. KeptUpTo(seq, S) = CHOOSE f : Solves(f)
  BY DEF KeptUpTo
<1>3. Solves(KeptUpTo(seq, S))
  <2> HIDE DEF Solves
  <2> QED BY <1>1, <1>2
<1> DEFINE kept == KeptUpTo(seq, S)
<1>4. kept = [n \in 0..Len(seq) |->
                IF n = 0 THEN <<>> ELSE IF n \in S THEN Append(kept[n - 1], seq[n]) ELSE kept[n - 1]]
  BY <1>3
<1> HIDE DEF kept
<1>5. kept[0] = <<>> /\ \A n \in 1..Len(seq) : kept[n] = Longer(seq, S, n, kept[n - 1])
  <2>1. \A n \in 0..Len(seq) :
          kept[n] = IF n = 0 THEN <<>> ELSE IF n \in S THEN Append(kept[n - 1], seq[n]) ELSE kept[n - 1]
    BY <1>4
  <2>2. 0 \in 0..Len(seq) /\ \A n \in 1..Len(seq) : n \in 0..Len(seq) /\ n # 0
    OBVIOUS
  <2> QED BY <2>1, <2>2 DEF Longer
<1> QED BY <1>5 DEF kept

\* kept holds what seq has at the positions of S up to n, in the order of seq.
Keeps(kept, X, seq, S, n) ==
  /\ kept \in Seq(X)
  /\ Len(kept) = Rank(S, n)
  /\ \A r \in S : r <= n => kept[Rank(S, r)] = seq[r]

LEMMA LongerKeeps ==
  ASSUME NEW X, NEW seq \in Seq(X), NEW S \in SUBSET (1..Len(seq)), NEW n \in 1..Len(seq),
         NEW before, Keeps(before, X, seq, S, n - 1)
  PROVE  Keeps(Longer(seq, S, n, before), X, seq, S, n)
<1>0. Len(seq) \in Nat /\ n - 1 \in Int
  OBVIOUS
<1>1. Rank(S, n) = IF n \in S THEN Rank(S, n - 1) + 1 ELSE Rank(S, n - 1)
  BY <1>0, RankStep
<1>2. before \in Seq(X) /\ Len(before) = Rank(S, n - 1)
      /\ \A r \in S : r <= n - 1 => before[Rank(S, r)] = seq[r]
  BY DEF Keeps
<1>3. \A r \in S : r \in Int /\ (r <= n <=> r <= n - 1 \/ r = n)
  BY <1>0, PositionType
<1>4. CASE n \notin S
  <2>1. \A r \in S : r <= n => r <= n - 1
    BY <1>3, <1>4
  <2> QED BY <1>1, <1>2, <1>4, <2>1 DEF Keeps, Longer
<1>5. CASE n \in S
  <2>1. Longer(seq, S, n, before) = Append(before, seq[n]) /\ Rank(S, n) = Len(before) + 1
    BY <1>1, <1>2, <1>5 DEF Longer
  <2>2. seq[n] \in X
    OBVIOUS
  <2>3. Append(before, seq[n]) \in Seq(X) /\ Len(Append(before, seq[n])) = Len(before) + 1
        /\ Append(before, seq[n])[Len(before) + 1] = seq[n]
        /\ \A k \in 1..Len(before) : Append(before, seq[n])[k] = before[k]
    BY <1>2, <2>2
  <2>4. ASSUME NEW r \in S, r <= n
        PROVE  Append(before, seq[n])[Rank(S, r)] = seq[r]
    <3>1. CASE r = n
      BY <2>1, <2>3, <3>1
    <3>2. CASE r <= n - 1
      <4>1. Rank(S, r) < Rank(S, n)
        <5>1. r < n
          BY <1>3, <3>2
        <5> QED BY <1>0, <1>5, <5>1, RankGrows
      <4>2. Rank(S, r) \in 1..Cardinality(S) /\ Cardinality(S) \in Nat
        BY <1>0, <1>3, RankOfMember, RankType
      <4>3. Rank(S, r) \in 1..Len(before)
        BY <1>2, <2>1, <4>1, <4>2
      <4> QED BY <1>2, <2>3, <3>2, <4>3
    <3> QED BY <1>3, <2>4, <3>1, <3>2
  <2> QED BY <2>1, <2>3, <2>4 DEF Keeps
<1> QED BY <1>4, <1>5

\* Filtered keeps the elements at the positions S, no others, in their order:
\* the r-th element goes to the place that is the rank of r in S.
THEOREM FilteredKeeps ==
  ASSUME NEW X, NEW seq \in Seq(X), NEW S \in SUBSET (1..Len(seq))
  PROVE  /\ Filtered(seq, S) \in Seq(X)
         /\ Len(Filtered(seq, S)) = Cardinality(S) /\ Cardinality(S) \in Nat
         /\ \A r \in S : /\ Rank(S, r) \in 1..Cardinality(S)
                         /\ Filtered(seq, S)[Rank(S, r)] = seq[r]
         /\ \A k \in 1..Cardinality(S) : \E r \in S : Rank(S, r) = k
<1> DEFINE P(n) == Keeps(KeptUpTo(seq, S)[n], X, seq, S, n)
           Wrong == {n \in 0..Len(seq) : ~P(n)}
<1>0. Len(seq) \in Nat
  OBVIOUS
<1>1. P(0)
  <2>1. KeptUpTo(seq, S)[0] = <<>> /\ Rank(S, 0) = 0
    BY <1>0, KeptStep, RankEnds
  <2>2. \A r \in S : ~(r <= 0)
    BY <1>0, PositionType
  <2> QED BY <2>1, <2>2 DEF Keeps
<1>2. \A n \in 1..Len(seq) : P(n - 1) => P(n)
  <2> SUFFICES ASSUME NEW n \in 1..Len(seq), P(n - 1) PROVE P(n)
    OBVIOUS
  <2>1. KeptUpTo(seq, S)[n] = Longer(seq, S, n, KeptUpTo(seq, S)[n - 1])
    BY <1>0, KeptStep
  <2> QED BY <2>1, LongerKeeps
<1>3. P(Len(seq))
  <2> HIDE DEF P
  <2>1. ASSUME Wrong # {} PROVE FALSE
    <3>1. PICK n \in Wrong : \A j \in Wrong : n <= j
      <4>1. Wrong \in SUBSET Nat
        OBVIOUS
      <4> HIDE DEF Wrong
      <4> QED BY <2>1, <4>1, LeastElement
    <3>2. n \in 1..Len(seq) /\ n - 1 \in 0..Len(seq) /\ ~(n <= n - 1)
      BY <1>1, <3>1
    <3> QED BY <1>2, <3>1, <3>2
  <2> QED BY <1>0, <2>1
<1>4. Filtered(seq, S) = KeptUpTo(seq, S)[Len(seq)]
  BY DEF Filtered, KeptUpTo
<1>5. Keeps(Filtered(seq, S), X, seq, S, Len(seq))
  BY <1>3, <1>4
<1>6. Rank(S, Len(seq)) = Cardinality(S) /\ Cardinality(S) \in Nat
  <2>1. Len(seq) \in Int
    OBVIOUS
  <2> QED BY <1>0, <2>1, RankEnds, RankType
<1>7. \A r \in S : r <= Len(seq) /\ Rank(S, r) \in 1..Cardinality(S)
  BY <1>0, PositionType, RankOfMember
<1>8. \A k \in 1..Cardinality(S) : \E r \in S : Rank(S, r) = k
  BY <1>0, RankIsOnto
<1> QED BY <1>5, <1>6, <1>7, <1>8 DEF Keeps

-----------------------------------------------------------------------------
(* Python dicts *)

LEMMA ListType ==
  ASSUME NEW x, IsList(x)
  PROVE  /\ Len(x) \in Nat /\ DOMAIN x = 1..Len(x)
         /\ x \in Seq(ToSet(x)) /\ \A i \in DOMAIN x : x[i] \in ToSet(x)
BY DEF IsList, ToSet

\* A function of the positions up to n is a list.
LEMMA ListOf ==
  ASSUME NEW x, NEW n \in Nat, DOMAIN x = 1..n, x = [i \in 1..n |-> x[i]]
  PROVE  IsList(x) /\ Len(x) = n
<1>1. \A i \in 1..n : x[i] \in ToSet(x)
  BY DEF ToSet
<1>2. x \in [1..n -> ToSet(x)]
  BY <1>1
<1> QED BY <1>2 DEF IsList

\* u is s, and then t.
Joins(u, s, t) ==
  /\ IsList(u) /\ Len(u) = Len(s) + Len(t)
  /\ \A i \in 1..Len(s) : u[i] = s[i]
  /\ \A i \in 1..Len(t) : u[Len(s) + i] = t[i]

LEMMA ListConcat ==
  ASSUME NEW s, IsList(s), NEW t, IsList(t)
  PROVE  Joins(s \o t, s, t)
<1> DEFINE X == ToSet(s) \cup ToSet(t)
<1>1. /\ \A i \in 1..Len(s) : s[i] \in X
      /\ \A i \in 1..Len(t) : t[i] \in X
  BY ListType
<1>2. s \in Seq(X) /\ t \in Seq(X)
  <2>1. s \in Seq(ToSet(s)) /\ t \in Seq(ToSet(t))
    BY DEF IsList
  <2> HIDE DEF X
  <2> QED BY <1>1, <2>1
<1> HIDE DEF X
<1>3. /\ s \o t \in Seq(X) /\ Len(s \o t) = Len(s) + Len(t)
      /\ \A i \in 1..Len(s) : (s \o t)[i] = s[i]
      /\ \A i \in 1..Len(t) : (s \o t)[Len(s) + i] = t[i]
  BY <1>2
<1>4. IsList(s \o t)
  <2> DEFINE u == s \o t
  <2>1. u \in Seq(X)
    BY <1>3
  <2> HIDE DEF u
  <2>2. Len(u) \in Nat /\ DOMAIN u = 1..Len(u) /\ u = [i \in 1..Len(u) |-> u[i]]
    BY <2>1
  <2>3. IsList(u)
    BY <2>2, ListOf
  <2> QED BY <2>3 DEF u
<1> QED BY <1>3, <1>4, Zenon DEF Joins

\* In a dict the value of a key is the one of any pair with that key.
LEMMA PairOfKey ==
  ASSUME NEW pairs, IsDict(pairs), NEW i \in DOMAIN pairs
  PROVE  Has(pairs, pairs[i][1]) /\ PairValue(pairs, pairs[i][1]) = pairs[i][2]
<1>1. \A j \in DOMAIN pairs : pairs[j][1] = pairs[i][1] => j = i
  BY DEF IsDict
<1> QED BY <1>1 DEF Has, PairValue

\* Assigning to a key keeps a dict a dict, and every other pair.
LEMMA PutKeeps ==
  ASSUME NEW pairs, IsDict(pairs), NEW key, NEW value
  PROVE  /\ IsDict(Put(pairs, key, value))
         /\ \A i \in DOMAIN Put(pairs, key, value) :
              \/ Put(pairs, key, value)[i] = <<key, value>>
              \/ i \in DOMAIN pairs /\ Put(pairs, key, value)[i] = pairs[i]
         /\ \E i \in DOMAIN Put(pairs, key, value) : Put(pairs, key, value)[i] = <<key, value>>
         /\ \A i \in DOMAIN pairs : pairs[i][1] # key =>
              i \in DOMAIN Put(pairs, key, value) /\ Put(pairs, key, value)[i] = pairs[i]
<1> DEFINE put == Put(pairs, key, value)
           n == Len(pairs)
<1>0. n \in Nat /\ DOMAIN pairs = 1..n /\ IsList(pairs)
      /\ \A i, j \in DOMAIN pairs : pairs[i][1] = pairs[j][1] => i = j
  BY ListType DEF IsDict
<1>1. CASE Has(pairs, key)
  <2>1. put = [i \in 1..n |-> IF pairs[i][1] = key THEN <<key, value>> ELSE pairs[i]]
    BY <1>0, <1>1 DEF Put
  <2>2. IsList(put)
    <3>1. DOMAIN put = 1..n /\ put = [i \in 1..n |-> put[i]]
      BY <2>1
    <3> HIDE DEF put
    <3> QED BY <1>0, <3>1, ListOf
  <2>3. DOMAIN put = 1..n /\ \A i \in 1..n : put[i][1] = pairs[i][1]
    BY <2>1
  <2>4. \A i, j \in DOMAIN put : put[i][1] = put[j][1] => i = j
    <3> HIDE DEF put
    <3> QED BY <1>0, <2>3
  <2>5. \A i \in DOMAIN put : put[i] = <<key, value>> \/ (i \in DOMAIN pairs /\ put[i] = pairs[i])
    BY <1>0, <2>1
  <2>6. \E i \in DOMAIN put : put[i] = <<key, value>>
    <3>1. PICK i \in DOMAIN pairs : pairs[i][1] = key
      BY <1>1 DEF Has
    <3> QED BY <1>0, <2>1, <3>1
  <2>7. \A i \in DOMAIN pairs : pairs[i][1] # key => i \in DOMAIN put /\ put[i] = pairs[i]
    BY <1>0, <2>1
  <2> HIDE DEF put
  <2> QED BY <2>2, <2>4, <2>5, <2>6, <2>7 DEF put, IsDict
<1>2. CASE ~Has(pairs, key)
  <2>1. put = Append(pairs, <<key, value>>)
    BY <1>2 DEF Put
  <2>2. put = [i \in 1..(n + 1) |-> IF i = n + 1 THEN <<key, value>> ELSE pairs[i]]
    <3>1. pairs \in Seq(ToSet(pairs))
      BY <1>0 DEF IsList
    <3> HIDE DEF put
    <3> QED BY <2>1, <3>1
  <2>3. IsList(put)
    <3>1. DOMAIN put = 1..(n + 1) /\ put = [i \in 1..(n + 1) |-> put[i]]
      BY <2>2
    <3>2. n + 1 \in Nat
      BY <1>0
    <3> HIDE DEF put
    <3> QED BY <3>1, <3>2, ListOf
  <2>4. \A i \in DOMAIN pairs : pairs[i][1] # key
    BY <1>2 DEF Has
  <2>5. \A i \in DOMAIN put :
          \/ i \in DOMAIN pairs /\ put[i] = pairs[i]
          \/ i = n + 1 /\ put[i] = <<key, value>>
    BY <1>0, <2>2
  <2>6. \A i, j \in DOMAIN put : put[i][1] = put[j][1] => i = j
    <3>1. <<key, value>>[1] = key
      OBVIOUS
    <3> HIDE DEF put, n
    <3> QED BY <1>0, <2>4, <2>5, <3>1
  <2>7. \E i \in DOMAIN put : put[i] = <<key, value>>
    <3>1. n + 1 \in 1..(n + 1)
      BY <1>0
    <3> QED BY <2>2, <3>1
  <2>8. \A i \in DOMAIN pairs : i \in DOMAIN put /\ put[i] = pairs[i]
    BY <1>0, <2>2
  <2> HIDE DEF put
  <2> QED BY <2>3, <2>5, <2>6, <2>7, <2>8 DEF put, IsDict
<1> QED BY <1>1, <1>2

\* What is read of a dict after an assignment.
LEMMA PutReads ==
  ASSUME NEW pairs, IsDict(pairs), NEW key, NEW value, NEW name
  PROVE  ValueOf(Put(pairs, key, value), name) = IF name = key THEN value ELSE ValueOf(pairs, name)
<1> DEFINE put == Put(pairs, key, value)
<1>1. /\ IsDict(put)
      /\ \A i \in DOMAIN put : put[i] = <<key, value>> \/ (i \in DOMAIN pairs /\ put[i] = pairs[i])
      /\ \E i \in DOMAIN put : put[i] = <<key, value>>
      /\ \A i \in DOMAIN pairs : pairs[i][1] # key => i \in DOMAIN put /\ put[i] = pairs[i]
  BY PutKeeps
<1>2. <<key, value>>[1] = key /\ <<key, value>>[2] = value
  OBVIOUS
<1> HIDE DEF put
<1>3. CASE name = key
  <2>1. PICK i \in DOMAIN put : put[i] = <<key, value>>
    BY <1>1
  <2>2. Has(put, key) /\ PairValue(put, key) = value
    BY <1>1, <1>2, <2>1, PairOfKey
  <2> QED BY <1>3, <2>2 DEF ValueOf, put
<1>4. CASE name # key /\ Has(pairs, name)
  <2>1. PICK i \in DOMAIN pairs : pairs[i][1] = name
    BY <1>4 DEF Has
  <2>2. i \in DOMAIN put /\ put[i] = pairs[i]
    BY <1>1, <1>4, <2>1
  <2>3. PairValue(pairs, name) = pairs[i][2]
    BY <2>1, PairOfKey
  <2>4. Has(put, name) /\ PairValue(put, name) = pairs[i][2]
    BY <1>1, <2>1, <2>2, PairOfKey
  <2> QED BY <1>4, <2>3, <2>4 DEF ValueOf, put
<1>5. CASE name # key /\ ~Has(pairs, name)
  <2>1. ~Has(put, name)
    BY <1>1, <1>2, <1>5 DEF Has
  <2> QED BY <1>5, <2>1 DEF ValueOf, put
<1> QED BY <1>3, <1>4, <1>5

-----------------------------------------------------------------------------
(* The fields that are sent *)

\* Every name has a last field.
LEMMA LastExists ==
  ASSUME NEW fields, IsList(fields), NEW i \in DOMAIN fields
  PROVE  \E r \in DOMAIN fields : IsLast(fields, r) /\ fields[r][1] = fields[i][1]
<1> DEFINE Same == {j \in 1..Len(fields) : fields[j][1] = fields[i][1]}
<1>0. Len(fields) \in Nat /\ DOMAIN fields = 1..Len(fields)
  BY ListType
<1>1. PICK r \in Same : \A j \in Same : j <= r
  <2>1. Same \in SUBSET (1..Len(fields)) /\ Same # {}
    BY <1>0
  <2> HIDE DEF Same
  <2> QED BY <1>0, <2>1, GreatestElement
<1>2. ASSUME NEW j \in (r + 1)..Len(fields)
      PROVE  fields[j][1] # fields[r][1]
  <2>1. j \in 1..Len(fields) /\ ~(j <= r)
    BY <1>0
  <2> QED BY <1>1, <2>1
<1> QED BY <1>0, <1>2 DEF IsLast

\* A later field with the same name makes a field not the last.
LEMMA LastIsGreatest ==
  ASSUME NEW fields, IsList(fields), NEW r \in DOMAIN fields, IsLast(fields, r),
         NEW j \in DOMAIN fields, fields[j][1] = fields[r][1]
  PROVE  j <= r
<1>0. Len(fields) \in Nat /\ DOMAIN fields = 1..Len(fields)
  BY ListType
<1>1. j \notin (r + 1)..Len(fields)
  BY DEF IsLast
<1> QED BY <1>0, <1>1

\* _dedupe_pairs_last_wins: what is sent are last fields, of every name one.
THEOREM LastWinsKeepsLast ==
  ASSUME NEW fields, IsList(fields), NEW sent, sent = LastWins(fields)
  PROVE  /\ \A k \in DOMAIN sent :
              \E r \in DOMAIN fields : IsLast(fields, r) /\ sent[k] = fields[r]
         /\ \A k, l \in DOMAIN sent : sent[k][1] = sent[l][1] => k = l
         /\ \A i \in DOMAIN fields : \E k \in DOMAIN sent : sent[k][1] = fields[i][1]
<1> DEFINE L == {i \in DOMAIN fields : IsLast(fields, i)}
<1>0. Len(fields) \in Nat /\ DOMAIN fields = 1..Len(fields) /\ fields \in Seq(ToSet(fields))
  BY ListType
<1>1. L \in SUBSET (1..Len(fields))
  BY <1>0
<1>2. sent = Filtered(fields, L)
  BY DEF LastWins
<1> HIDE DEF L
<1>3. /\ sent \in Seq(ToSet(fields))
      /\ Len(sent) = Cardinality(L)
      /\ \A r \in L : Rank(L, r) \in 1..Cardinality(L) /\ sent[Rank(L, r)] = fields[r]
      /\ \A k \in 1..Cardinality(L) : \E r \in L : Rank(L, r) = k
  BY <1>0, <1>1, <1>2, FilteredKeeps
<1>4. DOMAIN sent = 1..Cardinality(L)
  BY <1>3
<1>5. ASSUME NEW k \in DOMAIN sent
      PROVE  \E r \in L : Rank(L, r) = k /\ sent[k] = fields[r]
  BY <1>3, <1>4
<1>6. ASSUME NEW k \in DOMAIN sent, NEW l \in DOMAIN sent, sent[k][1] = sent[l][1]
      PROVE  k = l
  <2>1. PICK r \in L : Rank(L, r) = k /\ sent[k] = fields[r]
    BY <1>5
  <2>2. PICK s \in L : Rank(L, s) = l /\ sent[l] = fields[s]
    BY <1>5
  <2>3. fields[r][1] = fields[s][1] /\ r \in DOMAIN fields /\ s \in DOMAIN fields
        /\ IsLast(fields, r) /\ IsLast(fields, s)
    BY <1>6, <2>1, <2>2 DEF L
  <2>4. r <= s /\ s <= r
    BY <2>3, LastIsGreatest
  <2>5. r \in Int /\ s \in Int
    BY <1>0, <2>3
  <2> QED BY <2>1, <2>2, <2>4, <2>5
<1>7. ASSUME NEW i \in DOMAIN fields
      PROVE  \E k \in DOMAIN sent : sent[k][1] = fields[i][1]
  <2>1. PICK r \in DOMAIN fields : IsLast(fields, r) /\ fields[r][1] = fields[i][1]
    BY LastExists
  <2>2. r \in L
    BY <2>1 DEF L
  <2> QED BY <1>3, <1>4, <2>1, <2>2
<1>8. \A k \in DOMAIN sent : \E r \in DOMAIN fields : IsLast(fields, r) /\ sent[k] = fields[r]
  BY <1>5 DEF L
<1> QED BY <1>6, <1>7, <1>8

\* The two parts of what FormComposer composes: the merged pairs, then what
\* the step gives.
MergedPairs(merge, vars) == IF Merges(merge, vars) THEN PairValue(vars, merge).dict ELSE <<>>

LEMMA ComposedForm ==
  ASSUME NEW form, IsList(form), NEW merge, NEW src, NEW vars,
         NEW merged, IsDict(merged), merged = MergedPairs(merge, vars),
         NEW composed, composed = Merged(form, merge, src, vars)
  PROVE  /\ IsList(composed)
         /\ DOMAIN composed = 1..(Len(merged) + Len(form))
         /\ \A i \in DOMAIN merged : composed[i] = <<merged[i][1], Text(Str(merged[i][2]))>>
         /\ \A i \in DOMAIN form :
              composed[Len(merged) + i] = <<form[i][1], Render(form[i][2], src)>>
<1> DEFINE first == [i \in DOMAIN merged |-> <<merged[i][1], Text(Str(merged[i][2]))>>]
           own == [i \in DOMAIN form |-> <<form[i][1], Render(form[i][2], src)>>]
           m == Len(merged)
           n == Len(form)
<1>0. m \in Nat /\ DOMAIN merged = 1..m /\ n \in Nat /\ DOMAIN form = 1..n
  BY ListType DEF IsDict
<1>1. composed = first \o own
  <2>1. CASE Merges(merge, vars)
    BY <2>1 DEF Merged, MergedPairs, Rendered
  <2>2. CASE ~Merges(merge, vars)
    <3>1. merged = <<>>
      BY <2>2 DEF MergedPairs
    <3>2. first = <<>>
      BY <3>1
    <3>3. composed = <<>> \o own
      BY <2>2 DEF Merged, Rendered
    <3> QED BY <3>2, <3>3
  <2> QED BY <2>1, <2>2
<1>2. IsList(first) /\ Len(first) = m /\ IsList(own) /\ Len(own) = n
  <2>1. /\ DOMAIN first = 1..m /\ first = [i \in 1..m |-> first[i]]
        /\ DOMAIN own = 1..n /\ own = [i \in 1..n |-> own[i]]
    BY <1>0
  <2> HIDE DEF first, own
  <2> QED BY <1>0, <2>1, ListOf
<1>3. /\ \A i \in 1..m : first[i] = <<merged[i][1], Text(Str(merged[i][2]))>>
      /\ \A i \in 1..n : own[i] = <<form[i][1], Render(form[i][2], src)>>
  BY <1>0
<1> HIDE DEF first, own
<1>4. /\ IsList(composed) /\ Len(composed) = m + n
      /\ \A i \in 1..m : composed[i] = first[i]
      /\ \A i \in 1..n : composed[m + i] = own[i]
  <2>1. Joins(first \o own, first, own)
    BY <1>2, ListConcat
  <2> QED BY <1>1, <1>2, <2>1, Zenon DEF Joins
<1>5. DOMAIN composed = 1..(m + n)
  BY <1>4, ListType
<1> QED BY <1>0, <1>3, <1>4, <1>5

\* The pairs of a step's form_list, in their order.
Pairs(given, P) ==
  LET items == Filtered(given, P) IN [i \in DOMAIN items |-> <<items[i][1], items[i][2]>>]

LEMMA PairsKept ==
  ASSUME NEW given, IsList(given), NEW P \in SUBSET (1..Len(given)),
         NEW form, form = Pairs(given, P)
  PROVE  /\ IsList(form) /\ Len(form) = Cardinality(P) /\ Cardinality(P) \in Nat
         /\ \A i \in P : /\ Rank(P, i) \in 1..Cardinality(P)
                         /\ form[Rank(P, i)] = <<given[i][1], given[i][2]>>
         /\ \A k \in 1..Cardinality(P) : \E i \in P : Rank(P, i) = k
<1> DEFINE items == Filtered(given, P)
           n == Cardinality(P)
<1>1. given \in Seq(ToSet(given))
  BY ListType
<1>2. /\ items \in Seq(ToSet(given)) /\ Len(items) = n /\ n \in Nat
      /\ \A i \in P : Rank(P, i) \in 1..n /\ items[Rank(P, i)] = given[i]
      /\ \A k \in 1..n : \E i \in P : Rank(P, i) = k
  BY <1>1, FilteredKeeps
<1>3. form = [i \in DOMAIN items |-> <<items[i][1], items[i][2]>>]
  BY DEF Pairs
<1> HIDE DEF items, n
<1>4. DOMAIN form = 1..n /\ \A i \in 1..n : form[i] = <<items[i][1], items[i][2]>>
  BY <1>2, <1>3
<1>5. form = [i \in 1..n |-> form[i]]
  BY <1>2, <1>3
<1>6. IsList(form) /\ Len(form) = n
  BY <1>2, <1>4, <1>5, ListOf
<1> QED BY <1>2, <1>4, <1>6 DEF n

\* The fields of a form_list that is sent over a dict: every name once; a
\* name of the list with its last value there, rendered; any other with the
\* value of the dict.
IsSent(fields, given, P, src, merged) ==
  LET own == {given[i][1] : i \in P} IN
  /\ \A k, l \in DOMAIN fields : fields[k][1] = fields[l][1] => k = l
  /\ {fields[k][1] : k \in DOMAIN fields} = own \cup {merged[i][1] : i \in DOMAIN merged}
  /\ \A k \in DOMAIN fields : fields[k][1] \in own =>
       \E i \in P :
         /\ given[i][1] = fields[k][1]
         /\ \A j \in P : given[j][1] = fields[k][1] => j <= i
         /\ fields[k][2] = Render(given[i][2], src)
  /\ \A k \in DOMAIN fields : fields[k][1] \notin own =>
       fields[k][2] = Text(Str(PairValue(merged, fields[k][1])))

\* FormComposer and last-wins send what they should, whatever is given.
THEOREM FormIsSent ==
  ASSUME NEW given, IsList(given), NEW P \in SUBSET (1..Len(given)),
         NEW merge, NEW src, NEW vars,
         NEW merged, IsDict(merged), merged = MergedPairs(merge, vars),
         NEW fields, fields = LastWins(Merged(Pairs(given, P), merge, src, vars))
  PROVE  IsSent(fields, given, P, src, merged)
<1> DEFINE form == Pairs(given, P)
           composed == Merged(form, merge, src, vars)
           own == {given[i][1] : i \in P}
           m == Len(merged)
           n == Cardinality(P)
<1>1. /\ IsList(form) /\ Len(form) = n /\ n \in Nat
      /\ \A i \in P : Rank(P, i) \in 1..n /\ form[Rank(P, i)] = <<given[i][1], given[i][2]>>
      /\ \A k \in 1..n : \E i \in P : Rank(P, i) = k
  BY PairsKept
<1>2. m \in Nat /\ DOMAIN merged = 1..m /\ Len(given) \in Nat /\ DOMAIN form = 1..n
  BY <1>1, ListType DEF IsDict
<1> HIDE DEF form
<1>3. /\ IsList(composed) /\ DOMAIN composed = 1..(m + n)
      /\ \A i \in 1..m : composed[i] = <<merged[i][1], Text(Str(merged[i][2]))>>
      /\ \A i \in 1..n : composed[m + i] = <<form[i][1], Render(form[i][2], src)>>
  <2> HIDE DEF composed, n
  <2>1. /\ IsList(composed) /\ DOMAIN composed = 1..(m + Len(form))
        /\ \A i \in DOMAIN merged : composed[i] = <<merged[i][1], Text(Str(merged[i][2]))>>
        /\ \A i \in DOMAIN form :
             composed[Len(merged) + i] = <<form[i][1], Render(form[i][2], src)>>
    BY <1>1, ComposedForm DEF composed
  <2> QED BY <1>1, <1>2, <2>1
<1>4. fields = LastWins(composed)
  BY DEF form
<1> HIDE DEF composed, m, n
<1>5. \A i \in P : /\ m + Rank(P, i) \in DOMAIN composed
                  /\ composed[m + Rank(P, i)] = <<given[i][1], Render(given[i][2], src)>>
  <2> SUFFICES ASSUME NEW i \in P
               PROVE  /\ m + Rank(P, i) \in DOMAIN composed
                      /\ composed[m + Rank(P, i)] = <<given[i][1], Render(given[i][2], src)>>
    OBVIOUS
  <2>1. Rank(P, i) \in 1..n /\ form[Rank(P, i)] = <<given[i][1], given[i][2]>>
    BY <1>1
  <2>2. m + Rank(P, i) \in 1..(m + n)
    BY <1>1, <1>2, <2>1
  <2> QED BY <1>3, <2>1, <2>2
\* A position is one of the merged pairs or one of the step's own.
<1>6. ASSUME NEW r \in DOMAIN composed
      PROVE  r \in 1..m \/ \E i \in P : r = m + Rank(P, i)
  <2>1. r \in 1..m \/ r - m \in 1..n
    BY <1>1, <1>2, <1>3
  <2>2. CASE r - m \in 1..n
    <3>1. PICK i \in P : Rank(P, i) = r - m
      BY <1>1, <2>2
    <3>2. r = m + Rank(P, i)
      BY <1>2, <1>3, <3>1
    <3> QED BY <3>2
  <2> QED BY <2>1, <2>2
<1>7. /\ \A k \in DOMAIN fields :
           \E r \in DOMAIN composed : IsLast(composed, r) /\ fields[k] = composed[r]
      /\ \A k, l \in DOMAIN fields : fields[k][1] = fields[l][1] => k = l
      /\ \A i \in DOMAIN composed : \E k \in DOMAIN fields : fields[k][1] = composed[i][1]
  BY <1>3, <1>4, LastWinsKeepsLast
<1>8. {fields[k][1] : k \in DOMAIN fields} = own \cup {merged[i][1] : i \in DOMAIN merged}
  <2>1. ASSUME NEW k \in DOMAIN fields
        PROVE  fields[k][1] \in own \cup {merged[i][1] : i \in DOMAIN merged}
    <3>1. PICK r \in DOMAIN composed : fields[k] = composed[r]
      BY <1>7
    <3>2. CASE r \in 1..m
      BY <1>2, <1>3, <3>1, <3>2
    <3>3. CASE \E i \in P : r = m + Rank(P, i)
      BY <1>5, <3>1, <3>3
    <3> QED BY <1>6, <3>2, <3>3
  <2>2. ASSUME NEW i \in P
        PROVE  \E k \in DOMAIN fields : fields[k][1] = given[i][1]
    BY <1>5, <1>7
  <2>3. ASSUME NEW i \in DOMAIN merged
        PROVE  \E k \in DOMAIN fields : fields[k][1] = merged[i][1]
    <3>1. i \in DOMAIN composed /\ composed[i][1] = merged[i][1]
      BY <1>1, <1>2, <1>3
    <3> QED BY <1>7, <3>1
  <2> QED BY <2>1, <2>2, <2>3
<1>9. ASSUME NEW k \in DOMAIN fields, fields[k][1] \in own
      PROVE  \E i \in P :
                /\ given[i][1] = fields[k][1]
                /\ \A j \in P : given[j][1] = fields[k][1] => j <= i
                /\ fields[k][2] = Render(given[i][2], src)
  <2>1. PICK r \in DOMAIN composed : IsLast(composed, r) /\ fields[k] = composed[r]
    BY <1>7
  <2>2. \A j \in P : given[j][1] = fields[k][1] => m + Rank(P, j) <= r
    <3> SUFFICES ASSUME NEW j \in P, given[j][1] = fields[k][1]
                 PROVE  m + Rank(P, j) <= r
      OBVIOUS
    <3>1. m + Rank(P, j) \in DOMAIN composed /\ composed[m + Rank(P, j)][1] = composed[r][1]
      BY <1>5, <2>1
    <3> QED BY <1>3, <2>1, <3>1, LastIsGreatest
  <2>3. PICK i \in P : r = m + Rank(P, i)
    <3>1. PICK j \in P : given[j][1] = fields[k][1]
      BY <1>9
    <3>2. Rank(P, j) \in 1..n /\ m + Rank(P, j) <= r
      BY <1>1, <2>2, <3>1
    <3>3. r \notin 1..m
      BY <1>1, <1>2, <3>2
    <3> QED BY <1>6, <3>3
  <2>4. given[i][1] = fields[k][1] /\ fields[k][2] = Render(given[i][2], src)
    BY <1>5, <2>1, <2>3
  <2>5. ASSUME NEW j \in P, given[j][1] = fields[k][1]
        PROVE  j <= i
    <3>1. Rank(P, j) \in 1..n /\ Rank(P, i) \in 1..n /\ Rank(P, j) <= Rank(P, i)
      <4>1. Rank(P, j) \in 1..n /\ Rank(P, i) \in 1..n /\ m + Rank(P, j) <= m + Rank(P, i)
        BY <1>1, <2>2, <2>3, <2>5
      <4> QED BY <1>1, <1>2, <4>1
    <3>2. i \in Int /\ j \in Int
      BY <1>2, PositionType
    <3>3. ~(i < j)
      <4>1. i < j => Rank(P, i) < Rank(P, j)
        BY <1>2, RankGrows
      <4> QED BY <1>1, <3>1, <4>1
    <3> QED BY <3>2, <3>3
  <2> QED BY <2>4, <2>5
<1>10. ASSUME NEW k \in DOMAIN fields, fields[k][1] \notin own
       PROVE  fields[k][2] = Text(Str(PairValue(merged, fields[k][1])))
  <2>1. PICK r \in DOMAIN composed : fields[k] = composed[r]
    BY <1>7
  <2>2. r \in 1..m
    <3>1. \A i \in P : r # m + Rank(P, i)
      BY <1>5, <1>10, <2>1
    <3> QED BY <1>6, <3>1
  <2>3. fields[k] = <<merged[r][1], Text(Str(merged[r][2]))>>
    BY <1>3, <2>1, <2>2
  <2>4. PairValue(merged, merged[r][1]) = merged[r][2]
    BY <1>2, <2>2, PairOfKey
  <2> QED BY <2>3, <2>4
<1> QED BY <1>7, <1>8, <1>9, <1>10 DEF IsSent
=============================================================================
