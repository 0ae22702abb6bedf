---------------------------- MODULE RanksProofs ----------------------------
(***************************************************************************)
(* What Picked returns, which is defined without recursion: the rank of a  *)
(* position is a bijection onto 1 .. n.  And lists without repetition,     *)
(* which the tables and queues of the app are, and induction.              *)
(***************************************************************************)
EXTENDS Ranks, Functions, FiniteSetTheorems, FunctionTheorems, TLAPS

\* Induction over the numbers, from counting: x + 1 would map the elements of S up
\* to a number outside S into those elements without 0, one to one.
LEMMA Induction ==
  ASSUME NEW S \in SUBSET Nat, 0 \in S, \A n \in S : n + 1 \in S
  PROVE  \A n \in Nat : n \in S
<1> SUFFICES ASSUME NEW n \in Nat, n \notin S PROVE FALSE
  OBVIOUS
<1> DEFINE T == {x \in S : x <= n}
           f == [x \in T |-> x + 1]
<1>1. IsFiniteSet(T) /\ Cardinality(T) \in Nat
  BY FS_BoundedSetOfNaturals, FS_CardinalityType
<1>2. IsFiniteSet(T \ {0}) /\ Cardinality(T \ {0}) = Cardinality(T) - 1
  <2>1. 0 \in T
    OBVIOUS
  <2> HIDE DEF T
  <2> QED BY <1>1, <2>1, FS_RemoveElement
<1>3. \A x \in T : x \in Nat /\ x + 1 \in T \ {0}
  <2>1. ASSUME NEW x \in T PROVE x \in Nat /\ x + 1 \in S /\ x + 1 <= n /\ x + 1 # 0
    <3>1. x \in S /\ x \in Nat /\ x # n /\ x <= n
      OBVIOUS
    <3> QED BY <3>1
  <2> QED BY <2>1
<1>4. f \in [T -> T \ {0}]
  BY <1>3
<1>5. ASSUME NEW x \in T, NEW y \in T, f[x] = f[y] PROVE x = y
  BY <1>3, <1>5
<1>6. f \in Injection(T, T \ {0})
  <2> HIDE DEF T, f
  <2> QED BY <1>4, <1>5 DEF Injection, IsInjective
<1> HIDE DEF T, f
<1> QED BY <1>1, <1>2, <1>6, FS_Injection

LEMMA RankType ==
  ASSUME NEW S \in SUBSET Nat, IsFiniteSet(S), NEW e \in S
  PROVE  Rank(S, e) \in 1 .. Cardinality(S) /\ IsFiniteSet({f \in S : f <= e})
<1> DEFINE upTo == {f \in S : f <= e}
<1>1. upTo \in SUBSET S /\ e \in upTo
  OBVIOUS
<1>2. IsFiniteSet(upTo) /\ Cardinality(upTo) <= Cardinality(S)
  BY <1>1, FS_Subset
<1>3. Cardinality(upTo) \in Nat /\ Cardinality(upTo) # 0 /\ Cardinality(S) \in Nat
  BY <1>1, <1>2, FS_CardinalityType, FS_EmptySet
<1> QED BY <1>2, <1>3 DEF Rank

LEMMA RankGrows ==
  ASSUME NEW S \in SUBSET Nat, IsFiniteSet(S), NEW e \in S, NEW f \in S, e < f
  PROVE  Rank(S, e) < Rank(S, f)
<1> DEFINE upTo(x) == {y \in S : y <= x}
<1>1. upTo(e) \in SUBSET upTo(f) /\ f \in upTo(f) /\ f \notin upTo(e)
  <2>1. \A x \in upTo(e) : x \in S /\ x \in Nat /\ x <= f
    OBVIOUS
  <2>2. \A x \in upTo(e) : x \in upTo(f)
    BY <2>1
  <2>3. f <= f /\ ~(f <= e)
    OBVIOUS
  <2> QED BY <2>2, <2>3
<1>2. IsFiniteSet(upTo(f))
  BY RankType
<1>3. Cardinality(upTo(e)) <= Cardinality(upTo(f))
      /\ (Cardinality(upTo(e)) = Cardinality(upTo(f)) => upTo(e) = upTo(f))
  BY <1>1, <1>2, FS_Subset
<1>4. Rank(S, e) \in 1 .. Cardinality(S) /\ Rank(S, f) \in 1 .. Cardinality(S)
      /\ Cardinality(S) \in Nat
  BY RankType, FS_CardinalityType
<1>5. upTo(e) # upTo(f)
  BY <1>1
<1>6. Rank(S, e) = Cardinality(upTo(e)) /\ Rank(S, f) = Cardinality(upTo(f))
  BY DEF Rank
<1> HIDE DEF upTo
<1> QED BY <1>3, <1>4, <1>5, <1>6

\* The rank is a bijection between a finite set of numbers and 1 .. n.
LEMMA Ranked ==
  ASSUME NEW S \in SUBSET Nat, IsFiniteSet(S)
  PROVE  /\ \A e, f \in S : Rank(S, e) = Rank(S, f) => e = f
         /\ \A i \in 1 .. Cardinality(S) : \E e \in S : Rank(S, e) = i
<1> DEFINE n == Cardinality(S)
           rank == [e \in S |-> Rank(S, e)]
<1>1. n \in Nat
  BY FS_CardinalityType
<1>2. rank \in [S -> 1 .. n]
  BY RankType
<1>3. ASSUME NEW e \in S, NEW f \in S, Rank(S, e) = Rank(S, f) PROVE e = f
  <2>1. e < f \/ f < e \/ e = f
    OBVIOUS
  <2>2. Rank(S, e) \in 1 .. n
    BY RankType
  <2> QED BY <1>1, <1>3, <2>1, <2>2, RankGrows
<1>4. rank \in Injection(S, 1 .. n)
  <2>1. \A e, f \in S : rank[e] = rank[f] => e = f
    BY <1>3
  <2> HIDE DEF rank
  <2> QED BY <1>2, <2>1 DEF Injection, IsInjective
<1>5. IsFiniteSet(1 .. n) /\ Cardinality(1 .. n) = n
  BY <1>1, FS_Interval
<1>6. rank \in Surjection(S, 1 .. n)
  BY <1>4, <1>5, FS_Injection
<1>7. ASSUME NEW i \in 1 .. n PROVE \E e \in S : Rank(S, e) = i
  <2>1. \A e \in S : rank[e] = Rank(S, e)
    OBVIOUS
  <2> HIDE DEF rank
  <2>2. \E e \in S : rank[e] = i
    BY <1>6 DEF Surjection
  <2> QED BY <2>1, <2>2
<1> QED BY <1>3, <1>7

\* Picked lists the elements at the given positions, each as often as it is there.
LEMMA PickedLists ==
  ASSUME NEW X, NEW s \in Seq(X), NEW P \in SUBSET (1 .. Len(s))
  PROVE  /\ Picked(s, P) \in Seq(X)
         /\ \A i \in 1 .. Len(Picked(s, P)) : \E p \in P : Picked(s, P)[i] = s[p]
         /\ \A p \in P : \E i \in 1 .. Len(Picked(s, P)) : Picked(s, P)[i] = s[p]
         /\ (\A p, q \in P : s[p] = s[q] => p = q) =>
              \A i, j \in 1 .. Len(Picked(s, P)) :
                Picked(s, P)[i] = Picked(s, P)[j] => i = j
<1> DEFINE n == Cardinality(P)
           at(i) == CHOOSE p \in P : Rank(P, p) = i
<1>1. IsFiniteSet(P) /\ P \in SUBSET Nat /\ n \in Nat
  <2>1. Len(s) \in Nat
    OBVIOUS
  <2>2. IsFiniteSet(1 .. Len(s))
    BY <2>1, FS_Interval
  <2>3. IsFiniteSet(P)
    BY <2>2, FS_Subset
  <2> QED BY <2>1, <2>3, FS_CardinalityType
<1>2. ASSUME NEW i \in 1 .. n PROVE at(i) \in P /\ Rank(P, at(i)) = i
  BY <1>1, Ranked
<1>3. ASSUME NEW p \in P PROVE Rank(P, p) \in 1 .. n /\ at(Rank(P, p)) = p
  <2>1. Rank(P, p) \in 1 .. n
    BY <1>1, RankType
  <2>2. at(Rank(P, p)) \in P /\ Rank(P, at(Rank(P, p))) = Rank(P, p)
    BY <1>2, <2>1
  <2>3. \A q \in P : Rank(P, q) = Rank(P, p) => q = p
    BY <1>1, Ranked
  <2> HIDE DEF at
  <2> QED BY <2>1, <2>2, <2>3
<1>4. Picked(s, P) = [i \in 1 .. n |-> s[at(i)]]
  BY DEF Picked
<1> HIDE DEF at, n
<1>5. \A i \in 1 .. n : s[at(i)] \in X
  <2>1. \A p \in 1 .. Len(s) : s[p] \in X
    OBVIOUS
  <2> QED BY <1>2, <2>1
<1>6. Picked(s, P) \in Seq(X) /\ Len(Picked(s, P)) = n
      /\ \A i \in 1 .. n : Picked(s, P)[i] = s[at(i)]
  BY <1>1, <1>4, <1>5
<1>7. \A p \in P : \E i \in 1 .. n : Picked(s, P)[i] = s[p]
  BY <1>3, <1>6
<1>8. (\A p, q \in P : s[p] = s[q] => p = q) =>
        \A i, j \in 1 .. n : Picked(s, P)[i] = Picked(s, P)[j] => i = j
  <2> SUFFICES ASSUME \A p, q \in P : s[p] = s[q] => p = q,
                      NEW i \in 1 .. n, NEW j \in 1 .. n, Picked(s, P)[i] = Picked(s, P)[j]
               PROVE  i = j
    OBVIOUS
  <2>1. s[at(i)] = s[at(j)] /\ at(i) \in P /\ at(j) \in P
    BY <1>2, <1>6
  <2>2. at(i) = at(j)
    BY <2>1
  <2>3. Rank(P, at(i)) = i /\ Rank(P, at(j)) = j
    BY <1>2
  <2> QED BY <2>2, <2>3
<1> QED BY <1>2, <1>6, <1>7, <1>8

\* What is picked stays in its order.
LEMMA PickedOrder ==
  ASSUME NEW X, NEW s \in Seq(X), NEW P \in SUBSET (1 .. Len(s)),
         NEW i \in 1 .. Len(Picked(s, P)), NEW j \in 1 .. Len(Picked(s, P)), i < j
  PROVE  \E p, q \in P : p < q /\ Picked(s, P)[i] = s[p] /\ Picked(s, P)[j] = s[q]
<1> DEFINE n == Cardinality(P)
           at(k) == CHOOSE p \in P : Rank(P, p) = k
<1>1. IsFiniteSet(P) /\ P \in SUBSET Nat /\ n \in Nat
  <2>1. Len(s) \in Nat
    OBVIOUS
  <2>2. IsFiniteSet(1 .. Len(s))
    BY <2>1, FS_Interval
  <2>3. IsFiniteSet(P)
    BY <2>2, FS_Subset
  <2> QED BY <2>1, <2>3, FS_CardinalityType
<1>2. Picked(s, P) = [k \in 1 .. n |-> s[at(k)]]
  BY DEF Picked
<1>3. Len(Picked(s, P)) = n
  BY <1>1, <1>2
<1>4. at(i) \in P /\ Rank(P, at(i)) = i /\ at(j) \in P /\ Rank(P, at(j)) = j
  BY <1>1, <1>3, Ranked
<1>5. Picked(s, P)[i] = s[at(i)] /\ Picked(s, P)[j] = s[at(j)]
  BY <1>2, <1>3
<1> HIDE DEF at, n
<1>6. at(i) < at(j)
  <2>1. at(i) # at(j)
    BY <1>4
  <2>2. ~(at(j) < at(i))
    <3> SUFFICES ASSUME at(j) < at(i) PROVE FALSE
      OBVIOUS
    <3>1. j < i
      BY <1>1, <1>4, RankGrows
    <3> QED BY <3>1
  <2>3. at(i) \in Nat /\ at(j) \in Nat
    BY <1>1, <1>4
  <2> QED BY <2>1, <2>2, <2>3
<1> QED BY <1>4, <1>5, <1>6

-----------------------------------------------------------------------------
\* Lists without repetition

LEMMA RangeOf ==
  ASSUME NEW X, NEW s \in Seq(X)
  PROVE  /\ Range(s) \subseteq X
         /\ \A x : x \in Range(s) <=> \E i \in 1 .. Len(s) : s[i] = x
  BY DEF Range

LEMMA AppendList ==
  ASSUME NEW X, NEW s \in Seq(X), NEW x \in X
  PROVE  /\ Append(s, x) \in Seq(X)
         /\ Range(Append(s, x)) = Range(s) \cup {x}
         /\ IsInjective(s) /\ x \notin Range(s) => IsInjective(Append(s, x))
<1> DEFINE t == Append(s, x)
<1>1. /\ t \in Seq(X) /\ Len(t) = Len(s) + 1 /\ Len(s) \in Nat
      /\ \A i \in 1 .. Len(s) : t[i] = s[i]
      /\ t[Len(s) + 1] = x
      /\ DOMAIN t = 1 .. Len(t) /\ DOMAIN s = 1 .. Len(s)
  OBVIOUS
<1> HIDE DEF t
<1>2. \A i \in 1 .. Len(t) : i \in 1 .. Len(s) \/ i = Len(s) + 1
  BY <1>1
<1>3. Range(t) = Range(s) \cup {x}
  BY <1>1, <1>2 DEF Range
<1>4. ASSUME IsInjective(s), x \notin Range(s) PROVE IsInjective(t)
  <2>1. \A i \in 1 .. Len(s) : s[i] # x
    BY <1>1, <1>4 DEF Range
  <2> QED BY <1>1, <1>2, <1>4, <2>1 DEF IsInjective
<1> QED BY <1>1, <1>3, <1>4 DEF t

LEMMA TailList ==
  ASSUME NEW X, NEW s \in Seq(X), s # << >>
  PROVE  /\ Head(s) \in Range(s) /\ Head(s) \in X
         /\ Tail(s) \in Seq(X)
         /\ Range(Tail(s)) \subseteq Range(s)
         /\ Range(s) \subseteq Range(Tail(s)) \cup {Head(s)}
         /\ IsInjective(s) => IsInjective(Tail(s)) /\ Head(s) \notin Range(Tail(s))
<1> DEFINE t == Tail(s)
<1>1. /\ t \in Seq(X) /\ Len(t) = Len(s) - 1 /\ Len(s) \in Nat /\ Len(s) > 0
      /\ \A i \in 1 .. Len(t) : t[i] = s[i + 1]
      /\ Head(s) = s[1]
      /\ DOMAIN t = 1 .. Len(t) /\ DOMAIN s = 1 .. Len(s)
  OBVIOUS
<1> HIDE DEF t
<1>2. \A i \in 1 .. Len(t) : i + 1 \in 1 .. Len(s) /\ i + 1 # 1
  BY <1>1
<1>3. \A i \in 1 .. Len(s) : i = 1 \/ (i - 1 \in 1 .. Len(t) /\ (i - 1) + 1 = i)
  BY <1>1
<1>4. 1 \in 1 .. Len(s)
  BY <1>1
<1>5. Head(s) \in Range(s) /\ Head(s) \in X
  BY <1>1, <1>4 DEF Range
<1>6. Range(t) \subseteq Range(s)
  BY <1>1, <1>2 DEF Range
<1>7. Range(s) \subseteq Range(t) \cup {Head(s)}
  <2> SUFFICES ASSUME NEW i \in 1 .. Len(s) PROVE s[i] \in Range(t) \cup {Head(s)}
    BY <1>1 DEF Range
  <2>1. CASE i = 1
    BY <1>1, <2>1
  <2>2. CASE i # 1
    <3>1. i - 1 \in 1 .. Len(t) /\ t[i - 1] = s[i]
      BY <1>1, <1>3, <2>2
    <3> QED BY <1>1, <3>1 DEF Range
  <2> QED BY <2>1, <2>2
<1>8. ASSUME IsInjective(s) PROVE IsInjective(t) /\ Head(s) \notin Range(t)
  <2>1. IsInjective(t)
    <3> SUFFICES ASSUME NEW i \in 1 .. Len(t), NEW j \in 1 .. Len(t), t[i] = t[j]
                 PROVE  i = j
      BY <1>1 DEF IsInjective
    <3>1. s[i + 1] = s[j + 1] /\ i + 1 \in DOMAIN s /\ j + 1 \in DOMAIN s
      BY <1>1, <1>2
    <3>2. i + 1 = j + 1
      BY <1>8, <3>1 DEF IsInjective
    <3> QED BY <1>1, <3>2
  <2>2. \A i \in 1 .. Len(t) : t[i] # Head(s)
    BY <1>1, <1>2, <1>4, <1>8 DEF IsInjective
  <2> QED BY <1>1, <2>1, <2>2 DEF Range
<1> QED BY <1>1, <1>5, <1>6, <1>7, <1>8 DEF t

LEMMA PickedList ==
  ASSUME NEW X, NEW s \in Seq(X), NEW P \in SUBSET (1 .. Len(s))
  PROVE  /\ Picked(s, P) \in Seq(X)
         /\ Range(Picked(s, P)) = {s[p] : p \in P}
         /\ IsInjective(s) => IsInjective(Picked(s, P))
<1> DEFINE t == Picked(s, P)
<1>1. /\ t \in Seq(X)
      /\ \A i \in 1 .. Len(t) : \E p \in P : t[i] = s[p]
      /\ \A p \in P : \E i \in 1 .. Len(t) : t[i] = s[p]
      /\ (\A p, q \in P : s[p] = s[q] => p = q) => \A i, j \in 1 .. Len(t) : t[i] = t[j] => i = j
  BY PickedLists
<1>2. DOMAIN s = 1 .. Len(s)
  OBVIOUS
<1> HIDE DEF t
<1>3. DOMAIN t = 1 .. Len(t)
  BY <1>1
<1>4. Range(t) = {s[p] : p \in P}
  <2>1. ASSUME NEW x \in Range(t) PROVE \E p \in P : x = s[p]
    <3>1. PICK i \in 1 .. Len(t) : x = t[i]
      BY <1>3 DEF Range
    <3> QED BY <1>1, <3>1
  <2>2. \A p \in P : s[p] \in Range(t)
    BY <1>1, <1>3 DEF Range
  <2> QED BY <2>1, <2>2
<1>5. ASSUME IsInjective(s) PROVE IsInjective(t)
  <2>1. \A p, q \in P : s[p] = s[q] => p = q
    BY <1>2, <1>5 DEF IsInjective
  <2>2. \A i, j \in 1 .. Len(t) : t[i] = t[j] => i = j
    BY <1>1, <2>1
  <2> QED BY <1>3, <2>2 DEF IsInjective
<1> QED BY <1>1, <1>4, <1>5 DEF t

=============================================================================
