--------------------------- MODULE InductionLemmas --------------------------
(***************************************************************************)
(* Lemmas about no part of the program: induction and recursion over the   *)
(* naturals and the sequences stated for sets, which need no operator as a *)
(* parameter, the order of a finite set, and the operations on arrays.     *)
(***************************************************************************)
EXTENDS Arrays, Integers, Sequences, FiniteSets, FunctionTheorems, FiniteSetTheorems,
        SequenceTheorems, WellFoundedInduction, TLAPS

(* Whatever holds 0 and every successor of what it holds has all naturals. *)
LEMMA SetInduction ==
  ASSUME NEW S, 0 \in S, \A n \in Nat : n \in S => n + 1 \in S
  PROVE  Nat \subseteq S
<1> DEFINE less == {ss \in Nat \X Nat : ss[1] < ss[2]}
           T == Nat \ S
<1>1. IsWellFoundedOn(less, Nat)
  BY NatLessThanWellFounded DEF OpToRel
<1> SUFFICES ASSUME T # {} PROVE FALSE
  OBVIOUS
<1>2. T \subseteq Nat
  OBVIOUS
<1> HIDE DEF T, less
<1>3. PICK x \in T : \A y \in T : ~(<<y, x>> \in less)
  BY <1>1, <1>2, WFMin
<1>4. x \in Nat /\ x # 0 /\ x \notin S
  BY <1>2, <1>3 DEF T
<1>5. x - 1 \in Nat /\ (x - 1) + 1 = x /\ x - 1 < x
  BY <1>4
<1>6. x - 1 \notin S
  BY <1>4, <1>5
<1>7. x - 1 \in T /\ <<x - 1, x>> \in less
  BY <1>4, <1>5, <1>6 DEF T, less
<1> QED
  BY <1>3, <1>7

(* A set that holds the empty sequence, and with a sequence each one that  *)
(* is longer by one, holds all.                                            *)
LEMMA SequenceInduction ==
  ASSUME NEW T, NEW P, <<>> \in P,
         \A s \in Seq(T), e \in T : s \in P => Append(s, e) \in P
  PROVE  Seq(T) \subseteq P
<1> DEFINE N == {n \in Nat : \A s \in Seq(T) : Len(s) = n => s \in P}
<1>1. 0 \in N
  BY EmptySeq
<1>2. ASSUME NEW n \in Nat, n \in N PROVE n + 1 \in N
  <2> SUFFICES ASSUME NEW s \in Seq(T), Len(s) = n + 1 PROVE s \in P
    OBVIOUS
  <2> DEFINE t == SubSeq(s, 1, n)
  <2>1. t \in Seq(T) /\ Len(t) = n /\ s[n + 1] \in T
    <3>1. \A i \in 1..n : s[i] \in T
      OBVIOUS
    <3> QED
      BY <3>1
  <2>2. s = Append(t, s[n + 1])
    OBVIOUS
  <2> HIDE DEF t
  <2>3. t \in P
    BY <1>2, <2>1
  <2> QED
    BY <2>1, <2>2, <2>3
<1> HIDE DEF N
<1>3. Nat \subseteq N
  BY <1>1, <1>2, SetInduction
<1> QED
  <2> SUFFICES ASSUME NEW s \in Seq(T) PROVE s \in P
    OBVIOUS
  <2>1. Len(s) \in N
    BY <1>3
  <2> QED
    BY <2>1 DEF N

(* Of some numbers one is the least.                                       *)
LEMMA LeastNumber ==
  ASSUME NEW S \in SUBSET Nat, S # {}
  PROVE  \E m \in S : \A n \in S : m <= n
<1> DEFINE less == {p \in Nat \X Nat : p[1] < p[2]}
<1>1. IsWellFoundedOn(less, Nat)
  BY NatLessThanWellFounded DEF OpToRel
<1>2. PICK m \in S : \A n \in S : ~(<<n, m>> \in less)
  <2> HIDE DEF less
  <2> QED
    BY <1>1, WFMin
<1>3. ASSUME NEW n \in S PROVE m <= n
  <2>1. m \in Nat /\ n \in Nat /\ ~(<<n, m>> \in less)
    BY <1>2
  <2>2. n < m => <<n, m>> \in less
    BY <2>1
  <2> HIDE DEF less
  <2> QED
    BY <2>1, <2>2
<1> QED
  BY <1>3

(* What a function of n says by what it says for n - 1 exists.             *)
Recursive(R, base, N, step) ==
  \E f \in [0..N -> R] : f[0] = base /\ \A n \in 1..N : f[n] = step[<<n, f[n - 1]>>]

LEMMA Recursion ==
  ASSUME NEW R, NEW base \in R, NEW N \in Nat, NEW step \in [(1..N) \X R -> R]
  PROVE  Recursive(R, base, N, step)
<1> DEFINE Upto(m, f) == f \in [0..m -> R] /\ f[0] = base
                         /\ \A n \in 1..m : f[n] = step[<<n, f[n - 1]>>]
           S == {m \in Nat : m <= N => \E f : Upto(m, f)}
<1>1. 0 \in S
  <2>1. Upto(0, [n \in 0..0 |-> base])
    OBVIOUS
  <2> HIDE DEF Upto
  <2> QED
    BY <2>1
<1>2. ASSUME NEW m \in Nat, m \in S PROVE m + 1 \in S
  <2> SUFFICES ASSUME m + 1 <= N PROVE \E f : Upto(m + 1, f)
    OBVIOUS
  <2>1. PICK f : Upto(m, f)
    BY <1>2
  <2> DEFINE g == [n \in 0..(m + 1) |-> IF n = m + 1 THEN step[<<m + 1, f[m]>>] ELSE f[n]]
  <2>2. f \in [0..m -> R] /\ f[m] \in R /\ <<m + 1, f[m]>> \in (1..N) \X R
    BY <2>1
  <2>3. step[<<m + 1, f[m]>>] \in R
    BY <2>2
  <2>4. \A n \in 0..(m + 1) : n \in 0..m \/ n = m + 1
    OBVIOUS
  <2>5. g \in [0..(m + 1) -> R]
    BY <2>2, <2>3, <2>4
  <2>6. \A n \in 0..m : g[n] = f[n]
    OBVIOUS
  <2>7. g[m + 1] = step[<<m + 1, g[m]>>]
    <3>1. g[m + 1] = step[<<m + 1, f[m]>>] /\ g[m] = f[m]
      BY <2>6
    <3> HIDE DEF g
    <3> QED
      BY <3>1
  <2>8. ASSUME NEW n \in 1..(m + 1) PROVE g[n] = step[<<n, g[n - 1]>>]
    <3>1. CASE n = m + 1
      BY <2>7, <3>1
    <3>2. CASE n # m + 1
      <4>1. n \in 1..m /\ n \in 0..m /\ n - 1 \in 0..m
        BY <3>2
      <4> QED
        BY <2>1, <2>6, <4>1
    <3> QED
      BY <3>1, <3>2
  <2>9. g[0] = base
    BY <2>1, <2>6
  <2>10. Upto(m + 1, g)
    BY <2>5, <2>8, <2>9
  <2> QED
    BY <2>10
<1> HIDE DEF S, Upto
<1>3. Nat \subseteq S
  BY <1>1, <1>2, SetInduction
<1>4. \E f : Upto(N, f)
  BY <1>3 DEF S
<1> QED
  BY <1>4 DEF Upto, Recursive

-----------------------------------------------------------------------------
(* The order of a finite set, from its least element up.                   *)
StrictOrder(before, S) ==
  /\ \A s \in S : <<s, s>> \notin before
  /\ \A s, t, u \in S : <<s, t>> \in before /\ <<t, u>> \in before => <<s, u>> \in before
  /\ \A s, t \in S : s = t \/ <<s, t>> \in before \/ <<t, s>> \in before

Ordered(q, before, S) ==
  /\ q \in [1..Cardinality(S) -> S]
  /\ \A i, j \in 1..Cardinality(S) : i < j => <<q[i], q[j]>> \in before

(* There is one: each element goes to the place that as many elements as   *)
(* are not after it give it.                                               *)
LEMMA Enumeration ==
  ASSUME NEW S, IsFiniteSet(S), NEW before, StrictOrder(before, S)
  PROVE  \E q : Ordered(q, before, S)
<1> DEFINE n == Cardinality(S)
           Below(s) == {t \in S : t = s \/ <<t, s>> \in before}
           place == [s \in S |-> Cardinality(Below(s))]
<1>1. n \in Nat
  BY FS_CardinalityType
<1>2. ASSUME NEW s \in S
      PROVE  IsFiniteSet(Below(s)) /\ place[s] \in 1..n /\ place[s] = Cardinality(Below(s))
  <2>1. IsFiniteSet(Below(s)) /\ Cardinality(Below(s)) <= n /\ Cardinality(Below(s)) \in Nat
    BY <1>1, FS_Subset, FS_CardinalityType
  <2>2. s \in Below(s)
    OBVIOUS
  <2>3. Cardinality(Below(s)) # 0
    BY <2>1, <2>2, FS_EmptySet
  <2> HIDE DEF Below
  <2> QED
    BY <1>1, <2>1, <2>3
<1>3. ASSUME NEW s \in S, NEW t \in S, <<s, t>> \in before
      PROVE  place[s] < place[t]
  <2>1. Below(s) \subseteq Below(t) /\ t \in Below(t) /\ t \notin Below(s)
    BY <1>3 DEF StrictOrder
  <2>2. Cardinality(Below(s)) <= Cardinality(Below(t)) /\ Cardinality(Below(s)) # Cardinality(Below(t))
    BY <1>2, <2>1, FS_Subset
  <2> HIDE DEF Below
  <2> QED
    BY <1>2, <2>2
<1>4. \A s, t \in S : s = t \/ <<s, t>> \in before \/ <<t, s>> \in before
  BY DEF StrictOrder
<1>5. place \in Injection(S, 1..n)
  <2>1. place \in [S -> 1..n]
    BY <1>2
  <2>2. ASSUME NEW s \in S, NEW t \in S, place[s] = place[t] PROVE s = t
    <3>1. place[s] \in Nat /\ ~(place[s] < place[t]) /\ ~(place[t] < place[s])
      BY <1>1, <1>2, <2>2
    <3> HIDE DEF place
    <3> QED
      BY <1>3, <1>4, <3>1
  <2> HIDE DEF place
  <2> QED
    BY <2>1, <2>2 DEF Injection, IsInjective
<1>6. place \in Surjection(S, 1..n)
  <2>1. IsFiniteSet(1..n) /\ Cardinality(1..n) = n
    BY <1>1, FS_Interval
  <2> HIDE DEF place
  <2> QED
    BY <1>5, <2>1, FS_Injection
<1>7. \A i \in 1..n : \E s \in S : place[s] = i
  BY <1>6 DEF Surjection
<1> DEFINE q == [i \in 1..n |-> CHOOSE s \in S : place[s] = i]
<1>8. \A i \in 1..n : q[i] \in S /\ place[q[i]] = i
  BY <1>7
<1> HIDE DEF place
<1>9. q \in [1..n -> S]
  BY <1>8
<1> HIDE DEF q
<1>10. ASSUME NEW i \in 1..n, NEW j \in 1..n, i < j PROVE <<q[i], q[j]>> \in before
  <2>1. ~(place[q[j]] < place[q[i]]) /\ q[i] # q[j]
    BY <1>1, <1>8, <1>10
  <2> QED
    BY <1>3, <1>4, <1>8, <2>1
<1> QED
  BY <1>9, <1>10 DEF Ordered

(* Any that is ordered has every element, once.                            *)
LEMMA EnumerationOnto ==
  ASSUME NEW S, IsFiniteSet(S), NEW before, StrictOrder(before, S), NEW q, Ordered(q, before, S)
  PROVE  /\ \A i, j \in 1..Cardinality(S) : i # j => q[i] # q[j]
         /\ \A s \in S : \E i \in 1..Cardinality(S) : q[i] = s
<1> DEFINE n == Cardinality(S)
<1>1. n \in Nat /\ IsFiniteSet(1..n) /\ Cardinality(1..n) = n
  BY FS_CardinalityType, FS_Interval
<1>2. q \in [1..n -> S] /\ \A i, j \in 1..n : i < j => <<q[i], q[j]>> \in before
  BY DEF Ordered
<1> HIDE DEF n
<1>3. ASSUME NEW i \in 1..n, NEW j \in 1..n, i # j PROVE q[i] # q[j]
  <2>1. i < j \/ j < i
    BY <1>1, <1>3
  <2> QED
    BY <1>2, <2>1 DEF StrictOrder
<1>4. q \in Injection(1..n, S)
  BY <1>2, <1>3 DEF Injection, IsInjective
<1>5. q \in Surjection(1..n, S)
  BY <1>1, <1>4, FS_Injection DEF n
<1> QED
  BY <1>3, <1>5 DEF Surjection, n

-----------------------------------------------------------------------------
(* Cardinalities.                                                          *)

LEMMA SameSize ==
  ASSUME NEW S, NEW T, IsFiniteSet(S), NEW f \in [S -> T],
         \A t \in T : \E s \in S : f[s] = t, \A s, u \in S : f[s] = f[u] => s = u
  PROVE  IsFiniteSet(T) /\ Cardinality(T) = Cardinality(S)
<1>1. f \in Surjection(S, T) /\ f \in Injection(S, T)
  BY Fun_IsSurj, Fun_IsInj
<1> QED
  BY <1>1, FS_Surjection

LEMMA DisjointUnion ==
  ASSUME NEW S, NEW T, IsFiniteSet(S), IsFiniteSet(T), S \cap T = {}
  PROVE  IsFiniteSet(S \cup T) /\ Cardinality(S \cup T) = Cardinality(S) + Cardinality(T)
<1>1. /\ IsFiniteSet(S \cup T)
      /\ Cardinality(S \cup T) = Cardinality(S) + Cardinality(T) - Cardinality(S \cap T)
  BY FS_Union
<1>2. Cardinality(S \cap T) = 0
  BY FS_EmptySet
<1>3. Cardinality(S) \in Nat /\ Cardinality(T) \in Nat
  BY FS_CardinalityType
<1> QED
  BY <1>1, <1>2, <1>3

-----------------------------------------------------------------------------
(* Arrays.                                                                 *)

LEMMA AppendedIs ==
  ASSUME NEW T, NEW s \in Seq(T), NEW e \in T
  PROVE  /\ Append(s, e) \in Seq(T) /\ Len(Append(s, e)) = Len(s) + 1
         /\ \A i \in 1..Len(s) : Append(s, e)[i] = s[i]
         /\ Append(s, e)[Len(s) + 1] = e
         /\ Range(Append(s, e)) = Range(s) \cup {e}
         /\ IsInjective(Append(s, e)) <=> IsInjective(s) /\ e \notin Range(s)
<1> DEFINE t == Append(s, e)
           n == Len(s)
<1>1. /\ n \in Nat /\ DOMAIN s = 1..n /\ t \in Seq(T) /\ Len(t) = n + 1
      /\ DOMAIN t = 1..(n + 1) /\ t[n + 1] = e /\ \A i \in 1..n : t[i] = s[i]
  OBVIOUS
<1> HIDE DEF t, n
<1>2. \A i \in 1..(n + 1) : i \in 1..n \/ i = n + 1
  BY <1>1
<1>3. Range(t) = Range(s) \cup {e}
  BY <1>1, <1>2 DEF Range
<1>4. IsInjective(t) <=> IsInjective(s) /\ e \notin Range(s)
  <2>1. n + 1 \in 1..(n + 1) /\ \A i \in 1..n : i \in 1..(n + 1) /\ i # n + 1
    BY <1>1
  <2> QED
    BY <1>1, <1>2, <2>1 DEF IsInjective, Range
<1> QED
  BY <1>1, <1>3, <1>4 DEF t, n

LEMMA AppendConcat ==
  ASSUME NEW T, NEW s \in Seq(T), NEW t \in Seq(T), NEW e \in T
  PROVE  s \o Append(t, e) = Append(s \o t, e)
OBVIOUS

(* The head of one sequence moves to the end of another.                   *)
LEMMA Requeue ==
  ASSUME NEW T, NEW o \in Seq(T), NEW q \in Seq(T), q # <<>>
  PROVE  /\ Head(q) \in T /\ Tail(q) \in Seq(T) /\ Append(o, Head(q)) \in Seq(T)
         /\ Append(o, Head(q)) \o Tail(q) = o \o q
<1>1. Head(q) \in T /\ Tail(q) \in Seq(T) /\ Append(o, Head(q)) \in Seq(T)
  OBVIOUS
<1>2. Append(o, Head(q)) = o \o <<Head(q)>> /\ q = <<Head(q)>> \o Tail(q)
  OBVIOUS
<1>3. <<Head(q)>> \in Seq(T)
  BY <1>1
<1>4. (o \o <<Head(q)>>) \o Tail(q) = o \o (<<Head(q)>> \o Tail(q))
  BY <1>1, <1>3, ConcatAssociative
<1> QED
  BY <1>1, <1>2, <1>4

(* The recursion of Reduce is defined.                                     *)
Reduces(s, base, step, R) ==
  \E sofar \in [0..Len(s) -> R] :
    /\ Reduce(s, base, step) = sofar[Len(s)] /\ sofar[0] = base
    /\ \A n \in 1..Len(s) : sofar[n] = step[<<sofar[n - 1], s[n]>>]

LEMMA Reducing ==
  ASSUME NEW T, NEW R, NEW s \in Seq(T), NEW base \in R, NEW step \in [R \X T -> R]
  PROVE  Reduces(s, base, step, R)
<1> DEFINE N == Len(s)
           Kept(f) == f = [n \in 0..Len(s) |-> IF n = 0 THEN base ELSE step[f[n - 1], s[n]]]
           sofar == CHOOSE f : Kept(f)
           next == [p \in (1..N) \X R |-> step[<<p[2], s[p[1]]>>]]
<1>1. N \in Nat /\ \A n \in 1..N : s[n] \in T
  OBVIOUS
<1>2. \A n \in 1..N, r \in R : step[<<r, s[n]>>] \in R
  BY <1>1
<1>3. next \in [(1..N) \X R -> R] /\ \A n \in 1..N, r \in R : next[<<n, r>>] = step[<<r, s[n]>>]
  BY <1>2
<1> HIDE DEF next, N
<1> Recursive(R, base, N, next)
  BY <1>1, <1>3, Recursion
<1>4. PICK f \in [0..N -> R] : f[0] = base /\ \A n \in 1..N : f[n] = next[<<n, f[n - 1]>>]
  BY DEF Recursive
<1>5. f = [n \in 0..N |-> IF n = 0 THEN base ELSE step[f[n - 1], s[n]]]
  <2>1. ASSUME NEW n \in 0..N PROVE f[n] = IF n = 0 THEN base ELSE step[<<f[n - 1], s[n]>>]
    <3>1. CASE n = 0
      BY <1>4, <3>1
    <3>2. CASE n # 0
      <4>1. n \in 1..N /\ n - 1 \in 0..N
        BY <1>1, <3>2
      <4>2. f[n - 1] \in R
        BY <1>4, <4>1
      <4> QED
        BY <1>3, <1>4, <3>2, <4>1, <4>2
    <3> QED
      BY <3>1, <3>2
  <2> QED
    BY <2>1, <1>4
<1>6. Kept(f)
  BY <1>5 DEF N
<1> HIDE DEF Kept
<1>7. Kept(sofar)
  BY <1>6
<1>8. Reduce(s, base, step) = sofar[N]
  BY DEF Reduce, Kept, N
<1>9. sofar = [n \in 0..N |-> IF n = 0 THEN base ELSE step[<<sofar[n - 1], s[n]>>]]
  BY <1>7 DEF Kept, N
<1> HIDE DEF sofar
<1> DEFINE Typed == {n \in Nat : n <= N => sofar[n] \in R}
<1>10. 0 \in Typed
  BY <1>1, <1>9
<1>11. ASSUME NEW n \in Nat, n \in Typed PROVE n + 1 \in Typed
  <2> SUFFICES ASSUME n + 1 <= N PROVE sofar[n + 1] \in R
    OBVIOUS
  <2>1. n + 1 \in 0..N /\ n + 1 \in 1..N /\ n + 1 # 0 /\ (n + 1) - 1 = n /\ sofar[n] \in R
    BY <1>1, <1>11
  <2>2. sofar[n + 1] = step[<<sofar[n], s[n + 1]>>]
    BY <1>9, <2>1
  <2> QED
    BY <1>2, <2>1, <2>2
<1> HIDE DEF Typed
<1>12. Nat \subseteq Typed
  BY <1>10, <1>11, SetInduction
<1>13. \A n \in 0..N : sofar[n] \in R
  <2> SUFFICES ASSUME NEW n \in 0..N PROVE sofar[n] \in R
    OBVIOUS
  <2>1. n \in Typed /\ n <= N
    BY <1>1, <1>12
  <2> QED
    BY <2>1 DEF Typed
<1>14. sofar \in [0..N -> R]
  BY <1>9, <1>13
<1>15. sofar[0] = base /\ \A n \in 1..N : sofar[n] = step[<<sofar[n - 1], s[n]>>]
  <2>1. 0 \in 0..N /\ \A n \in 1..N : n \in 0..N /\ n # 0
    BY <1>1
  <2> QED
    BY <1>9, <2>1
<1> QED
  BY <1>8, <1>14, <1>15 DEF N, Reduces

(* What it does, one element after another.                                *)
StepsOf(T, R, base, step) ==
  /\ Reduce(<<>>, base, step) = base
  /\ \A s \in Seq(T) : Reduce(s, base, step) \in R
  /\ \A s \in Seq(T), e \in T :
       Reduce(Append(s, e), base, step) = step[<<Reduce(s, base, step), e>>]

LEMMA ReduceIs ==
  ASSUME NEW T, NEW R, NEW base \in R, NEW step \in [R \X T -> R]
  PROVE  StepsOf(T, R, base, step)
<1>1. Reduce(<<>>, base, step) = base
  <2>1. <<>> \in Seq(T) /\ Len(<<>>) = 0
    OBVIOUS
  <2>2. Reduces(<<>>, base, step, R)
    BY <2>1, Reducing
  <2> QED
    BY <2>1, <2>2 DEF Reduces
<1>2. ASSUME NEW s \in Seq(T) PROVE Reduce(s, base, step) \in R
  <2>1. Reduces(s, base, step, R)
    BY Reducing
  <2>2. Len(s) \in 0..Len(s)
    OBVIOUS
  <2> QED
    BY <2>1, <2>2 DEF Reduces
<1>3. ASSUME NEW s \in Seq(T), NEW e \in T
      PROVE  Reduce(Append(s, e), base, step) = step[<<Reduce(s, base, step), e>>]
  <2> DEFINE N == Len(s)
             t == Append(s, e)
  <2>1. N \in Nat /\ t \in Seq(T) /\ Len(t) = N + 1 /\ t[N + 1] = e /\ \A i \in 1..N : t[i] = s[i]
    BY AppendedIs
  <2> HIDE DEF t
  <2>2. Reduces(s, base, step, R) /\ Reduces(t, base, step, R)
    BY <2>1, Reducing
  <2> HIDE DEF N
  <2>3. PICK f \in [0..N -> R] :
           /\ Reduce(s, base, step) = f[N] /\ f[0] = base
           /\ \A n \in 1..N : f[n] = step[<<f[n - 1], s[n]>>]
    BY <2>2 DEF Reduces, N
  <2>4. PICK g \in [0..(N + 1) -> R] :
           /\ Reduce(t, base, step) = g[N + 1] /\ g[0] = base
           /\ \A n \in 1..(N + 1) : g[n] = step[<<g[n - 1], t[n]>>]
    BY <2>1, <2>2 DEF Reduces
  <2> DEFINE P == {n \in Nat : n <= N => f[n] = g[n]}
  <2>5. 0 \in P
    BY <2>3, <2>4
  <2>6. ASSUME NEW n \in Nat, n \in P PROVE n + 1 \in P
    <3> SUFFICES ASSUME n + 1 <= N PROVE f[n + 1] = g[n + 1]
      OBVIOUS
    <3>1. n + 1 \in 1..N /\ n + 1 \in 1..(N + 1) /\ (n + 1) - 1 = n /\ f[n] = g[n]
      BY <2>1, <2>6
    <3>2. f[n + 1] = step[<<f[n], s[n + 1]>>] /\ g[n + 1] = step[<<g[n], t[n + 1]>>]
      BY <2>3, <2>4, <3>1
    <3> QED
      BY <2>1, <3>1, <3>2
  <2> HIDE DEF P
  <2>7. N \in P
    BY <2>1, <2>5, <2>6, SetInduction
  <2>8. f[N] = g[N] /\ N + 1 \in 1..(N + 1) /\ (N + 1) - 1 = N
    BY <2>1, <2>7 DEF P
  <2> QED
    BY <2>1, <2>3, <2>4, <2>8 DEF t
<1> QED
  BY <1>1, <1>2, <1>3 DEF StepsOf

(* The recursion of Picked is defined.                                     *)
Picks(s, P, T) ==
  \E kept \in [0..Len(s) -> Seq(T)] :
    /\ Picked(s, P) = kept[Len(s)] /\ kept[0] = <<>>
    /\ \A n \in 1..Len(s) :
         kept[n] = IF n \in P THEN Append(kept[n - 1], s[n]) ELSE kept[n - 1]

LEMMA Picking ==
  ASSUME NEW T, NEW s \in Seq(T), NEW P
  PROVE  Picks(s, P, T)
<1> DEFINE N == Len(s)
           Kept(f) == f = [n \in 0..Len(s) |->
                             IF n = 0 THEN <<>>
                             ELSE IF n \in P THEN Append(f[n - 1], s[n]) ELSE f[n - 1]]
           kept == CHOOSE f : Kept(f)
           R == Seq(T)
           step == [p \in (1..N) \X R |->
                      IF p[1] \in P THEN Append(p[2], s[p[1]]) ELSE p[2]]
<1>1. N \in Nat /\ \A n \in 1..N : s[n] \in T
  OBVIOUS
<1>2. step \in [(1..N) \X R -> R]
  BY <1>1
<1>3. \A n \in 1..N, k \in R :
         step[<<n, k>>] = IF n \in P THEN Append(k, s[n]) ELSE k
  OBVIOUS
<1>4. <<>> \in R
  OBVIOUS
<1> HIDE DEF step, R, N
<1> Recursive(R, <<>>, N, step)
  BY <1>1, <1>2, <1>4, Recursion
<1>5. PICK f \in [0..N -> R] : f[0] = <<>> /\ \A n \in 1..N : f[n] = step[<<n, f[n - 1]>>]
  BY DEF Recursive
<1>6. ASSUME NEW n \in 1..N
      PROVE  f[n] = IF n \in P THEN Append(f[n - 1], s[n]) ELSE f[n - 1]
  <2>1. f[n - 1] \in R
    BY <1>1
  <2> QED
    BY <1>3, <1>5, <2>1
<1>7. f = [n \in 0..N |-> IF n = 0 THEN <<>>
                          ELSE IF n \in P THEN Append(f[n - 1], s[n]) ELSE f[n - 1]]
  <2>1. \A n \in 0..N : n = 0 \/ n \in 1..N
    BY <1>1
  <2> QED
    BY <1>5, <1>6, <2>1
<1>8. Kept(f)
  BY <1>7 DEF N
<1> HIDE DEF Kept
<1>9. Kept(kept)
  BY <1>8
<1>10. kept = [n \in 0..N |-> IF n = 0 THEN <<>>
                          ELSE IF n \in P THEN Append(kept[n - 1], s[n]) ELSE kept[n - 1]]
  BY <1>9 DEF Kept, N
<1>11. Picked(s, P) = kept[N]
  BY DEF Picked, Kept, N
<1> HIDE DEF kept
<1> DEFINE Typed == {n \in Nat : n <= N => kept[n] \in R}
<1>12. kept[0] = <<>>
  BY <1>1, <1>10
<1>13. \A n \in 1..N : kept[n] = IF n \in P THEN Append(kept[n - 1], s[n]) ELSE kept[n - 1]
  <2> SUFFICES ASSUME NEW n \in 1..N
               PROVE  kept[n] = IF n \in P THEN Append(kept[n - 1], s[n]) ELSE kept[n - 1]
    OBVIOUS
  <2>1. n \in 0..N /\ n # 0
    BY <1>1
  <2> QED
    BY <1>10, <2>1
<1>14. 0 \in Typed
  BY <1>4, <1>12
<1>15. ASSUME NEW n \in Nat, n \in Typed PROVE n + 1 \in Typed
  <2> SUFFICES ASSUME n + 1 <= N PROVE kept[n + 1] \in R
    OBVIOUS
  <2>1. n + 1 \in 1..N /\ (n + 1) - 1 = n /\ kept[n] \in R
    BY <1>1, <1>15
  <2>2. kept[n + 1] = IF n + 1 \in P THEN Append(kept[n], s[n + 1]) ELSE kept[n]
    BY <1>13, <2>1
  <2> QED
    BY <1>1, <2>1, <2>2 DEF R
<1> HIDE DEF Typed
<1>16. Nat \subseteq Typed
  BY <1>14, <1>15, SetInduction
<1>17. \A n \in 0..N : kept[n] \in R
  <2> SUFFICES ASSUME NEW n \in 0..N PROVE kept[n] \in R
    OBVIOUS
  <2>1. n \in Typed /\ n <= N
    BY <1>1, <1>16
  <2> QED
    BY <2>1 DEF Typed
<1>18. kept \in [0..N -> R]
  BY <1>10, <1>17
<1> QED
  BY <1>11, <1>12, <1>13, <1>18 DEF N, R, Picks

Selects(s, S, T) ==
  \E kept \in [0..Len(s) -> Seq(T)] :
    /\ Select(s, S) = kept[Len(s)] /\ kept[0] = <<>>
    /\ \A n \in 1..Len(s) :
         kept[n] = IF s[n] \in S THEN Append(kept[n - 1], s[n]) ELSE kept[n - 1]

LEMMA Selecting ==
  ASSUME NEW T, NEW s \in Seq(T), NEW S
  PROVE  Selects(s, S, T)
<1> DEFINE P == {n \in DOMAIN s : s[n] \in S}
<1>1. \A n \in 1..Len(s) : n \in P <=> s[n] \in S
  OBVIOUS
<1>2. Select(s, S) = Picked(s, P)
  BY DEF Select
<1> HIDE DEF P
<1>3. Picks(s, P, T)
  BY Picking
<1> QED
  BY <1>1, <1>2, <1>3 DEF Picks, Selects

LEMMA SelectEmpty == ASSUME NEW S PROVE Select(<<>>, S) = <<>>
<1>1. <<>> \in Seq({}) /\ Len(<<>>) = 0
  OBVIOUS
<1>2. Selects(<<>>, S, {})
  BY <1>1, Selecting
<1> QED
  BY <1>1, <1>2 DEF Selects

LEMMA SelectAppend ==
  ASSUME NEW T, NEW s \in Seq(T), NEW e \in T, NEW S
  PROVE  Select(Append(s, e), S) =
           IF e \in S THEN Append(Select(s, S), e) ELSE Select(s, S)
<1> DEFINE N == Len(s)
           t == Append(s, e)
<1>1. N \in Nat /\ t \in Seq(T) /\ Len(t) = N + 1 /\ t[N + 1] = e /\ \A i \in 1..N : t[i] = s[i]
  BY AppendedIs
<1>2. PICK f \in [0..N -> Seq(T)] :
         /\ Select(s, S) = f[N] /\ f[0] = <<>>
         /\ \A n \in 1..N : f[n] = IF s[n] \in S THEN Append(f[n - 1], s[n]) ELSE f[n - 1]
  <2> Selects(s, S, T)
    BY Selecting
  <2> QED
    BY DEF Selects
<1> HIDE DEF N, t
<1>3. PICK g \in [0..(N + 1) -> Seq(T)] :
         /\ Select(t, S) = g[N + 1] /\ g[0] = <<>>
         /\ \A n \in 1..(N + 1) : g[n] = IF t[n] \in S THEN Append(g[n - 1], t[n]) ELSE g[n - 1]
  <2> Selects(t, S, T)
    BY <1>1, Selecting
  <2> QED
    BY <1>1 DEF Selects
<1> DEFINE P == {n \in Nat : n <= N => f[n] = g[n]}
<1>4. 0 \in P
  BY <1>2, <1>3
<1>5. ASSUME NEW n \in Nat, n \in P PROVE n + 1 \in P
  <2> SUFFICES ASSUME n + 1 <= N PROVE f[n + 1] = g[n + 1]
    OBVIOUS
  <2>1. n + 1 \in 1..N /\ n + 1 \in 1..(N + 1) /\ (n + 1) - 1 = n /\ f[n] = g[n]
    BY <1>1, <1>5
  <2>2. f[n + 1] = IF s[n + 1] \in S THEN Append(f[n], s[n + 1]) ELSE f[n]
    BY <1>2, <2>1
  <2>3. g[n + 1] = IF t[n + 1] \in S THEN Append(g[n], t[n + 1]) ELSE g[n]
    BY <1>3, <2>1
  <2> QED
    BY <1>1, <2>1, <2>2, <2>3
<1> HIDE DEF P
<1>6. N \in P
  BY <1>1, <1>4, <1>5, SetInduction
<1>7. f[N] = g[N]
  BY <1>1, <1>6 DEF P
<1>8. N + 1 \in 1..(N + 1) /\ (N + 1) - 1 = N
  BY <1>1
<1>9. g[N + 1] = IF e \in S THEN Append(g[N], e) ELSE g[N]
  BY <1>1, <1>3, <1>8
<1> QED
  BY <1>2, <1>3, <1>7, <1>9 DEF t

(* What is selected was there, once if it was there once.                  *)
LEMMA SelectIs ==
  ASSUME NEW T, NEW s \in Seq(T), NEW S
  PROVE  /\ Select(s, S) \in Seq(T \cap S)
         /\ Range(Select(s, S)) \subseteq Range(s) \cap S
         /\ IsInjective(s) => IsInjective(Select(s, S))
<1> DEFINE Right(u) == /\ Select(u, S) \in Seq(T \cap S)
                       /\ Range(Select(u, S)) \subseteq Range(u) \cap S
                       /\ IsInjective(u) => IsInjective(Select(u, S))
           P == {u \in Seq(T) : Right(u)}
<1>1. <<>> \in P
  <2>1. Select(<<>>, S) = <<>>
    BY SelectEmpty
  <2>2. <<>> \in Seq(T) /\ <<>> \in Seq(T \cap S) /\ Range(<<>>) = {} /\ IsInjective(<<>>)
    BY DEF Range, IsInjective
  <2> QED
    BY <2>1, <2>2
<1>2. ASSUME NEW u \in Seq(T), NEW e \in T, u \in P PROVE Append(u, e) \in P
  <2>1. /\ Append(u, e) \in Seq(T) /\ Range(Append(u, e)) = Range(u) \cup {e}
        /\ IsInjective(Append(u, e)) <=> IsInjective(u) /\ e \notin Range(u)
    BY AppendedIs
  <2>2. Select(Append(u, e), S) = IF e \in S THEN Append(Select(u, S), e) ELSE Select(u, S)
    BY SelectAppend
  <2>3. Right(u)
    BY <1>2
  <2>4. CASE e \notin S
    <3>1. Select(Append(u, e), S) = Select(u, S)
      BY <2>2, <2>4
    <3> QED
      BY <2>1, <2>3, <3>1
  <2>5. CASE e \in S
    <3> DEFINE v == Select(u, S)
    <3>1. Select(Append(u, e), S) = Append(v, e)
      BY <2>2, <2>5
    <3>2. v \in Seq(T \cap S) /\ e \in T \cap S
      BY <2>3, <2>5
    <3> HIDE DEF v
    <3>3. /\ Append(v, e) \in Seq(T \cap S) /\ Range(Append(v, e)) = Range(v) \cup {e}
          /\ IsInjective(Append(v, e)) <=> IsInjective(v) /\ e \notin Range(v)
      BY <3>2, AppendedIs
    <3>4. Range(v) \subseteq Range(u) \cap S /\ (IsInjective(u) => IsInjective(v))
      BY <2>3 DEF v
    <3> QED
      BY <2>1, <2>5, <3>1, <3>3, <3>4
  <2> QED
    BY <2>4, <2>5
<1>3. s \in P
  <2> HIDE DEF P
  <2> QED
    BY <1>1, <1>2, SequenceInduction
<1> QED
  BY <1>3

LEMMA SelectAll ==
  ASSUME NEW T, NEW S
  PROVE  \A s \in Seq(T) : Range(s) \subseteq S => Select(s, S) = s
<1> DEFINE P == {u \in Seq(T) : Range(u) \subseteq S => Select(u, S) = u}
<1>1. <<>> \in P
  BY SelectEmpty
<1>2. ASSUME NEW u \in Seq(T), NEW e \in T, u \in P PROVE Append(u, e) \in P
  BY <1>2, AppendedIs, SelectAppend
<1>3. Seq(T) \subseteq P
  <2> HIDE DEF P
  <2> QED
    BY <1>1, <1>2, SequenceInduction
<1> QED
  BY <1>3

LEMMA SelectNone ==
  ASSUME NEW T, NEW S
  PROVE  \A s \in Seq(T) : Range(s) \cap S = {} => Select(s, S) = <<>>
<1> DEFINE P == {u \in Seq(T) : Range(u) \cap S = {} => Select(u, S) = <<>>}
<1>1. <<>> \in P
  BY SelectEmpty
<1>2. ASSUME NEW u \in Seq(T), NEW e \in T, u \in P PROVE Append(u, e) \in P
  BY <1>2, AppendedIs, SelectAppend
<1>3. Seq(T) \subseteq P
  <2> HIDE DEF P
  <2> QED
    BY <1>1, <1>2, SequenceInduction
<1> QED
  BY <1>3

LEMMA SelectConcat ==
  ASSUME NEW T, NEW S, NEW s \in Seq(T)
  PROVE  \A t \in Seq(T) : Select(s \o t, S) = Select(s, S) \o Select(t, S)
<1> DEFINE P == {u \in Seq(T) : Select(s \o u, S) = Select(s, S) \o Select(u, S)}
<1>0. Select(s, S) \in Seq(T \cap S)
  BY SelectIs
<1>1. <<>> \in P
  <2>1. s \o <<>> = s /\ Select(s, S) \o <<>> = Select(s, S)
    BY <1>0
  <2> QED
    BY <2>1, SelectEmpty, <<>> \in Seq(T)
<1>2. ASSUME NEW u \in Seq(T), NEW e \in T, u \in P PROVE Append(u, e) \in P
  <2>1. /\ Append(u, e) \in Seq(T) /\ s \o u \in Seq(T)
        /\ s \o Append(u, e) = Append(s \o u, e)
    BY AppendConcat
  <2>2. Select(s \o u, S) = Select(s, S) \o Select(u, S)
    BY <1>2
  <2>3. Select(u, S) \in Seq(T \cap S)
    BY SelectIs
  <2>4. CASE e \in S
    <3>1. Select(Append(s \o u, e), S) = Append(Select(s \o u, S), e)
      BY <2>1, <2>4, SelectAppend
    <3>2. Select(Append(u, e), S) = Append(Select(u, S), e)
      BY <2>4, SelectAppend
    <3> DEFINE x == Select(s, S)
               y == Select(u, S)
    <3> HIDE DEF x, y
    <3>3. x \in Seq(T \cap S) /\ y \in Seq(T \cap S) /\ e \in T \cap S
      BY <1>0, <2>3, <2>4 DEF x, y
    <3>4. x \o Append(y, e) = Append(x \o y, e)
      BY <3>3, AppendConcat
    <3> QED
      BY <2>1, <2>2, <3>1, <3>2, <3>4 DEF x, y
  <2>5. CASE e \notin S
    <3>1. Select(Append(s \o u, e), S) = Select(s \o u, S)
      BY <2>1, <2>5, SelectAppend
    <3>2. Select(Append(u, e), S) = Select(u, S)
      BY <2>5, SelectAppend
    <3> QED
      BY <2>1, <2>2, <3>1, <3>2
  <2> QED
    BY <2>4, <2>5
<1>3. Seq(T) \subseteq P
  <2> HIDE DEF P
  <2> QED
    BY <1>1, <1>2, SequenceInduction
<1> QED
  BY <1>3


(* What is picked is of whatever kind the elements at the places are.      *)
LEMMA PickedIs ==
  ASSUME NEW T, NEW s \in Seq(T), NEW P, NEW U, \A n \in DOMAIN s \cap P : s[n] \in U
  PROVE  Picked(s, P) \in Seq(U)
<1> DEFINE N == Len(s)
<1>1. N \in Nat /\ DOMAIN s = 1..N
  OBVIOUS
<1>2. Picks(s, P, T)
  BY Picking
<1>3. PICK f \in [0..N -> Seq(T)] :
         /\ Picked(s, P) = f[N] /\ f[0] = <<>>
         /\ \A n \in 1..N : f[n] = IF n \in P THEN Append(f[n - 1], s[n]) ELSE f[n - 1]
  BY <1>2 DEF Picks
<1> HIDE DEF N
<1> DEFINE Typed == {n \in Nat : n <= N => f[n] \in Seq(U)}
<1>4. 0 \in Typed
  BY <1>3
<1>5. ASSUME NEW n \in Nat, n \in Typed PROVE n + 1 \in Typed
  <2> SUFFICES ASSUME n + 1 <= N PROVE f[n + 1] \in Seq(U)
    OBVIOUS
  <2>1. n + 1 \in 1..N /\ (n + 1) - 1 = n /\ f[n] \in Seq(U)
    BY <1>1, <1>5
  <2>2. f[n + 1] = IF n + 1 \in P THEN Append(f[n], s[n + 1]) ELSE f[n]
    BY <1>3, <2>1
  <2>3. n + 1 \in P => s[n + 1] \in U
    BY <1>1, <2>1
  <2> QED
    BY <2>1, <2>2, <2>3
<1> HIDE DEF Typed
<1>6. N \in Typed
  BY <1>1, <1>4, <1>5, SetInduction
<1> QED
  BY <1>1, <1>3, <1>6 DEF Typed

LEMMA TotalIs ==
  /\ Total(<<>>) = 0
  /\ \A s \in Seq(Nat) : Total(s) \in Nat
  /\ \A s \in Seq(Nat), n \in Nat : Total(Append(s, n)) = Total(s) + n
<1> DEFINE N == Nat
           add == [x \in N \X N |-> x[1] + x[2]]
<1>1. add \in [N \X N -> N] /\ 0 \in N
  OBVIOUS
<1>2. \A k, n \in N : add[<<k, n>>] = k + n
  OBVIOUS
<1>3. \A s : Total(s) = Reduce(s, 0, add)
  BY DEF Total
<1> HIDE DEF add, N
<1>4. StepsOf(N, N, 0, add)
  BY <1>1, ReduceIs
<1>5. ASSUME NEW s \in Seq(N), NEW n \in N PROVE Total(Append(s, n)) = Total(s) + n
  <2>1. Reduce(Append(s, n), 0, add) = add[<<Reduce(s, 0, add), n>>] /\ Reduce(s, 0, add) \in N
    BY <1>4 DEF StepsOf
  <2> QED
    BY <1>2, <1>3, <2>1
<1>6. Total(<<>>) = 0 /\ \A s \in Seq(N) : Total(s) \in N
  BY <1>3, <1>4 DEF StepsOf
<1> QED
  BY <1>5, <1>6 DEF N

(* What is selected is all of it.                                          *)
LEMMA SelectRange ==
  ASSUME NEW T, NEW s \in Seq(T), NEW S
  PROVE  Range(Select(s, S)) = Range(s) \cap S
<1> DEFINE P == {u \in Seq(T) : Range(Select(u, S)) = Range(u) \cap S}
<1>1. <<>> \in P
  BY SelectEmpty DEF Range
<1>2. ASSUME NEW u \in Seq(T), NEW e \in T, u \in P PROVE Append(u, e) \in P
  <2>1. Range(Append(u, e)) = Range(u) \cup {e} /\ Append(u, e) \in Seq(T)
    BY AppendedIs
  <2>2. Select(Append(u, e), S) = IF e \in S THEN Append(Select(u, S), e) ELSE Select(u, S)
    BY SelectAppend
  <2>3. Select(u, S) \in Seq(T \cap S)
    BY SelectIs
  <2>4. e \in S => Range(Append(Select(u, S), e)) = Range(Select(u, S)) \cup {e}
    BY <2>3, AppendedIs
  <2> QED
    BY <1>2, <2>1, <2>2, <2>4
<1>3. s \in P
  <2> HIDE DEF P
  <2> QED
    BY <1>1, <1>2, SequenceInduction
<1> QED
  BY <1>3

(* Every element of a sequence is related to every later one.              *)
Pairwise(s, Q) == \A i, j \in DOMAIN s : i < j => <<s[i], s[j]>> \in Q

LEMMA PairwiseEmpty == ASSUME NEW Q PROVE Pairwise(<<>>, Q)
BY DEF Pairwise

LEMMA PairwiseConcat ==
  ASSUME NEW T, NEW s \in Seq(T), NEW t \in Seq(T), NEW Q
  PROVE  Pairwise(s \o t, Q) <=> /\ Pairwise(s, Q) /\ Pairwise(t, Q)
                                 /\ \A x \in Range(s), y \in Range(t) : <<x, y>> \in Q
<1> DEFINE m == Len(s)
           n == Len(t)
           u == s \o t
<1>1. /\ m \in Nat /\ n \in Nat /\ DOMAIN s = 1..m /\ DOMAIN t = 1..n /\ DOMAIN u = 1..(m + n)
      /\ \A i \in 1..m : u[i] = s[i]
      /\ \A i \in 1..n : u[m + i] = t[i]
  BY ConcatProperties
<1> HIDE DEF m, n, u
<1>2. ASSUME Pairwise(u, Q) PROVE Pairwise(s, Q)
  <2> SUFFICES ASSUME NEW i \in 1..m, NEW j \in 1..m, i < j PROVE <<s[i], s[j]>> \in Q
    BY <1>1 DEF Pairwise
  <2>1. i \in 1..(m + n) /\ j \in 1..(m + n)
    BY <1>1
  <2> QED
    BY <1>1, <1>2, <2>1 DEF Pairwise
<1>3. ASSUME Pairwise(u, Q) PROVE Pairwise(t, Q)
  <2> SUFFICES ASSUME NEW i \in 1..n, NEW j \in 1..n, i < j PROVE <<t[i], t[j]>> \in Q
    BY <1>1 DEF Pairwise
  <2>1. m + i \in 1..(m + n) /\ m + j \in 1..(m + n) /\ m + i < m + j
    BY <1>1
  <2> QED
    BY <1>1, <1>3, <2>1 DEF Pairwise
<1>4. ASSUME Pairwise(u, Q), NEW x \in Range(s), NEW y \in Range(t) PROVE <<x, y>> \in Q
  <2>1. PICK i \in 1..m : s[i] = x
    BY <1>1 DEF Range
  <2>2. PICK j \in 1..n : t[j] = y
    BY <1>1 DEF Range
  <2>3. i \in 1..(m + n) /\ m + j \in 1..(m + n) /\ i < m + j
    BY <1>1
  <2> QED
    BY <1>1, <1>4, <2>1, <2>2, <2>3 DEF Pairwise
<1>5. ASSUME Pairwise(s, Q), Pairwise(t, Q), \A x \in Range(s), y \in Range(t) : <<x, y>> \in Q
      PROVE  Pairwise(u, Q)
  <2> SUFFICES ASSUME NEW i \in 1..(m + n), NEW j \in 1..(m + n), i < j PROVE <<u[i], u[j]>> \in Q
    BY <1>1 DEF Pairwise
  <2>1. CASE j \in 1..m
    <3>1. i \in 1..m
      BY <1>1, <2>1
    <3> QED
      BY <1>1, <1>5, <2>1, <3>1 DEF Pairwise
  <2>2. CASE i \in 1..m /\ j \notin 1..m
    <3>1. j - m \in 1..n /\ m + (j - m) = j
      BY <1>1, <2>2
    <3>2. u[i] = s[i] /\ u[j] = t[j - m]
      BY <1>1, <2>2, <3>1
    <3>3. s[i] \in Range(s) /\ t[j - m] \in Range(t)
      BY <1>1, <2>2, <3>1 DEF Range
    <3> QED
      BY <1>5, <3>2, <3>3
  <2>3. CASE i \notin 1..m
    <3>1. j - m \in 1..n /\ m + (j - m) = j /\ i - m \in 1..n /\ m + (i - m) = i /\ i - m < j - m
      BY <1>1, <2>3
    <3>2. u[i] = t[i - m] /\ u[j] = t[j - m]
      BY <1>1, <3>1
    <3> QED
      BY <1>1, <1>5, <3>1, <3>2 DEF Pairwise
  <2> QED
    BY <2>1, <2>2, <2>3
<1> QED
  BY <1>2, <1>3, <1>4, <1>5 DEF u

LEMMA PairwiseAppend ==
  ASSUME NEW T, NEW s \in Seq(T), NEW e \in T, NEW Q
  PROVE  Pairwise(Append(s, e), Q) <=> Pairwise(s, Q) /\ \A x \in Range(s) : <<x, e>> \in Q
<1>1. Append(s, e) = s \o <<e>>
  OBVIOUS
<1>2. <<e>> \in Seq(T) /\ Len(<<e>>) = 1 /\ <<e>>[1] = e
  OBVIOUS
<1> DEFINE t == <<e>>
<1>3. t \in Seq(T) /\ DOMAIN t = {1} /\ t[1] = e
  BY <1>2
<1> HIDE DEF t
<1>4. Range(t) = {e} /\ Pairwise(t, Q)
  BY <1>3 DEF Range, Pairwise
<1>5. Pairwise(s \o t, Q) <=> Pairwise(s, Q) /\ \A x \in Range(s) : <<x, e>> \in Q
  BY <1>3, <1>4, PairwiseConcat
<1> QED
  BY <1>1, <1>5 DEF t

LEMMA SelectPairwise ==
  ASSUME NEW T, NEW s \in Seq(T), NEW S, NEW Q, Pairwise(s, Q)
  PROVE  Pairwise(Select(s, S), Q)
<1> DEFINE P == {u \in Seq(T) : Pairwise(u, Q) => Pairwise(Select(u, S), Q)}
<1>1. <<>> \in P
  BY SelectEmpty, PairwiseEmpty
<1>2. ASSUME NEW u \in Seq(T), NEW e \in T, u \in P PROVE Append(u, e) \in P
  <2> SUFFICES ASSUME Pairwise(Append(u, e), Q) PROVE Pairwise(Select(Append(u, e), S), Q)
    BY AppendedIs
  <2>1. Pairwise(u, Q) /\ \A x \in Range(u) : <<x, e>> \in Q
    BY PairwiseAppend
  <2>2. Select(Append(u, e), S) = IF e \in S THEN Append(Select(u, S), e) ELSE Select(u, S)
    BY SelectAppend
  <2>3. Pairwise(Select(u, S), Q) /\ Select(u, S) \in Seq(T \cap S) /\ Range(Select(u, S)) \subseteq Range(u)
    BY <1>2, <2>1, SelectIs
  <2>4. e \in S => Pairwise(Append(Select(u, S), e), Q)
    BY <2>1, <2>3, PairwiseAppend
  <2> QED
    BY <2>2, <2>3, <2>4
<1>3. s \in P
  <2> HIDE DEF P
  <2> QED
    BY <1>1, <1>2, SequenceInduction
<1> QED
  BY <1>3

-----------------------------------------------------------------------------
(* A function on the first n numbers is a sequence.                        *)
LEMMA MakesSeq ==
  ASSUME NEW T, NEW n \in Nat, NEW f, f = [i \in 1..n |-> f[i]], \A i \in 1..n : f[i] \in T
  PROVE  f \in Seq(T)
<1>1. f \in [1..n -> T]
  OBVIOUS
<1> QED
  BY <1>1, SeqDef
=============================================================================
