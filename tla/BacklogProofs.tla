--------------------------- MODULE BacklogProofs ---------------------------
(***************************************************************************)
(* For every idea, every sequence of additions and every caller: the       *)
(* backlog stays a graph that the sort gets through, what is started has   *)
(* its dependencies done, and a caller that selects again after each start *)
(* keeps every limit.                                                      *)
(***************************************************************************)
EXTENDS Backlog, InductionLemmas

Classes == {"parallel_safe", "sequential", "exclusive"}
Place == Src \cup Dist \cup {<<"root">>} \cup UNION {Part(k) : k \in Nat}
StoryRecord ==
  [id : Nat, epic : Nat, deps : SUBSET Nat, area : SUBSET Place, class : Classes,
   inWave : BOOLEAN, status : {"todo", "in_progress", "done", "blocked"}]

(* Stories as they are added: to do, and waiting for planned ones only.    *)
Fresh ==
  {stories \in Seq(StoryRecord) :
     \A i \in DOMAIN stories :
       stories[i].status = "todo" /\ \A d \in stories[i].deps : Planned(d)}
Unplanned(stories) == \A i \in DOMAIN stories : ~Planned(stories[i].id)

(* They wait for lesser ids of their own list.                             *)
Linked(stories) ==
  \A i \in DOMAIN stories : \A d \in stories[i].deps : d \in IdsOf(stories) /\ d < stories[i].id

PlannedOnce(stories) ==
  \A i, j \in DOMAIN stories :
    stories[i].id = stories[j].id /\ Planned(stories[i].id) => i = j

(* The list of running stories is that of the stories in progress, and     *)
(* what may be started is still to do.                                     *)
RunningInv ==
  /\ backlog \in Seq(StoryRecord)
  /\ running \in Seq(Stories)
  /\ \A k, l \in DOMAIN running : running[k] = running[l] => k = l
  /\ \A k \in DOMAIN running : backlog[running[k]].status = "in_progress"
  /\ offer \subseteq Stories
  /\ \A i \in offer : backlog[i].status = "todo"
  /\ careful \in BOOLEAN

(* No story that is added later has the id of a planned one, and planned   *)
(* stories come once: the showcase counter never passes what was added.    *)
PlanInv ==
  /\ idea \in [mode : STRING, says : SUBSET Decisions, nonGoals : BOOLEAN,
               components : Nat, web : BOOLEAN, clean : BOOLEAN, added : 0..99]
  /\ delta \in Fresh /\ Unplanned(delta) /\ Linked(delta) /\ Len(delta) <= 1
  /\ showcases \in Nat /\ showcases <= AddedCount
  /\ AddedCount + Len(delta) <= idea.added
  /\ stage \in {"idea", "bundle"} => Unplanned(backlog)
  /\ PlannedOnce(backlog)
  /\ \A i \in Stories : \A d \in backlog[i].deps : Planned(d)

-----------------------------------------------------------------------------
(* The topological order of a list of stories.                             *)


(* A story waits for stories of the list that have lesser ids, and no two  *)
(* stories share the id of one that waits or is waited for.                *)
Single(stories, id) ==
  \A i, j \in DOMAIN stories : stories[i].id = id /\ stories[j].id = id => i = j

Graph(stories) ==
  /\ Len(stories) \in Nat /\ DOMAIN stories = 1..Len(stories)
  /\ \A i \in DOMAIN stories :
       /\ stories[i].id \in Nat
       /\ \A d \in stories[i].deps : d \in IdsOf(stories) /\ d < stories[i].id
       /\ stories[i].deps # {} => Single(stories, stories[i].id)
       /\ \A d \in stories[i].deps : Single(stories, d)

(* What the stories called id still wait for once some are done.           *)
Left(stories, id, done) ==
  {wait \in (DOMAIN stories) \X IdsOf(stories) :
     stories[wait[1]].id = id /\ wait[2] \in stories[wait[1]].deps /\ wait[2] \notin done}

LEMMA GraphFinite ==
  ASSUME NEW stories, Graph(stories)
  PROVE  /\ IsFiniteSet(DOMAIN stories) /\ Cardinality(DOMAIN stories) = Len(stories)
         /\ IsFiniteSet(IdsOf(stories)) /\ IdsOf(stories) \subseteq Nat
         /\ IsFiniteSet((DOMAIN stories) \X IdsOf(stories))
<1>1. IsFiniteSet(DOMAIN stories) /\ Cardinality(DOMAIN stories) = Len(stories)
  BY FS_Interval DEF Graph
<1>2. IsFiniteSet(IdsOf(stories)) /\ IdsOf(stories) \subseteq Nat
  <2> DEFINE f == [i \in DOMAIN stories |-> stories[i].id]
  <2>1. f \in Surjection(DOMAIN stories, IdsOf(stories))
    BY Fun_IsSurj DEF IdsOf
  <2> QED
    BY <1>1, <2>1, FS_Surjection DEF IdsOf, Graph
<1>3. IsFiniteSet((DOMAIN stories) \X IdsOf(stories))
  BY <1>1, <1>2, FS_Product
<1> QED
  BY <1>1, <1>2, <1>3

LEMMA LeftFinite ==
  ASSUME NEW stories, Graph(stories), NEW id, NEW done
  PROVE  /\ IsFiniteSet(Left(stories, id, done)) /\ Cardinality(Left(stories, id, done)) \in Nat
         /\ Cardinality(Left(stories, id, done)) = 0 <=> Left(stories, id, done) = {}
<1>1. Left(stories, id, done) \subseteq (DOMAIN stories) \X IdsOf(stories)
  BY DEF Left
<1> QED
  BY <1>1, GraphFinite, FS_Subset, FS_CardinalityType, FS_EmptySet

LEMMA NothingLeft ==
  ASSUME NEW stories, Graph(stories), NEW done
  PROVE  \A i \in DOMAIN stories :
           Left(stories, stories[i].id, done) = {} => stories[i].deps \subseteq done
<1> SUFFICES ASSUME NEW i \in DOMAIN stories, Left(stories, stories[i].id, done) = {},
                    NEW d \in stories[i].deps
             PROVE  d \in done
  OBVIOUS
<1>1. <<i, d>> \in (DOMAIN stories) \X IdsOf(stories)
  BY DEF Graph
<1>2. d \notin done => <<i, d>> \in Left(stories, stories[i].id, done)
  BY <1>1 DEF Left
<1> QED
  BY <1>2

(* Once a node is done, what waits for it has less left.                   *)
LEMMA LessLeft ==
  ASSUME NEW stories, Graph(stories), NEW id, NEW done, NEW node \in IdsOf(stories),
         Single(stories, node) => node \notin done
  PROVE  /\ Waits(stories, id, node) \in Nat
         /\ Cardinality(Left(stories, id, done)) =
              Cardinality(Left(stories, id, done \cup {node})) + Waits(stories, id, node)
<1> DEFINE W == {i \in DOMAIN stories : stories[i].id = id /\ node \in stories[i].deps}
           A == Left(stories, id, done \cup {node})
           B == W \X {node}
<1>1. IsFiniteSet(W) /\ Cardinality(W) \in Nat /\ Waits(stories, id, node) = Cardinality(W)
  <2>1. W \subseteq DOMAIN stories
    OBVIOUS
  <2>2. Waits(stories, id, node) = Cardinality(W)
    BY DEF Waits
  <2> HIDE DEF W
  <2> QED
    BY <2>1, <2>2, GraphFinite, FS_Subset, FS_CardinalityType
<1>2. IsFiniteSet(B) /\ Cardinality(B) = Cardinality(W)
  <2> DEFINE f == [i \in W |-> <<i, node>>]
  <2>1. f \in [W -> B] /\ \A b \in B : \E i \in W : f[i] = b
    OBVIOUS
  <2>2. \A i, j \in W : f[i] = f[j] => i = j
    OBVIOUS
  <2> HIDE DEF W, B, f
  <2> QED
    BY <1>1, <2>1, <2>2, SameSize
<1>3. IsFiniteSet(A)
  BY LeftFinite
<1>4. A \cap B = {}
  BY DEF Left
<1>5. Left(stories, id, done) = A \cup B
  <2>1. W # {} => node \notin done
    BY DEF Graph
  <2>2. A \cup B \subseteq Left(stories, id, done)
    BY <2>1 DEF Left
  <2>3. Left(stories, id, done) \subseteq A \cup B
    BY DEF Left
  <2> QED
    BY <2>2, <2>3
<1> HIDE DEF A, B, W
<1>6. Cardinality(A \cup B) = Cardinality(A) + Cardinality(B)
  BY <1>2, <1>3, <1>4, DisjointUnion
<1> QED
  BY <1>1, <1>2, <1>5, <1>6 DEF A

(* A finite set of numbers in order: each of them at one place.            *)
LEMMA SortedIs ==
  ASSUME NEW S \in SUBSET Nat, IsFiniteSet(S)
  PROVE  LET N == Cardinality(S) IN
         /\ Sorted(S) \in [1..N -> S] /\ N \in Nat
         /\ \A i, j \in 1..N : Sorted(S)[i] = Sorted(S)[j] => i = j
         /\ \A s \in S : \E i \in 1..N : Sorted(S)[i] = s
<1> DEFINE N == Cardinality(S)
           Rising(q) == \A i, j \in DOMAIN q : i < j => q[i] < q[j]
           before == {p \in S \X S : p[1] < p[2]}
           q == Sorted(S)
<1>1. N \in Nat
  BY FS_CardinalityType
<1>2. \A s, t \in S : <<s, t>> \in before <=> s < t
  OBVIOUS
<1> HIDE DEF before
<1>3. StrictOrder(before, S)
  BY <1>2 DEF StrictOrder
<1>4. \A f \in [1..N -> S] : Ordered(f, before, S) <=> Rising(f)
  BY <1>2 DEF Ordered
<1>5. q \in [1..N -> S] /\ Rising(q)
  <2>1. \E f \in [1..N -> S] : Rising(f)
    BY <1>3, <1>4, Enumeration DEF Ordered
  <2> QED
    BY <2>1 DEF Sorted
<1> HIDE DEF q, Rising
<1>6. Ordered(q, before, S)
  BY <1>4, <1>5
<1>7. /\ \A i, j \in 1..N : i # j => q[i] # q[j]
      /\ \A s \in S : \E i \in 1..N : q[i] = s
  BY <1>3, <1>6, EnumerationOnto
<1> QED
  BY <1>1, <1>5, <1>7 DEF q

(* The roots: an entry for each story that waits for nothing.              *)
LEMMA RootsAre ==
  ASSUME NEW stories, Graph(stories)
  PROVE  LET N == Cardinality(Free(stories)) IN
         \E q \in [1..N -> Free(stories)] :
           /\ Roots(stories) = [n \in 1..N |-> stories[q[n]].id]
           /\ \A i, j \in 1..N : q[i] = q[j] => i = j
           /\ \A s \in Free(stories) : \E i \in 1..N : q[i] = s
<1> DEFINE S == Free(stories)
           N == Cardinality(S)
           Earlier(i, j) == \/ stories[i].id < stories[j].id
                            \/ stories[i].id = stories[j].id /\ i < j
           Rising(q) == \A i, j \in DOMAIN q : i < j => Earlier(q[i], q[j])
           order == CHOOSE q \in [1..N -> S] : Rising(q)
           before == {p \in S \X S : Earlier(p[1], p[2])}
<1>1. S \subseteq DOMAIN stories /\ S \subseteq Nat /\ \A i \in S : stories[i].id \in Nat
  BY DEF Free, Graph
<1>2. IsFiniteSet(S) /\ N \in Nat
  BY <1>1, GraphFinite, FS_Subset, FS_CardinalityType
<1>3. Roots(stories) = [n \in DOMAIN order |-> stories[order[n]].id]
  BY DEF Roots
<1> HIDE DEF S
<1>4. \A i, j \in S : <<i, j>> \in before <=> Earlier(i, j)
  OBVIOUS
<1> HIDE DEF before
<1>5. StrictOrder(before, S)
  BY <1>1, <1>4 DEF StrictOrder
<1>6. PICK x : Ordered(x, before, S)
  BY <1>2, <1>5, Enumeration
<1>7. \A q \in [1..N -> S] : Rising(q) <=> Ordered(q, before, S)
  BY <1>4 DEF Ordered
<1>8. x \in [1..N -> S] /\ Rising(x)
  BY <1>6, <1>7 DEF Ordered
<1>9. order \in [1..N -> S] /\ Rising(order)
  <2> HIDE DEF Rising, N
  <2> QED
    BY <1>8
<1> HIDE DEF order
<1>10. Ordered(order, before, S)
  BY <1>7, <1>9
<1>11. /\ \A i, j \in 1..N : i # j => order[i] # order[j]
       /\ \A s \in S : \E i \in 1..N : order[i] = s
  BY <1>2, <1>5, <1>10, EnumerationOnto
<1> QED
  BY <1>3, <1>9, <1>11 DEF S

(* What holds while the queue is worked off: degrees count what is left,   *)
(* and what has none left was queued, as often as stories have that id.    *)
Settling(stories, state) == {i \in DOMAIN stories : state.degree[stories[i].id] = 0}

Once(stories, s) == \A i, j \in DOMAIN s : s[i] = s[j] /\ Single(stories, s[i]) => i = j

After(stories, order) ==
  \A j \in DOMAIN order, k \in DOMAIN stories :
    stories[k].id = order[j] =>
      \A d \in stories[k].deps : \E i \in 1..(j - 1) : order[i] = d

KahnInv(stories, state) ==
  LET queued == state.order \o state.queue IN
  /\ state \in [queue : Seq(IdsOf(stories)), degree : [IdsOf(stories) -> Nat],
                order : Seq(IdsOf(stories))]
  /\ \A id \in IdsOf(stories) :
       /\ state.degree[id] = Cardinality(Left(stories, id, Range(state.order)))
       /\ state.degree[id] = 0 <=> id \in Range(queued)
  /\ Once(stories, queued)
  /\ Len(queued) = Cardinality(Settling(stories, state))
  /\ After(stories, state.order)

KahnStart(stories) ==
  [queue |-> Roots(stories),
   degree |-> [id \in IdsOf(stories) |-> InDegree(stories, id)],
   order |-> <<>>]

LEMMA KahnStarts == ASSUME NEW stories, Graph(stories) PROVE KahnInv(stories, KahnStart(stories))
<1> DEFINE I == IdsOf(stories)
           S == Free(stories)
           N == Cardinality(S)
           state == KahnStart(stories)
           r == Roots(stories)
<1>1. PICK q \in [1..N -> S] :
         /\ r = [n \in 1..N |-> stories[q[n]].id]
         /\ \A i, j \in 1..N : q[i] = q[j] => i = j
         /\ \A s \in S : \E i \in 1..N : q[i] = s
  BY RootsAre
<1>2. S \subseteq DOMAIN stories /\ IsFiniteSet(S) /\ N \in Nat
  <2>1. S \subseteq DOMAIN stories
    BY DEF Free
  <2> QED
    BY <2>1, GraphFinite, FS_Subset, FS_CardinalityType
<1>3. \A i \in DOMAIN stories : stories[i].id \in I
  BY DEF IdsOf
<1>4. r \in Seq(I) /\ Len(r) = N /\ DOMAIN r = 1..N
  <2> HIDE DEF N, S, r, I
  <2>1. \A n \in 1..N : r[n] \in I
    BY <1>1, <1>2, <1>3
  <2> QED
    BY <1>1, <1>2, <2>1, IsASeq
<1>5. \A id \in I : InDegree(stories, id) = Cardinality(Left(stories, id, {}))
  BY DEF InDegree, Left
<1>6. \A id \in I : InDegree(stories, id) \in Nat
  BY <1>5, LeftFinite
<1>7. state.queue = r /\ state.order = <<>> /\ \A id \in I : state.degree[id] = InDegree(stories, id)
  BY DEF KahnStart
<1>8. state \in [queue : Seq(I), degree : [I -> Nat], order : Seq(I)]
  BY <1>4, <1>6 DEF KahnStart
<1>9. state.order \o state.queue = r /\ Range(state.order) = {}
  BY <1>4, <1>7 DEF Range
<1>10. \A id \in I : id \in Range(r) <=> InDegree(stories, id) = 0
  <2>1. ASSUME NEW id \in I, id \in Range(r) PROVE InDegree(stories, id) = 0
    <3>1. PICK n \in 1..N : r[n] = id
      BY <1>4, <2>1 DEF Range
    <3>2. q[n] \in S /\ stories[q[n]].id = id
      BY <1>1, <3>1
    <3> QED
      BY <3>2 DEF Free
  <2>2. ASSUME NEW id \in I, InDegree(stories, id) = 0 PROVE id \in Range(r)
    <3>1. PICK i \in DOMAIN stories : stories[i].id = id
      BY DEF IdsOf
    <3>2. i \in S
      BY <2>2, <3>1 DEF Free
    <3>3. PICK n \in 1..N : q[n] = i
      BY <1>1, <3>2
    <3>4. r[n] = id
      BY <1>1, <3>1, <3>3
    <3> QED
      BY <1>4, <3>4 DEF Range
  <2> QED
    BY <2>1, <2>2
<1>11. Once(stories, r)
  <2> SUFFICES ASSUME NEW i \in 1..N, NEW j \in 1..N, r[i] = r[j], Single(stories, r[i])
               PROVE  i = j
    BY <1>4 DEF Once
  <2>1. q[i] \in S /\ q[j] \in S /\ stories[q[i]].id = r[i] /\ stories[q[j]].id = r[i]
    BY <1>1
  <2>2. q[i] = q[j]
    BY <1>2, <2>1 DEF Single
  <2> QED
    BY <1>1, <2>2
<1>12. Settling(stories, state) = S
  BY <1>3, <1>7 DEF Settling, Free
<1>13. After(stories, state.order)
  BY <1>7 DEF After
<1> HIDE DEF state, r, S, I
<1> QED
  BY <1>4, <1>5, <1>7, <1>8, <1>9, <1>10, <1>11, <1>12, <1>13 DEF KahnInv, I, state

LEMMA OnceConcat ==
  ASSUME NEW stories, NEW T, NEW s \in Seq(T), NEW t \in Seq(T), Once(stories, s),
         \A i, j \in 1..Len(t) : t[i] = t[j] => i = j, Range(s) \cap Range(t) = {}
  PROVE  Once(stories, s \o t)
<1> DEFINE m == Len(s)
           n == Len(t)
           u == s \o t
<1>1. /\ m \in Nat /\ n \in Nat /\ DOMAIN s = 1..m /\ DOMAIN t = 1..n /\ DOMAIN u = 1..(m + n)
      /\ \A i \in 1..(m + n) : u[i] = IF i <= m THEN s[i] ELSE t[i - m]
  OBVIOUS
<1> HIDE DEF m, n, u
<1> SUFFICES ASSUME NEW i \in 1..(m + n), NEW j \in 1..(m + n), u[i] = u[j], Single(stories, u[i])
             PROVE  i = j
  BY <1>1 DEF Once, u
<1>2. CASE i <= m /\ j <= m
  <2>1. i \in 1..m /\ j \in 1..m /\ s[i] = u[i] /\ s[j] = u[j]
    BY <1>1, <1>2
  <2> QED
    BY <1>1, <2>1 DEF Once
<1>3. CASE i > m /\ j > m
  <2>1. i - m \in 1..n /\ j - m \in 1..n /\ t[i - m] = t[j - m]
    BY <1>1, <1>3
  <2>2. i - m = j - m
    BY <2>1 DEF n
  <2> QED
    BY <1>1, <2>2
<1>4. CASE i <= m /\ j > m
  <2>1. i \in 1..m /\ j - m \in 1..n /\ u[i] = s[i] /\ u[j] = t[j - m]
    BY <1>1, <1>4
  <2>2. s[i] \in Range(s) /\ t[j - m] \in Range(t)
    BY <1>1, <2>1 DEF Range
  <2> QED
    BY <2>1, <2>2
<1>5. CASE i > m /\ j <= m
  <2>1. j \in 1..m /\ i - m \in 1..n /\ u[j] = s[j] /\ u[i] = t[i - m]
    BY <1>1, <1>5
  <2>2. s[j] \in Range(s) /\ t[i - m] \in Range(t)
    BY <1>1, <2>1 DEF Range
  <2> QED
    BY <2>1, <2>2
<1> QED
  BY <1>1, <1>2, <1>3, <1>4, <1>5

LEMMA KahnStep ==
  ASSUME NEW stories, Graph(stories), NEW state, KahnInv(stories, state), state.queue # <<>>
  PROVE  /\ KahnInv(stories, Kahn(stories, state))
         /\ Len(Kahn(stories, state).order) = Len(state.order) + 1
<1> DEFINE I == IdsOf(stories)
           q == state.queue
           o == state.order
           deg == state.degree
           queued == o \o q
           node == Head(q)
           o2 == Append(o, node)
           ready == {id \in DOMAIN deg : deg[id] \in 1..Waits(stories, id, node)}
           N == Cardinality(ready)
           r == Sorted(ready)
           next == Kahn(stories, state)
           L(id) == Cardinality(Left(stories, id, Range(o2)))
<1>1. /\ q \in Seq(I) /\ o \in Seq(I) /\ deg \in [I -> Nat] /\ DOMAIN deg = I
      /\ \A id \in I : /\ deg[id] = Cardinality(Left(stories, id, Range(o)))
                       /\ deg[id] = 0 <=> id \in Range(queued)
      /\ Once(stories, queued) /\ Len(queued) = Cardinality(Settling(stories, state))
      /\ After(stories, o)
  BY DEF KahnInv
<1>2. /\ next.queue = Tail(q) \o r /\ next.order = o2
      /\ next.degree = [id \in DOMAIN deg |-> IF id \in ready THEN 0
                                              ELSE deg[id] - Waits(stories, id, node)]
      /\ next = [queue |-> next.queue, degree |-> next.degree, order |-> next.order]
  BY DEF Kahn
<1>3. node \in I /\ Tail(q) \in Seq(I) /\ o2 \in Seq(I) /\ o2 \o Tail(q) = queued
  BY <1>1, Requeue
<1>4. /\ Range(o2) = Range(o) \cup {node} /\ Len(o2) = Len(o) + 1 /\ Len(o) \in Nat
      /\ \A i \in 1..Len(o) : o2[i] = o[i]
      /\ o2[Len(o) + 1] = node /\ DOMAIN o2 = 1..(Len(o) + 1) /\ DOMAIN o = 1..Len(o)
  <2> HIDE DEF I, o, node
  <2>1. Len(o2) = Len(o) + 1 /\ DOMAIN o2 = 1..(Len(o) + 1) /\ Len(o) \in Nat /\ DOMAIN o = 1..Len(o)
    BY <1>1, <1>3
  <2> QED
    BY <1>1, <1>3, <2>1, AppendedIs
<1>5. /\ queued[Len(o) + 1] = node /\ \A i \in 1..Len(o) : queued[i] = o[i]
      /\ Len(o) + 1 \in DOMAIN queued /\ 1..Len(o) \subseteq DOMAIN queued
      /\ queued \in Seq(I)
  <2> HIDE DEF I, o
  <2> QED
    BY <1>1
<1> HIDE DEF o2, r, next, queued, node, q, o, deg
<1>6. Single(stories, node) => node \notin Range(o)
  <2> SUFFICES ASSUME Single(stories, node), NEW i \in 1..Len(o), o[i] = node PROVE FALSE
    BY <1>4 DEF Range
  <2>1. queued[i] = node /\ i \in DOMAIN queued /\ i # Len(o) + 1
    BY <1>4, <1>5
  <2> QED
    BY <1>1, <1>5, <2>1 DEF Once
<1>7. ASSUME NEW id \in I
      PROVE  /\ Waits(stories, id, node) \in Nat /\ L(id) \in Nat /\ deg[id] \in Nat
             /\ deg[id] = L(id) + Waits(stories, id, node)
  <2>1. /\ Waits(stories, id, node) \in Nat
        /\ Cardinality(Left(stories, id, Range(o))) =
             Cardinality(Left(stories, id, Range(o) \cup {node})) + Waits(stories, id, node)
    BY <1>3, <1>6, LessLeft
  <2>2. L(id) = Cardinality(Left(stories, id, Range(o) \cup {node})) /\ L(id) \in Nat
    BY <1>4, LeftFinite
  <2>3. deg[id] \in Nat /\ deg[id] = Cardinality(Left(stories, id, Range(o)))
    BY <1>1
  <2> QED
    BY <2>1, <2>2, <2>3
<1>8. /\ r \in [1..N -> ready] /\ N \in Nat /\ r \in Seq(I) /\ Len(r) = N /\ ready \subseteq I
      /\ \A i, j \in 1..N : r[i] = r[j] => i = j
      /\ Range(r) = ready
  <2>1. ready \subseteq I
    BY <1>1
  <2>2. ready \in SUBSET Nat /\ IsFiniteSet(ready)
    <3> HIDE DEF ready
    <3> QED
      BY <2>1, GraphFinite, FS_Subset
  <2> HIDE DEF ready
  <2>3. /\ r \in [1..N -> ready] /\ N \in Nat
        /\ \A i, j \in 1..N : r[i] = r[j] => i = j
        /\ \A s \in ready : \E i \in 1..N : r[i] = s
    BY <2>2, SortedIs DEF r
  <2> HIDE DEF N
  <2>4. r \in Seq(ready) /\ Len(r) = N
    BY <2>3, IsASeq
  <2>5. r \in Seq(I)
    BY <2>1, <2>4, SeqMonotonic
  <2> QED
    BY <2>1, <2>3, <2>4, <2>5 DEF Range
<1>9. \A id \in I : /\ next.degree[id] = L(id)
                    /\ next.degree[id] = 0 <=> deg[id] = 0 \/ id \in ready
                    /\ id \in ready => deg[id] # 0
  <2> SUFFICES ASSUME NEW id \in I
               PROVE  /\ next.degree[id] = L(id)
                      /\ next.degree[id] = 0 <=> deg[id] = 0 \/ id \in ready
                      /\ id \in ready => deg[id] # 0
    OBVIOUS
  <2>1. id \in ready <=> deg[id] \in 1..Waits(stories, id, node)
    BY <1>1
  <2>2. next.degree[id] = IF id \in ready THEN 0 ELSE deg[id] - Waits(stories, id, node)
    BY <1>1, <1>2
  <2>3. /\ Waits(stories, id, node) \in Nat /\ L(id) \in Nat /\ deg[id] \in Nat
        /\ deg[id] = L(id) + Waits(stories, id, node)
    BY <1>7
  <2> DEFINE d == deg[id]
             w == Waits(stories, id, node)
             l == L(id)
  <2>4. /\ d \in Nat /\ w \in Nat /\ l \in Nat /\ d = l + w
        /\ id \in ready <=> d \in 1..w
        /\ next.degree[id] = IF id \in ready THEN 0 ELSE d - w
    BY <2>1, <2>2, <2>3
  <2> HIDE DEF ready, d, w, l
  <2>5. next.degree[id] = l /\ (next.degree[id] = 0 <=> d = 0 \/ id \in ready) /\ (id \in ready => d # 0)
    <3>1. CASE id \in ready
      BY <2>4, <3>1
    <3>2. CASE id \notin ready
      BY <2>4, <3>2
    <3> QED
      BY <3>1, <3>2
  <2> QED
    BY <2>5 DEF d, l
<1>10. next.degree \in [I -> Nat]
  <2>1. DOMAIN next.degree = I /\ next.degree = [id \in I |-> next.degree[id]]
    BY <1>1, <1>2
  <2> HIDE DEF L
  <2> QED
    BY <1>7, <1>9, <2>1
<1>11. next.order \o next.queue = queued \o r
  <2> HIDE DEF I, ready, N
  <2>1. (o2 \o Tail(q)) \o r = o2 \o (Tail(q) \o r)
    <3>1. o2 \in Seq(I) /\ Tail(q) \in Seq(I) /\ r \in Seq(I)
      BY <1>3, <1>8
    <3> QED
      BY <3>1, ConcatAssociative
  <2> QED
    BY <1>2, <1>3, <2>1
<1>12. /\ Range(queued \o r) = Range(queued) \cup ready
       /\ Len(queued \o r) = Len(queued) + N /\ Len(queued) \in Nat
  <2> HIDE DEF I, N, ready
  <2>1. Range(queued \o r) = Range(queued) \cup Range(r)
    BY <1>5, <1>8, RangeConcatenation
  <2>2. Len(queued \o r) = Len(queued) + Len(r) /\ Len(queued) \in Nat
    <3>1. queued \in Seq(I) /\ r \in Seq(I)
      BY <1>5, <1>8
    <3> QED
      BY <3>1, ConcatProperties
  <2> QED
    BY <1>8, <2>1, <2>2
<1>13. Range(queued) \cap ready = {}
  BY <1>1, <1>8, <1>9
<1>14. Once(stories, queued \o r)
  <2> HIDE DEF ready, N, I
  <2> QED
    BY <1>1, <1>5, <1>8, <1>13, OnceConcat
<1>15. \A id \in I : next.degree[id] = 0 <=> id \in Range(queued \o r)
  <2> HIDE DEF ready
  <2> QED
    BY <1>1, <1>9, <1>12
<1>16. Cardinality(Settling(stories, next)) = Len(queued) + N
  <2> DEFINE A == Settling(stories, state)
             B == {i \in DOMAIN stories : stories[i].id \in ready}
             h == [i \in B |-> stories[i].id]
  <2>1. \A i \in DOMAIN stories : stories[i].id \in I
    BY DEF IdsOf
  <2>2. Settling(stories, next) = A \cup B
    BY <1>9, <2>1 DEF Settling, deg
  <2>3. A \cap B = {}
    BY <1>9, <2>1 DEF Settling, deg
  <2>4. A \subseteq DOMAIN stories /\ B \subseteq DOMAIN stories
    BY DEF Settling
  <2>5. IsFiniteSet(A) /\ IsFiniteSet(B)
    <3> HIDE DEF A, B
    <3> QED
      BY <2>4, GraphFinite, FS_Subset
  <2>6. \A id \in ready : Single(stories, id) /\ \E i \in B : stories[i].id = id
    <3> SUFFICES ASSUME NEW id \in ready
                 PROVE  Single(stories, id) /\ \E i \in B : stories[i].id = id
      OBVIOUS
    <3>1. Waits(stories, id, node) # 0
      BY <1>1
    <3> DEFINE W == {i \in DOMAIN stories : stories[i].id = id /\ node \in stories[i].deps}
    <3>2. W # {}
      BY <3>1, FS_EmptySet DEF Waits
    <3>3. PICK i \in DOMAIN stories : stories[i].id = id /\ node \in stories[i].deps
      BY <3>2
    <3> HIDE DEF ready
    <3> QED
      BY <3>3 DEF Graph
  <2>7. h \in [B -> ready] /\ \A id \in ready : \E i \in B : h[i] = id
    <3> HIDE DEF ready
    <3> QED
      BY <2>6
  <2>8. \A i, j \in B : h[i] = h[j] => i = j
    <3> HIDE DEF ready
    <3> QED
      BY <2>6 DEF Single
  <2>9. Cardinality(B) = N
    <3> HIDE DEF B, h, ready
    <3> QED
      BY <2>5, <2>7, <2>8, SameSize
  <2> HIDE DEF A, B
  <2>10. Cardinality(A \cup B) = Cardinality(A) + Cardinality(B)
    BY <2>3, <2>5, DisjointUnion
  <2> QED
    BY <1>1, <2>2, <2>9, <2>10 DEF A
<1>17. After(stories, o2)
  <2> SUFFICES ASSUME NEW j \in 1..(Len(o) + 1), NEW k \in DOMAIN stories, stories[k].id = o2[j],
                      NEW d \in stories[k].deps
               PROVE  \E i \in 1..(j - 1) : o2[i] = d
    BY <1>4 DEF After
  <2>1. CASE j \in 1..Len(o)
    <3>1. stories[k].id = o[j] /\ j \in DOMAIN o
      BY <1>4, <2>1
    <3>2. PICK i \in 1..(j - 1) : o[i] = d
      BY <1>1, <3>1 DEF After
    <3>3. i \in 1..Len(o)
      BY <1>4, <2>1
    <3> QED
      BY <1>4, <3>2, <3>3
  <2>2. CASE j = Len(o) + 1
    <3>1. stories[k].id = node
      BY <1>4, <2>2
    <3>2. node \in Range(queued)
      BY <1>5 DEF Range
    <3>3. Cardinality(Left(stories, node, Range(o))) = 0
      BY <1>1, <1>3, <3>2
    <3>4. d \in Range(o)
      BY <3>1, <3>3, NothingLeft, LeftFinite
    <3>5. PICK i \in 1..Len(o) : o[i] = d
      BY <1>4, <3>4 DEF Range
    <3> QED
      BY <1>4, <2>2, <3>5
  <2> QED
    BY <1>4, <2>1, <2>2
<1>18. /\ next.queue \in Seq(I) /\ next.order \in Seq(I)
       /\ next \in [queue : Seq(I), degree : [I -> Nat], order : Seq(I)]
  <2> HIDE DEF I
  <2>1. next.queue \in Seq(I) /\ next.order \in Seq(I)
    BY <1>2, <1>3, <1>8, ConcatProperties
  <2> QED
    BY <1>2, <1>10, <2>1
<1>19. KahnInv(stories, next)
  <2>1. \A id \in I : next.degree[id] = Cardinality(Left(stories, id, Range(next.order)))
    BY <1>2, <1>9
  <2> HIDE DEF N, ready
  <2> QED
    BY <1>2, <1>11, <1>12, <1>14, <1>15, <1>16, <1>17, <1>18, <2>1 DEF KahnInv
<1> QED
  BY <1>2, <1>4, <1>19 DEF next, o

LEMMA NoRoom == ASSUME NEW a \in Nat, NEW b \in Nat, NEW c \in Nat, a + b <= c, a = 2 * c PROVE b = 0
OBVIOUS

(* Enough steps are made for the queue to run empty.                       *)
Kahns(stories, f) ==
  /\ f[0] = KahnStart(stories)
  /\ \A n \in 1..(2 * Len(stories)) : f[n] = Kahn(stories, f[n - 1])

LEMMA KahnKept ==
  ASSUME NEW stories, Graph(stories), NEW state, KahnInv(stories, state)
  PROVE  KahnInv(stories, Kahn(stories, state))
<1>1. CASE state.queue = <<>>
  BY <1>1 DEF Kahn
<1>2. CASE state.queue # <<>>
  BY <1>2, KahnStep
<1> QED
  BY <1>1, <1>2

LEMMA Sorting ==
  ASSUME NEW stories, Graph(stories)
  PROVE  \E f : TopologicalSort(stories) = f[2 * Len(stories)].order /\ Kahns(stories, f)
<1> DEFINE N == 2 * Len(stories)
           start == KahnStart(stories)
           Follows(f) == f = [n \in 0..N |-> IF n = 0
                                          THEN [queue |-> Roots(stories),
                                                degree |-> [id \in IdsOf(stories) |-> InDegree(stories, id)],
                                                order |-> <<>>]
                                          ELSE Kahn(stories, f[n - 1])]
           sorting == CHOOSE f : Follows(f)
           I == IdsOf(stories)
           R == {s \in [queue : Seq(I), degree : [I -> Nat], order : Seq(I)] : KahnInv(stories, s)}
           step == [p \in (1..N) \X R |-> Kahn(stories, p[2])]
<1>1. N \in Nat
  BY DEF Graph
<1>2. TopologicalSort(stories) = sorting[N].order
  BY DEF TopologicalSort
<1>3. start \in R
  BY KahnStarts DEF KahnInv
<1>4. ASSUME NEW s \in R PROVE Kahn(stories, s) \in R
  <2>1. KahnInv(stories, Kahn(stories, s))
    BY KahnKept
  <2> QED
    BY <2>1 DEF KahnInv
<1>5. step \in [(1..N) \X R -> R] /\ \A n \in 1..N, s \in R : step[<<n, s>>] = Kahn(stories, s)
  BY <1>4
<1> HIDE DEF N, R, step
<1>6. \E f : Follows(f)
  <2>1. Recursive(R, start, N, step)
    BY <1>1, <1>3, <1>5, Recursion
  <2>2. PICK f \in [0..N -> R] : f[0] = start /\ \A n \in 1..N : f[n] = step[<<n, f[n - 1]>>]
    BY <2>1 DEF Recursive
  <2> HIDE DEF start
  <2>3. ASSUME NEW n \in 0..N PROVE f[n] = IF n = 0 THEN start ELSE Kahn(stories, f[n - 1])
    <3>1. CASE n = 0
      BY <2>2, <3>1
    <3>2. CASE n # 0
      <4>1. n \in 1..N /\ n - 1 \in 0..N
        BY <1>1, <3>2
      <4> QED
        BY <1>5, <2>2, <3>2, <4>1
    <3> QED
      BY <3>1, <3>2
  <2>4. f = [n \in 0..N |-> IF n = 0 THEN start ELSE Kahn(stories, f[n - 1])]
    BY <2>2, <2>3
  <2>5. Follows(f)
    BY <2>4 DEF start, KahnStart
  <2> QED
    BY <2>5
<1> HIDE DEF Follows
<1>7. Follows(sorting)
  BY <1>6
<1> HIDE DEF sorting
<1>8. Kahns(stories, sorting)
  <2>1. sorting = [n \in 0..N |-> IF n = 0 THEN start ELSE Kahn(stories, sorting[n - 1])]
    BY <1>7 DEF Follows, KahnStart
  <2> HIDE DEF start
  <2>2. sorting[0] = start
    BY <1>1, <2>1
  <2>3. \A n \in 1..N : n \in 0..N /\ n # 0
    BY <1>1
  <2>4. \A n \in 1..N : sorting[n] = Kahn(stories, sorting[n - 1])
    BY <2>1, <2>3
  <2> QED
    BY <2>2, <2>4 DEF Kahns, start, N
<1> QED
  BY <1>2, <1>8 DEF N

(* An empty queue leaves no story waiting: one that waits longest down the *)
(* ids would wait for a story that waits for nothing.                      *)
LEMMA NoneWaits ==
  ASSUME NEW stories, Graph(stories), NEW state, KahnInv(stories, state), state.queue = <<>>
  PROVE  Len(state.order) = Len(stories)
<1> DEFINE I == IdsOf(stories)
           deg == state.degree
           o == state.order
           W == {id \in I : deg[id] # 0}
<1>1. /\ o \in Seq(I) /\ o \o state.queue = o
      /\ \A id \in I : /\ deg[id] = Cardinality(Left(stories, id, Range(o)))
                       /\ deg[id] = 0 <=> id \in Range(o)
      /\ Len(o) = Cardinality(Settling(stories, state))
  <2>1. o \in Seq(I) /\ o \o state.queue = o
    BY DEF KahnInv
  <2> QED
    BY <2>1 DEF KahnInv
<1>2. W = {}
  <2> SUFFICES ASSUME W # {} PROVE FALSE
    OBVIOUS
  <2>1. W \in SUBSET Nat
    BY GraphFinite
  <2>2. PICK m \in W : \A n \in W : m <= n
    <3> HIDE DEF W
    <3> QED
      BY <2>1, LeastNumber
  <2>3. Left(stories, m, Range(o)) # {}
    BY <1>1, <2>2, LeftFinite
  <2>4. PICK i \in DOMAIN stories, d \in I :
          stories[i].id = m /\ d \in stories[i].deps /\ d \notin Range(o)
    BY <2>3 DEF Left
  <2>5. d < m /\ d \in Nat /\ m \in Nat
    BY <2>4, GraphFinite DEF Graph
  <2>6. d \in W
    BY <1>1, <2>4
  <2> QED
    BY <2>2, <2>5, <2>6
<1>3. \A i \in DOMAIN stories : deg[stories[i].id] = 0
  BY <1>2 DEF IdsOf
<1>4. Settling(stories, state) = DOMAIN stories
  BY <1>3 DEF Settling
<1> QED
  BY <1>1, <1>4, GraphFinite

(* The order has as many entries as there are stories, and what a story    *)
(* waits for comes before it.                                              *)
LEMMA KahnSorts ==
  ASSUME NEW stories, Graph(stories)
  PROVE  LET order == TopologicalSort(stories) IN
         /\ Len(order) = Len(stories) /\ DOMAIN order = 1..Len(stories)
         /\ \A i, j \in DOMAIN order :
              (\E s \in DOMAIN stories : stories[s].id = order[j] /\ order[i] \in stories[s].deps)
                => i < j
<1> DEFINE N == 2 * Len(stories)
           I == IdsOf(stories)
<1>1. N \in Nat /\ Len(stories) \in Nat
  BY DEF Graph
<1>2. PICK f : TopologicalSort(stories) = f[N].order /\ Kahns(stories, f)
  BY Sorting
<1>3. f[0] = KahnStart(stories) /\ \A n \in 1..N : f[n] = Kahn(stories, f[n - 1])
  BY <1>2 DEF Kahns
<1> HIDE DEF N
<1> DEFINE P == {n \in Nat : n <= N => /\ KahnInv(stories, f[n])
                                       /\ Len(f[n].order) = n \/ f[n].queue = <<>>}
<1>4. 0 \in P
  BY <1>3, KahnStarts DEF KahnStart
<1>5. ASSUME NEW n \in Nat, n \in P PROVE n + 1 \in P
  <2> SUFFICES ASSUME n + 1 <= N
               PROVE  /\ KahnInv(stories, f[n + 1])
                      /\ Len(f[n + 1].order) = n + 1 \/ f[n + 1].queue = <<>>
    OBVIOUS
  <2>1. n + 1 \in 1..N /\ (n + 1) - 1 = n /\ n <= N
    BY <1>1
  <2>2. /\ KahnInv(stories, f[n]) /\ f[n + 1] = Kahn(stories, f[n])
        /\ Len(f[n].order) = n \/ f[n].queue = <<>>
    BY <1>3, <1>5, <2>1
  <2>3. CASE f[n].queue = <<>>
    BY <2>2, <2>3 DEF Kahn
  <2>4. CASE f[n].queue # <<>>
    BY <2>2, <2>4, KahnStep
  <2> QED
    BY <2>3, <2>4
<1> HIDE DEF P
<1>6. N \in P
  BY <1>1, <1>4, <1>5, SetInduction
<1> DEFINE state == f[N]
           o == state.order
<1>7. KahnInv(stories, state) /\ (Len(o) = N \/ state.queue = <<>>)
  BY <1>1, <1>6 DEF P
<1> HIDE DEF state
<1>8. state.queue = <<>>
  <2>1. o \in Seq(I) /\ state.queue \in Seq(I)
    BY <1>7 DEF KahnInv
  <2>2. Len(o \o state.queue) = Len(o) + Len(state.queue) /\ Len(o) \in Nat /\ Len(state.queue) \in Nat
    <3> HIDE DEF o, I
    <3> QED
      BY <2>1, ConcatProperties
  <2>3. Len(o \o state.queue) = Cardinality(Settling(stories, state))
    BY <1>7 DEF KahnInv
  <2>4. Cardinality(Settling(stories, state)) <= Len(stories)
    <3>1. Settling(stories, state) \subseteq DOMAIN stories
      BY DEF Settling
    <3>2. IsFiniteSet(DOMAIN stories) /\ Cardinality(DOMAIN stories) = Len(stories)
      BY GraphFinite
    <3>3. Cardinality(Settling(stories, state)) <= Cardinality(DOMAIN stories)
      BY <3>1, <3>2, FS_Subset
    <3> QED
      BY <3>2, <3>3
  <2>5. Len(o) + Len(state.queue) <= Len(stories)
    BY <2>2, <2>3, <2>4
  <2>6. Len(o) = N => Len(state.queue) = 0
    BY <1>1, <2>2, <2>5, NoRoom DEF N
  <2> QED
    BY <1>7, <2>1, <2>6
<1>9. o \in Seq(I) /\ Once(stories, o) /\ After(stories, o) /\ Len(o) = Len(stories)
  <2>1. o \in Seq(I) /\ o \o state.queue = o
    BY <1>7, <1>8 DEF KahnInv
  <2> QED
    BY <1>7, <1>8, <2>1, NoneWaits DEF KahnInv
<1>10. DOMAIN o = 1..Len(stories)
  <2> HIDE DEF o, I
  <2> QED
    BY <1>9
<1>11. ASSUME NEW i \in DOMAIN o, NEW j \in DOMAIN o, NEW s \in DOMAIN stories,
              stories[s].id = o[j], o[i] \in stories[s].deps
       PROVE  i < j
  <2>1. PICK k \in 1..(j - 1) : o[k] = o[i]
    BY <1>9, <1>11 DEF After
  <2>2. Single(stories, o[i])
    BY <1>11 DEF Graph
  <2>3. k \in DOMAIN o /\ k < j
    BY <1>1, <1>10
  <2>4. k = i
    BY <1>9, <2>1, <2>2, <2>3 DEF Once
  <2> QED
    BY <2>3, <2>4
<1>12. TopologicalSort(stories) = o
  BY <1>2 DEF state
<1> HIDE DEF o
<1> QED
  BY <1>9, <1>10, <1>11, <1>12

-----------------------------------------------------------------------------
(* What is added.                                                          *)

LEMMA StoryIsFresh ==
  ASSUME NEW id \in Nat, NEW epic \in Nat, NEW deps \in SUBSET Nat, \A d \in deps : Planned(d),
         NEW area \in SUBSET Place, NEW class \in Classes, NEW inWave \in BOOLEAN
  PROVE  <<Story(id, epic, deps, area, class, inWave)>> \in Fresh
<1> DEFINE s == Story(id, epic, deps, area, class, inWave)
<1>1. s \in StoryRecord
  BY DEF Story, StoryRecord
<1>2. s.status = "todo" /\ s.deps = deps
  BY DEF Story
<1> HIDE DEF s
<1>3. <<s>> \in Seq(StoryRecord) /\ DOMAIN <<s>> = {1} /\ <<s>>[1] = s
  BY <1>1
<1> QED
  BY <1>2, <1>3 DEF Fresh, s

LEMMA Concat ==
  ASSUME NEW stories \in Fresh, NEW more \in Fresh
  PROVE  stories \o more \in Fresh
<1>1. stories \in Seq(StoryRecord) /\ more \in Seq(StoryRecord)
  BY DEF Fresh
<1>2. \A i \in DOMAIN (stories \o more) :
        (stories \o more)[i] = IF i <= Len(stories) THEN stories[i] ELSE more[i - Len(stories)]
  BY <1>1
<1>3. \A i \in DOMAIN (stories \o more) :
        \/ i \in DOMAIN stories
        \/ ~(i <= Len(stories)) /\ i - Len(stories) \in DOMAIN more
  BY <1>1
<1>4. ASSUME NEW i \in DOMAIN (stories \o more)
      PROVE  /\ (stories \o more)[i].status = "todo"
             /\ \A d \in (stories \o more)[i].deps : Planned(d)
  <2>1. CASE i <= Len(stories)
    BY <1>2, <1>3, <2>1 DEF Fresh
  <2>2. CASE ~(i <= Len(stories))
    <3>1. i - Len(stories) \in DOMAIN more /\ (stories \o more)[i] = more[i - Len(stories)]
      BY <1>1, <1>2, <2>2
    <3> QED
      BY <3>1 DEF Fresh
  <2> QED
    BY <2>1, <2>2
<1>5. stories \o more \in Seq(StoryRecord)
  BY <1>1
<1> QED
  BY <1>4, <1>5 DEF Fresh

(* The id of the k-th story generated for n components.                    *)
GeneratedId(n, k) ==
  IF k = 1 THEN 411
  ELSE IF k = 2 * n + 2 THEN 411 + 10 * (n + 1)
  ELSE IF k % 2 = 0 THEN 411 + 10 * (k \div 2) ELSE 412 + 10 * ((k - 1) \div 2)

(* What it may wait for.                                                   *)
GeneratedDep(n, k, d) ==
  IF k = 1 THEN FALSE
  ELSE IF k = 2 * n + 2 THEN \E j \in 1..n : d = 412 + 10 * j
  ELSE IF k % 2 = 0 THEN d = 411 ELSE d = 411 + 10 * ((k - 1) \div 2)

(* The two stories of the k-th component.                                  *)
ForComponent(k) ==
  /\ Implement(k) \in StoryRecord /\ Implement(k).status = "todo"
  /\ Implement(k).id = 411 + 10 * k /\ \A d \in Implement(k).deps : d = 411
  /\ Test(k) \in StoryRecord /\ Test(k).status = "todo"
  /\ Test(k).id = 412 + 10 * k /\ \A d \in Test(k).deps : d = 411 + 10 * k

LEMMA ComponentStories == ASSUME NEW k \in Nat PROVE ForComponent(k)
<1>1. Part(k) \subseteq Place
  BY DEF Place
<1>2. /\ PlannedId(k + 1, 1) = 411 + 10 * k /\ PlannedId(k + 1, 2) = 412 + 10 * k
      /\ PlannedId(1, 1) = 411
  BY DEF PlannedId
<1> QED
  BY <1>1, <1>2 DEF ForComponent, Implement, Test, Story, StoryRecord, Classes

LEMMA GeneratedIds ==
  ASSUME NEW n \in Nat
  PROVE  /\ Generated(n) \in Fresh /\ Len(Generated(n)) = 2 * n + 2
         /\ \A k \in 1..(2 * n + 2) : /\ Generated(n)[k].id = GeneratedId(n, k)
                                       /\ \A d \in Generated(n)[k].deps : GeneratedDep(n, k, d)
<1> DEFINE M == [i \in 1..(2 * n) |-> IF i % 2 = 1 THEN Implement((i + 1) \div 2) ELSE Test(i \div 2)]
<1>1. /\ <<Foundation(n)>> \in Fresh /\ <<Integration(n)>> \in Fresh
  <2>1. Project(n) \subseteq Place
    BY DEF Project, Place
  <2>2. PlannedId(1, 1) \in Nat /\ PlannedId(n + 2, 1) \in Nat
    BY DEF PlannedId
  <2>3. \A d \in {PlannedId(k + 1, 2) : k \in 1..n} : d \in Nat /\ Planned(d)
    BY DEF PlannedId, Planned
  <2> QED
    <3>1. Story(PlannedId(1, 1), 1, {}, Project(n), "sequential", FALSE) = Foundation(n)
      BY DEF Foundation
    <3>2. Story(PlannedId(n + 2, 1), n + 2, {PlannedId(k + 1, 2) : k \in 1..n}, Project(n),
                "sequential", FALSE) = Integration(n)
      BY DEF Integration
    <3>3. "sequential" \in Classes /\ n + 2 \in Nat /\ 1 \in Nat
      BY DEF Classes
    <3>4. <<Foundation(n)>> \in Fresh
      BY <2>1, <2>2, <3>1, <3>3, StoryIsFresh
    <3>5. <<Integration(n)>> \in Fresh
      BY <2>1, <2>2, <2>3, <3>2, <3>3, StoryIsFresh
    <3> QED
      BY <3>4, <3>5
<1>3. \A i \in 1..(2 * n) : (i + 1) \div 2 \in Nat /\ i \div 2 \in Nat
  OBVIOUS
<1>4. M \in Fresh /\ Len(M) = 2 * n
  <2>1. ASSUME NEW k \in Nat
        PROVE  \A d \in Implement(k).deps \cup Test(k).deps : Planned(d)
    <3>1. ForComponent(k)
      BY ComponentStories
    <3> QED
      BY <3>1 DEF ForComponent, Planned
  <2>2. \A i \in 1..(2 * n) : \E k \in Nat : M[i] = Implement(k) \/ M[i] = Test(k)
    BY <1>3
  <2>3. ASSUME NEW i \in 1..(2 * n)
        PROVE  M[i] \in StoryRecord /\ M[i].status = "todo" /\ \A d \in M[i].deps : Planned(d)
    <3>1. PICK k \in Nat : M[i] = Implement(k) \/ M[i] = Test(k)
      BY <2>2
    <3>2. ForComponent(k) /\ \A d \in Implement(k).deps \cup Test(k).deps : Planned(d)
      BY <2>1, ComponentStories
    <3> HIDE DEF M
    <3> QED
      BY <3>1, <3>2 DEF ForComponent
  <2>4. M \in Seq(StoryRecord) /\ Len(M) = 2 * n /\ DOMAIN M = 1..(2 * n)
    BY <2>3 DEF M
  <2> QED
    BY <2>3, <2>4 DEF Fresh
<1>5. ASSUME NEW i \in 1..(2 * n)
      PROVE  M[i].id = GeneratedId(n, i + 1) /\ \A d \in M[i].deps : GeneratedDep(n, i + 1, d)
  <2>1. CASE i % 2 = 1
    <3>1. PICK m \in Nat : m = (i + 1) \div 2
      BY <1>3
    <3>2. (i + 1) % 2 = 0 /\ i + 1 # 1 /\ i + 1 # 2 * n + 2
      BY <2>1
    <3>3. GeneratedId(n, i + 1) = 411 + 10 * m /\ \A d : d = 411 => GeneratedDep(n, i + 1, d)
      BY <3>1, <3>2 DEF GeneratedId, GeneratedDep
    <3>4. M[i] = Implement(m)
      BY <2>1, <3>1
    <3> HIDE DEF M
    <3>5. ForComponent(m)
      BY ComponentStories
    <3> QED
      BY <3>3, <3>4, <3>5 DEF ForComponent
  <2>2. CASE i % 2 # 1
    <3>1. PICK m \in Nat : m = i \div 2
      BY <1>3
    <3>2. (i + 1) % 2 # 0 /\ i + 1 # 1 /\ i + 1 # 2 * n + 2 /\ (i + 1) - 1 = i
      BY <2>2
    <3>3. /\ GeneratedId(n, i + 1) = 412 + 10 * m
          /\ \A d : d = 411 + 10 * m => GeneratedDep(n, i + 1, d)
      BY <3>1, <3>2 DEF GeneratedId, GeneratedDep
    <3>4. M[i] = Test(m)
      BY <2>2, <3>1
    <3> HIDE DEF M
    <3>5. ForComponent(m)
      BY ComponentStories
    <3> QED
      BY <3>3, <3>4, <3>5 DEF ForComponent
  <2> QED
    BY <2>1, <2>2
<1>6. /\ Foundation(n).id = 411 /\ Integration(n).id = 411 + 10 * (n + 1)
      /\ Foundation(n).deps = {} /\ \A d \in Integration(n).deps : \E j \in 1..n : d = 412 + 10 * j
  <2>1. \A j \in 1..n : PlannedId(j + 1, 2) = 412 + 10 * j
    BY DEF PlannedId
  <2> QED
    BY <2>1 DEF Foundation, Integration, Story, PlannedId
<1>7. Generated(n) = <<Foundation(n)>> \o M \o <<Integration(n)>>
  BY DEF Generated
<1> HIDE DEF M
<1>8. Generated(n) \in Fresh
  BY <1>1, <1>4, <1>7, Concat
<1>9. /\ Len(Generated(n)) = 2 * n + 2
      /\ Generated(n)[1] = Foundation(n)
      /\ \A k \in 2..(2 * n + 1) : Generated(n)[k] = M[k - 1]
      /\ Generated(n)[2 * n + 2] = Integration(n)
  <2>1. M \in Seq(StoryRecord) /\ <<Foundation(n)>> \in Seq(StoryRecord)
        /\ <<Integration(n)>> \in Seq(StoryRecord)
    BY <1>1, <1>4 DEF Fresh
  <2> QED
    BY <1>4, <1>7, <2>1
<1>10. ASSUME NEW k \in 1..(2 * n + 2)
       PROVE  /\ Generated(n)[k].id = GeneratedId(n, k)
              /\ \A d \in Generated(n)[k].deps : GeneratedDep(n, k, d)
  <2>1. CASE k = 1
    BY <1>6, <1>9, <2>1 DEF GeneratedId, GeneratedDep
  <2>2. CASE k = 2 * n + 2
    BY <1>6, <1>9, <2>2 DEF GeneratedId, GeneratedDep
  <2>3. CASE k \in 2..(2 * n + 1)
    <3>1. PICK i \in 1..(2 * n) : k = i + 1
      BY <2>3
    <3>2. Generated(n)[k] = M[i]
      BY <1>9, <2>3, <3>1
    <3> QED
      BY <1>5, <3>1, <3>2
  <2> QED
    BY <2>1, <2>2, <2>3
<1> QED
  BY <1>8, <1>9, <1>10

LEMMA GeneratedOnce ==
  ASSUME NEW n \in Nat
  PROVE  PlannedOnce(Generated(n))
<1>1. ASSUME NEW k \in 1..(2 * n + 2), NEW l \in 1..(2 * n + 2), GeneratedId(n, k) = GeneratedId(n, l)
      PROVE  k = l
  BY <1>1 DEF GeneratedId
<1>2. DOMAIN Generated(n) = 1..(2 * n + 2)
  BY GeneratedIds DEF Fresh
<1>3. \A k \in 1..(2 * n + 2) : Generated(n)[k].id = GeneratedId(n, k)
  BY GeneratedIds
<1> QED
  BY <1>1, <1>2, <1>3 DEF PlannedOnce

(* They wait for stories of their own plan that come before them.          *)
LEMMA GeneratedLinked ==
  ASSUME NEW n \in Nat
  PROVE  Linked(Generated(n))
<1> DEFINE new == Generated(n)
<1>1. new \in Seq(StoryRecord) /\ Len(new) = 2 * n + 2
  BY GeneratedIds DEF Fresh
<1>2. \A k \in 1..(2 * n + 2) : /\ new[k].id = GeneratedId(n, k)
                                /\ \A d \in new[k].deps : GeneratedDep(n, k, d)
  BY GeneratedIds
<1> HIDE DEF new
<1>3. DOMAIN new = 1..(2 * n + 2)
  BY <1>1
<1> SUFFICES ASSUME NEW k \in 1..(2 * n + 2), NEW d, GeneratedDep(n, k, d)
             PROVE  d < GeneratedId(n, k) /\ \E l \in 1..(2 * n + 2) : GeneratedId(n, l) = d
  BY <1>2, <1>3 DEF Linked, IdsOf, new
<1>4. k # 1
  BY DEF GeneratedDep
<1>5. CASE k = 2 * n + 2
  <2>1. PICK j \in 1..n : d = 412 + 10 * j
    BY <1>4, <1>5 DEF GeneratedDep
  <2>2. 2 * j + 1 \in 1..(2 * n + 2) /\ GeneratedId(n, 2 * j + 1) = 412 + 10 * j
    BY DEF GeneratedId
  <2>3. GeneratedId(n, k) = 411 + 10 * (n + 1)
    BY <1>4, <1>5 DEF GeneratedId
  <2>4. 412 + 10 * j < 411 + 10 * (n + 1)
    OBVIOUS
  <2> QED
    BY <2>1, <2>2, <2>3, <2>4
<1>6. CASE k # 2 * n + 2 /\ k % 2 = 0
  <2>1. d = 411
    BY <1>4, <1>6 DEF GeneratedDep
  <2>2. PICK m \in Nat : m = k \div 2
    OBVIOUS
  <2>3. GeneratedId(n, k) = 411 + 10 * m /\ m # 0
    BY <1>4, <1>6, <2>2 DEF GeneratedId
  <2>4. 1 \in 1..(2 * n + 2) /\ GeneratedId(n, 1) = 411
    BY DEF GeneratedId
  <2> QED
    BY <2>1, <2>3, <2>4
<1>7. CASE k # 2 * n + 2 /\ k % 2 # 0
  <2>1. PICK j \in Nat : j = (k - 1) \div 2
    OBVIOUS
  <2>2. j \in 1..n
    BY <1>4, <1>7, <2>1
  <2>3. d = 411 + 10 * j /\ GeneratedId(n, k) = 412 + 10 * j
    BY <1>4, <1>7, <2>1 DEF GeneratedDep, GeneratedId
  <2>4. 2 * j \in 1..(2 * n + 2) /\ GeneratedId(n, 2 * j) = 411 + 10 * j
    BY <2>2 DEF GeneratedId
  <2> QED
    BY <2>3, <2>4
<1> QED
  BY <1>5, <1>6, <1>7

-----------------------------------------------------------------------------
(* What a step does to the backlog: stories are added at its end, or one   *)
(* changes its status.                                                     *)

LEMMA AfterAdd ==
  ASSUME backlog \in Seq(StoryRecord), NEW new \in Fresh, backlog' = backlog \o new
  PROVE  /\ backlog' \in Seq(StoryRecord) /\ Stories \subseteq Stories'
         /\ \A i \in Stories : backlog'[i] = backlog[i]
         /\ \A i \in Stories' \ Stories :
              i - Len(backlog) \in DOMAIN new /\ backlog'[i] = new[i - Len(backlog)]
<1>1. new \in Seq(StoryRecord)
  BY DEF Fresh
<1> QED
  BY <1>1 DEF Stories

LEMMA AfterStatus ==
  ASSUME backlog \in Seq(StoryRecord), NEW i \in Stories,
         NEW status \in {"todo", "in_progress", "done", "blocked"}, SetStatus(i, status)
  PROVE  /\ backlog' \in Seq(StoryRecord) /\ Stories' = Stories
         /\ backlog'[i].status = status
         /\ \A j \in Stories : j # i => backlog'[j] = backlog[j]
         /\ \A j \in Stories : /\ backlog'[j].id = backlog[j].id
                               /\ backlog'[j].deps = backlog[j].deps
                               /\ backlog'[j].epic = backlog[j].epic
                               /\ backlog'[j].area = backlog[j].area
                               /\ backlog'[j].class = backlog[j].class
<1>1. backlog[i] \in StoryRecord
  BY DEF Stories
<1>2. backlog' = [backlog EXCEPT ![i] = [backlog[i] EXCEPT !.status = status]]
  BY DEF SetStatus
<1>3. [backlog[i] EXCEPT !.status = status] \in StoryRecord
  BY <1>1 DEF StoryRecord
<1>4. backlog' \in Seq(StoryRecord) /\ Stories' = Stories
  BY <1>2, <1>3 DEF Stories
<1>5. backlog'[i] = [backlog[i] EXCEPT !.status = status]
  BY <1>2 DEF Stories
<1>6. \A j \in Stories : j # i => backlog'[j] = backlog[j]
  BY <1>2 DEF Stories
<1>7. /\ backlog'[i].status = status
      /\ backlog'[i].id = backlog[i].id /\ backlog'[i].deps = backlog[i].deps
      /\ backlog'[i].epic = backlog[i].epic /\ backlog'[i].area = backlog[i].area
      /\ backlog'[i].class = backlog[i].class
  BY <1>1, <1>5 DEF StoryRecord
<1> QED
  BY <1>4, <1>6, <1>7

(* What the steps of the plan add.                                         *)
LEMMA AddedOnce ==
  ASSUME RunningInv, PlanInv, NEW new \in Fresh, backlog' = backlog \o new,
         \/ Unplanned(new)
         \/ Unplanned(backlog) /\ PlannedOnce(new)
  PROVE  /\ PlannedOnce(backlog')
         /\ \A i \in Stories' : \A d \in backlog'[i].deps : Planned(d)
<1>1. /\ Stories \subseteq Stories'
      /\ \A i \in Stories : backlog'[i] = backlog[i]
      /\ \A i \in Stories' \ Stories :
           i - Len(backlog) \in DOMAIN new /\ backlog'[i] = new[i - Len(backlog)]
  BY AfterAdd DEF RunningInv
<1>2. \A i \in Stories' : \A d \in backlog'[i].deps : Planned(d)
  BY <1>1 DEF PlanInv, Fresh
<1>3. \A i, j \in Stories' \ Stories : i - Len(backlog) = j - Len(backlog) => i = j
  BY AfterAdd DEF RunningInv, Stories
<1>4. ASSUME NEW i \in Stories', NEW j \in Stories',
             backlog'[i].id = backlog'[j].id, Planned(backlog'[i].id)
      PROVE  i = j
  <2>1. CASE i \in Stories /\ j \in Stories
    <3>1. backlog[i].id = backlog[j].id /\ Planned(backlog[i].id)
      BY <1>1, <1>4, <2>1
    <3> QED
      BY <2>1, <3>1 DEF PlanInv, PlannedOnce, Stories
  <2>2. CASE i \notin Stories /\ j \notin Stories
    <3>1. /\ i - Len(backlog) \in DOMAIN new /\ j - Len(backlog) \in DOMAIN new
          /\ new[i - Len(backlog)].id = new[j - Len(backlog)].id
          /\ Planned(new[i - Len(backlog)].id)
      BY <1>1, <1>4, <2>2
    <3>2. i - Len(backlog) = j - Len(backlog)
      BY <3>1 DEF PlannedOnce, Unplanned
    <3> QED
      BY <1>3, <2>2, <3>2
  <2>3. CASE (i \in Stories) # (j \in Stories)
    BY <1>1, <1>4, <2>3 DEF Unplanned, Stories
  <2> QED
    BY <2>1, <2>2, <2>3
<1> QED
  BY <1>2, <1>4 DEF PlannedOnce, Stories

Additions == {i \in Stories : ~Planned(backlog[i].id)}

LEMMA AddedType ==
  ASSUME RunningInv
  PROVE  IsFiniteSet(Stories) /\ IsFiniteSet(Additions) /\ AddedCount = Cardinality(Additions)
         /\ AddedCount \in Nat
<1>1. Stories = 1..Len(backlog) /\ Len(backlog) \in Nat
  BY DEF RunningInv, Stories
<1>2. IsFiniteSet(Stories)
  BY <1>1, FS_Interval
<1>3. IsFiniteSet(Additions)
  BY <1>2, FS_Subset DEF Additions
<1> QED
  BY <1>2, <1>3, FS_CardinalityType DEF AddedCount, Additions

LEMMA AtMostOne == ASSUME NEW k \in Nat, k <= 1 PROVE k = 0 \/ k = 1
OBVIOUS

LEMMA OneMore ==
  ASSUME NEW S, NEW s \in Seq(S), NEW t \in Seq(S), Len(t) = 1
  PROVE  /\ Len(s) \in Nat /\ DOMAIN s = 1..Len(s)
         /\ DOMAIN (s \o t) = 1..(Len(s) + 1) /\ (s \o t)[Len(s) + 1] = t[1] /\ 1 \in DOMAIN t
<1>1. Len(s \o t) = Len(s) + 1 /\ s \o t \in Seq(S)
  BY ConcatProperties
<1>2. DOMAIN (s \o t) = 1..Len(s \o t)
  OBVIOUS
<1> QED
  BY <1>1, <1>2

LEMMA AddedMore ==
  ASSUME RunningInv, NEW new \in Fresh, Unplanned(new), Len(new) <= 1, backlog' = backlog \o new
  PROVE  AddedCount' = AddedCount + Len(new)
<1>0. new \in Seq(StoryRecord) /\ backlog \in Seq(StoryRecord)
  BY DEF Fresh, RunningInv
<1>1. CASE Len(new) = 0
  <2>1. backlog' = backlog
    BY <1>0, <1>1
  <2> QED
    BY <1>1, <2>1, AddedType DEF AddedCount, Stories
<1>2. CASE Len(new) = 1
  <2> DEFINE n == Len(backlog) + 1
  <2>0. /\ Len(backlog) \in Nat /\ Stories = 1..(n - 1) /\ Stories' = 1..n
        /\ backlog'[n] = new[1] /\ 1 \in DOMAIN new
    BY <1>0, <1>2, OneMore DEF Stories
  <2>1. Stories' = Stories \cup {n} /\ n \notin Stories
    BY <2>0
  <2>2. \A i \in Stories : backlog'[i] = backlog[i]
    BY AfterAdd DEF RunningInv
  <2>3. ~Planned(new[1].id)
    BY <2>0 DEF Unplanned
  <2>4. Additions' = Additions \cup {n} /\ n \notin Additions
    BY <2>0, <2>1, <2>2, <2>3 DEF Additions
  <2>5. Cardinality(Additions') = Cardinality(Additions) + 1
    BY <2>4, AddedType, FS_AddElement
  <2>6. AddedCount' = Cardinality(Additions')
    BY DEF AddedCount, Additions
  <2> QED
    BY <1>2, <2>5, <2>6, AddedType
<1>3. Len(new) = 0 \/ Len(new) = 1
  <2>1. Len(new) \in Nat
    BY <1>0
  <2> QED
    BY <2>1, AtMostOne
<1> QED
  BY <1>1, <1>2, <1>3

-----------------------------------------------------------------------------
(* The five kinds of steps.                                                *)
Grow(new) ==
  /\ Linked(new)
  /\ backlog' = backlog \o new /\ running' = running /\ offer' \subseteq offer
  /\ careful' = careful
Kinds ==
  \/ \E new \in Fresh : Grow(new)
  \/ SelectAdmissible \/ Starts \/ Ends

LEMMA NoStories ==
  ASSUME RunningInv
  PROVE  /\ <<>> \in Fresh /\ Unplanned(<<>>) /\ Linked(<<>>) /\ Len(<<>>) = 0
         /\ backlog \o <<>> = backlog
<1>1. <<>> \in Seq(StoryRecord) /\ DOMAIN <<>> = {} /\ Len(<<>>) = 0
  OBVIOUS
<1>2. backlog \o <<>> = backlog
  BY ConcatEmptySeq DEF RunningInv
<1> QED
  BY <1>1, <1>2 DEF Fresh, Unplanned, Linked

LEMMA Nothing ==
  ASSUME RunningInv, backlog' = backlog, running' = running, careful' = careful, offer' \subseteq offer
  PROVE  Kinds
BY NoStories DEF Kinds, Grow

LEMMA Sums ==
  ASSUME NEW added \in Nat, NEW n \in Nat, NEW waits \in Nat, NEW waits2 \in Nat, NEW max \in Nat,
         NEW shown \in Nat, NEW shown2 \in Nat, shown2 <= shown + n, shown <= added,
         added + waits <= max,
         n + waits2 <= waits \/ (n + waits2 <= 1 + waits /\ added + waits < max)
  PROVE  added + n + waits2 <= max /\ shown2 <= added + n
OBVIOUS

LEMMA IdeaType ==
  ASSUME PlanInv
  PROVE  idea.added \in 0..99 /\ idea.added \in Nat /\ idea.components \in Nat
<1>1. idea \in [mode : STRING, says : SUBSET Decisions, nonGoals : BOOLEAN,
                components : Nat, web : BOOLEAN, clean : BOOLEAN, added : 0..99]
  BY DEF PlanInv
<1>2. idea.added \in 0..99 /\ idea.components \in Nat
  BY <1>1
<1> QED
  BY <1>2

LEMMA Under ==
  ASSUME NEW shown \in Nat, NEW added \in Nat, NEW waits \in Nat, NEW max \in 0..99,
         shown <= added, added + waits < max
  PROVE  shown < 99
OBVIOUS

(* The facts about the plan that a step leaves alone or moves on.          *)
PlanMoves(new) ==
  /\ Unplanned(new) /\ Len(new) <= 1
  /\ backlog' = backlog \o new
  /\ UNCHANGED <<idea, stage>>
  /\ delta' \in Fresh /\ Unplanned(delta') /\ Linked(delta') /\ Len(delta') <= 1
  /\ showcases' \in Nat /\ showcases' <= showcases + Len(new)
  /\ \/ Len(new) + Len(delta') <= Len(delta)
     \/ Len(new) + Len(delta') <= 1 + Len(delta) /\ MayAdd

LEMMA PlanGrows ==
  ASSUME RunningInv, PlanInv, NEW new \in Fresh, PlanMoves(new)
  PROVE  PlanInv'
<1>0. /\ Unplanned(new) /\ Len(new) <= 1 /\ backlog' = backlog \o new
      /\ UNCHANGED <<idea, stage>> /\ delta' \in Fresh /\ Unplanned(delta') /\ Linked(delta')
      /\ Len(delta') <= 1
      /\ showcases' \in Nat /\ showcases' <= showcases + Len(new)
      /\ \/ Len(new) + Len(delta') <= Len(delta)
         \/ Len(new) + Len(delta') <= 1 + Len(delta) /\ MayAdd
  BY DEF PlanMoves
<1>1. PlannedOnce(backlog') /\ \A i \in Stories' : \A d \in backlog'[i].deps : Planned(d)
  BY <1>0, AddedOnce
<1>2. AddedCount' = AddedCount + Len(new) /\ AddedCount \in Nat
  BY <1>0, AddedMore, AddedType
<1>3. ASSUME stage' \in {"idea", "bundle"} PROVE Unplanned(backlog')
  <2>1. Unplanned(backlog)
    BY <1>0, <1>3 DEF PlanInv
  <2>2. /\ Stories \subseteq Stories'
        /\ \A i \in Stories : backlog'[i] = backlog[i]
        /\ \A i \in Stories' \ Stories :
             i - Len(backlog) \in DOMAIN new /\ backlog'[i] = new[i - Len(backlog)]
    BY <1>0, AfterAdd DEF RunningInv
  <2> QED
    BY <1>0, <2>1, <2>2 DEF Unplanned, Stories
<1>4. Len(new) \in Nat /\ Len(delta) \in Nat /\ Len(delta') \in Nat
  BY <1>0 DEF PlanInv, Fresh
<1>5. AddedCount' + Len(delta') <= idea'.added /\ showcases' <= AddedCount'
  <2>1. /\ AddedCount + Len(delta) <= idea.added /\ showcases <= AddedCount
        /\ MayAdd => AddedCount + Len(delta) < idea.added
        /\ idea.added \in Nat /\ showcases \in Nat /\ idea'.added = idea.added
    <3>1. AddedCount + Len(delta) <= idea.added /\ showcases <= AddedCount /\ showcases \in Nat
      BY DEF PlanInv
    <3>2. MayAdd => AddedCount + Len(delta) < idea.added
      BY DEF MayAdd
    <3>3. idea.added \in Nat
      BY IdeaType
    <3>4. idea' = idea
      BY <1>0
    <3> QED
      BY <3>1, <3>2, <3>3, <3>4
  <2> QED
    BY <1>0, <1>2, <1>4, <2>1, Sums
<1> QED
  BY <1>0, <1>1, <1>3, <1>5 DEF PlanInv

LEMMA Singles ==
  ASSUME NEW id \in Nat, ~Planned(id), NEW epic \in Nat, NEW area \in SUBSET Place,
         NEW class \in Classes
  PROVE  /\ <<Story(id, epic, {}, area, class, TRUE)>> \in Fresh
         /\ Unplanned(<<Story(id, epic, {}, area, class, TRUE)>>)
         /\ Linked(<<Story(id, epic, {}, area, class, TRUE)>>)
         /\ Len(<<Story(id, epic, {}, area, class, TRUE)>>) = 1
<1>1. <<Story(id, epic, {}, area, class, TRUE)>> \in Fresh
  BY StoryIsFresh
<1> DEFINE s == Story(id, epic, {}, area, class, TRUE)
<1>2. s.id = id /\ s.deps = {}
  BY DEF Story
<1> HIDE DEF s
<1>3. Unplanned(<<s>>) /\ Linked(<<s>>) /\ Len(<<s>>) = 1
  BY <1>2 DEF Unplanned, Linked
<1> QED
  BY <1>1, <1>3 DEF s

LEMMA StatusPlan ==
  ASSUME RunningInv, PlanInv, NEW i \in Stories,
         NEW status \in {"todo", "in_progress", "done", "blocked"}, SetStatus(i, status),
         UNCHANGED planVars
  PROVE  PlanInv'
<1>1. /\ Stories' = Stories
      /\ \A j \in Stories : backlog'[j].id = backlog[j].id /\ backlog'[j].deps = backlog[j].deps
  BY AfterStatus DEF RunningInv
<1>2. AddedCount' = AddedCount
  <2>1. {j \in Stories' : ~Planned(backlog'[j].id)} = {j \in Stories : ~Planned(backlog[j].id)}
    BY <1>1
  <2> QED
    BY <2>1 DEF AddedCount
<1>3. PlannedOnce(backlog') /\ (stage' \in {"idea", "bundle"} => Unplanned(backlog'))
  BY <1>1 DEF PlanInv, PlannedOnce, Unplanned, Stories, planVars
<1> QED
  BY <1>1, <1>2, <1>3 DEF PlanInv, planVars

LEMMA SamePlan ==
  ASSUME RunningInv, PlanInv, UNCHANGED <<backlog, idea, delta, showcases>>,
         stage' \in {"idea", "bundle"} => stage \in {"idea", "bundle"}
  PROVE  PlanInv'
BY DEF PlanInv, AddedCount, Stories

LEMMA EmitPlan ==
  ASSUME RunningInv, PlanInv, stage \in {"idea", "bundle"}, stage' = "emitted",
         UNCHANGED <<idea, delta, showcases>>,
         backlog' = backlog \o Generated(idea.components)
  PROVE  PlanInv' /\ Generated(idea.components) \in Fresh /\ Linked(Generated(idea.components))
<1> DEFINE n == idea.components
           new == Generated(n)
<1>1. n \in Nat
  BY IdeaType
<1>2. /\ new \in Fresh /\ PlannedOnce(new) /\ Linked(new)
      /\ \A k \in DOMAIN new : Planned(new[k].id)
  <2>0. Linked(new)
    BY <1>1, GeneratedLinked
  <2>1. new \in Fresh /\ PlannedOnce(new)
    BY <1>1, GeneratedIds, GeneratedOnce
  <2>2. DOMAIN new = 1..(2 * n + 2) /\ \A k \in 1..(2 * n + 2) : new[k].id = GeneratedId(n, k)
    <3>1. new \in Seq(StoryRecord) /\ Len(new) = 2 * n + 2
      BY <1>1, GeneratedIds DEF Fresh
    <3>2. \A k \in 1..(2 * n + 2) : new[k].id = GeneratedId(n, k)
      BY <1>1, GeneratedIds
    <3> HIDE DEF new
    <3> QED
      BY <3>1, <3>2
  <2>3. \A k \in 1..(2 * n + 2) : Planned(GeneratedId(n, k))
    BY <1>1 DEF GeneratedId, Planned
  <2> QED
    BY <2>0, <2>1, <2>2, <2>3
<1> HIDE DEF new, n
<1>3. backlog' = backlog \o new /\ Unplanned(backlog)
  BY DEF new, n, PlanInv
<1>4. PlannedOnce(backlog') /\ \A i \in Stories' : \A d \in backlog'[i].deps : Planned(d)
  BY <1>2, <1>3, AddedOnce
<1>5. /\ Stories \subseteq Stories'
      /\ \A i \in Stories : backlog'[i] = backlog[i]
      /\ \A i \in Stories' \ Stories :
           i - Len(backlog) \in DOMAIN new /\ backlog'[i] = new[i - Len(backlog)]
  BY <1>2, <1>3, AfterAdd DEF RunningInv
<1>6. {i \in Stories' : ~Planned(backlog'[i].id)} = {i \in Stories : ~Planned(backlog[i].id)}
  BY <1>2, <1>5
<1>7. AddedCount' = AddedCount
  BY <1>6 DEF AddedCount
<1> QED
  BY <1>2, <1>4, <1>7 DEF PlanInv, new, n

(* What the plan does is one of the kinds of steps, and keeps the plan.    *)
LEMMA ScopeStep ==
  ASSUME RunningInv, PlanInv, NEW m \in Messages, NEW told, ScopeChange(m, told)
  PROVE  PlanInv' /\ Kinds
<1>1. /\ UNCHANGED <<idea, stage>> /\ showcases' = showcases /\ UNCHANGED admissionVars
      /\ MayAdd /\ delta = <<>>
      /\ delta' = <<Story(ScopeId(m.slug), m.epic, {}, Src, "sequential", TRUE)>>
  BY DEF ScopeChange
<1>2. delta' \in Fresh /\ Unplanned(delta') /\ Linked(delta') /\ Len(delta') = 1
  <2>1. ScopeId(m.slug) \in Nat /\ ~Planned(ScopeId(m.slug)) /\ m.epic \in Nat
    <3>1. m.slug \in 0..99 /\ m.epic \in Nat
      BY IdsAssumption
    <3> QED
      BY <3>1 DEF ScopeId, Planned
  <2>2. Src \in SUBSET Place /\ "sequential" \in Classes
    BY DEF Place, Classes
  <2> QED
    BY <1>1, <2>1, <2>2, Singles
<1> DEFINE none == <<>>
<1>3. /\ none \in Fresh /\ Unplanned(none) /\ Len(none) = 0 /\ backlog' = backlog \o none
      /\ Len(delta) = 0
  BY <1>1, NoStories DEF admissionVars
<1> HIDE DEF none
<1>4. showcases \in Nat
  BY DEF PlanInv
<1>5. /\ Len(none) <= 1 /\ Len(delta') <= 1 /\ showcases' \in Nat /\ showcases' <= showcases + Len(none)
      /\ Len(none) + Len(delta') <= 1 + Len(delta)
  BY <1>1, <1>2, <1>3, <1>4
<1>6. PlanInv'
  BY <1>1, <1>2, <1>3, <1>5, PlanGrows DEF PlanMoves
<1> QED
  BY <1>1, <1>6, Nothing DEF admissionVars

LEMMA ApplyStep ==
  ASSUME RunningInv, PlanInv, ApplyBacklogDelta \/ ApplyThrows
  PROVE  PlanInv' /\ Kinds
<1> DEFINE none == <<>>
<1>1. /\ none \in Fresh /\ Unplanned(none) /\ Linked(none) /\ Len(none) = 0
      /\ backlog \o none = backlog
  BY NoStories
<1> HIDE DEF none
<1>2. /\ UNCHANGED <<idea, stage>> /\ showcases' = showcases /\ delta' = none
  BY DEF ApplyBacklogDelta, ApplyThrows, none
<1>3. /\ delta \in Fresh /\ Unplanned(delta) /\ Linked(delta) /\ Len(delta) <= 1
      /\ showcases \in Nat /\ Len(delta) \in Nat
  BY DEF PlanInv, Fresh
<1>4. /\ Len(delta') <= 1 /\ showcases' \in Nat
      /\ showcases' <= showcases + Len(delta) /\ showcases' <= showcases + Len(none)
      /\ Len(delta) + Len(delta') <= Len(delta) /\ Len(none) + Len(delta') <= Len(delta)
      /\ Len(none) <= 1 /\ delta' \in Fresh /\ Unplanned(delta') /\ Linked(delta')
  BY <1>1, <1>2, <1>3
<1>5. CASE ApplyBacklogDelta
  <2>1. backlog' = backlog \o delta /\ UNCHANGED <<running, offer, careful>>
    BY <1>5 DEF ApplyBacklogDelta, Add
  <2>2. PlanInv'
    BY <1>1, <1>2, <1>3, <1>4, <2>1, PlanGrows DEF PlanMoves
  <2> QED
    BY <1>3, <2>1, <2>2 DEF Kinds, Grow
<1>6. CASE ApplyThrows
  <2>1. backlog' = backlog \o none /\ UNCHANGED admissionVars
    BY <1>1, <1>6 DEF ApplyThrows, admissionVars
  <2>2. PlanInv'
    BY <1>1, <1>2, <1>3, <1>4, <2>1, PlanGrows DEF PlanMoves
  <2> QED
    BY <2>1, <2>2, Nothing DEF admissionVars
<1> QED
  BY <1>5, <1>6

LEMMA SingleStep ==
  ASSUME RunningInv, PlanInv, MayAdd, NEW id \in Nat, ~Planned(id), NEW epic \in Nat,
         NEW area \in SUBSET Place, NEW class \in Classes,
         Add(<<Story(id, epic, {}, area, class, TRUE)>>),
         UNCHANGED <<idea, stage, delta>>, showcases' \in {showcases, showcases + 1}
  PROVE  PlanInv' /\ Kinds
<1> DEFINE new == <<Story(id, epic, {}, area, class, TRUE)>>
<1>1. new \in Fresh /\ Unplanned(new) /\ Linked(new) /\ Len(new) = 1
  BY Singles
<1> HIDE DEF new
<1>2. backlog' = backlog \o new /\ UNCHANGED <<running, offer, careful>>
  BY DEF Add, new
<1>3. /\ delta \in Fresh /\ Unplanned(delta) /\ Linked(delta) /\ Len(delta) <= 1
      /\ showcases \in Nat /\ Len(delta) \in Nat
  BY DEF PlanInv, Fresh
<1>4. delta' = delta
  OBVIOUS
<1>5. /\ Len(new) <= 1 /\ showcases' \in Nat /\ showcases' <= showcases + Len(new)
      /\ Len(new) + Len(delta') <= 1 + Len(delta)
  BY <1>1, <1>3, <1>4
<1>6. PlanInv'
  BY <1>1, <1>2, <1>3, <1>4, <1>5, PlanGrows DEF PlanMoves
<1> QED
  BY <1>1, <1>2, <1>6 DEF Kinds, Grow

LEMMA AddingStep ==
  ASSUME RunningInv, PlanInv, Adding
  PROVE  PlanInv' /\ Kinds
<1>1. CASE \E m \in Messages : \E told \in {{}} \cup {{s.id} : s \in RunningStories} :
             ScopeChange(m, told)
  BY <1>1, ScopeStep
<1>2. CASE ApplyBacklogDelta \/ ApplyThrows
  BY <1>2, ApplyStep
<1>3. ASSUME NEW report \in Reports, NEW reproduction \in Reproductions, NEW area \in RepairAreas,
             NEW frozen \in BOOLEAN, TriageDefect(report, reproduction, area, frozen)
      PROVE  PlanInv' /\ Kinds
  <2> DEFINE class == IF frozen THEN "exclusive" ELSE "sequential"
  <2>1. /\ MayAdd /\ UNCHANGED <<idea, stage, delta>> /\ showcases' = showcases
        /\ Add(<<Story(RepairId(report), RepairEpic, {}, area, class, TRUE)>>)
    BY <1>3 DEF TriageDefect, planVars
  <2>2. RepairId(report) \in Nat /\ ~Planned(RepairId(report)) /\ RepairEpic \in Nat
    BY IdsAssumption DEF RepairId, Planned, RepairEpic
  <2>3. area \in SUBSET Place /\ class \in Classes
    BY DEF RepairAreas, Place, Classes
  <2> QED
    BY <2>1, <2>2, <2>3, SingleStep
<1>4. CASE AskFrontendStage
  <2>1. /\ MayAdd /\ UNCHANGED <<idea, stage, delta>> /\ showcases' = showcases + 1
        /\ Add(<<Story(ShowcaseId(showcases + 1), ShowcaseEpic, {}, Dist, "sequential", TRUE)>>)
    BY <1>4 DEF AskFrontendStage
  <2>2. showcases \in Nat /\ showcases < 99
    <3>1. /\ showcases \in Nat /\ showcases <= AddedCount /\ Len(delta) \in Nat /\ idea.added \in 0..99
      BY IdeaType DEF PlanInv, Fresh
    <3>2. AddedCount \in Nat /\ AddedCount + Len(delta) < idea.added
      BY <2>1, AddedType DEF MayAdd
    <3> QED
      BY <3>1, <3>2, Under
  <2>3. ShowcaseId(showcases + 1) \in Nat /\ ~Planned(ShowcaseId(showcases + 1)) /\ ShowcaseEpic \in Nat
    BY <2>2 DEF ShowcaseId, Planned, ShowcaseEpic
  <2>4. Dist \in SUBSET Place /\ "sequential" \in Classes
    BY DEF Place, Classes
  <2> QED
    BY <2>1, <2>3, <2>4, SingleStep
<1> QED
  BY <1>1, <1>2, <1>3, <1>4 DEF Adding

LEMMA LessOne == ASSUME NEW a \in Nat, NEW b \in Nat, NEW c \in Nat, a + b <= c PROVE a <= c
OBVIOUS

LEMMA PlanStep ==
  ASSUME RunningInv, PlanInv, [Next]_vars
  PROVE  PlanInv' /\ Kinds
<1>1. CASE CreatePlanningBundle
  <2>1. /\ UNCHANGED <<idea, delta, showcases, admissionVars>> /\ stage = "idea"
    BY <1>1 DEF CreatePlanningBundle
  <2> QED
    BY <2>1, SamePlan, Nothing DEF admissionVars
<1>2. ASSUME NEW d \in Decisions, NEW inWords \in BOOLEAN, Answer(d, inWords)
      PROVE  PlanInv' /\ Kinds
  <2>1. /\ UNCHANGED <<stage, delta, showcases, admissionVars>>
        /\ idea' = IF inWords THEN [idea EXCEPT !.says = @ \cup {d}] ELSE idea
    BY <1>2 DEF Answer
  <2> DEFINE T == [mode : STRING, says : SUBSET Decisions, nonGoals : BOOLEAN,
                   components : Nat, web : BOOLEAN, clean : BOOLEAN, added : 0..99]
  <2>2. idea \in T
    BY DEF PlanInv
  <2>3. idea' \in T /\ idea'.added = idea.added
    BY <2>1, <2>2
  <2>4. PlanInv'
    BY <2>1, <2>3 DEF PlanInv, AddedCount, Stories, admissionVars
  <2> QED
    BY <2>1, <2>4, Nothing DEF admissionVars
<1>3. CASE EmitBacklog
  <2>1. /\ stage \in {"idea", "bundle"} /\ stage' = "emitted" /\ UNCHANGED <<idea, delta, showcases>>
        /\ backlog' = backlog \o Generated(idea.components) /\ UNCHANGED <<running, offer, careful>>
    BY <1>3 DEF EmitBacklog, Add
  <2> QED
    BY <2>1, EmitPlan DEF Kinds, Grow
<1>4. CASE GateRefuses
  <2>1. /\ UNCHANGED <<idea, delta, showcases, admissionVars>> /\ stage' = "refused"
    BY <1>4 DEF GateRefuses
  <2> QED
    BY <2>1, SamePlan, Nothing DEF admissionVars
<1>5. CASE Adding
  BY <1>5, AddingStep
<1>6. CASE Restart
  <2>1. /\ UNCHANGED <<backlog, running, careful, idea, stage>> /\ offer' = {} /\ delta' = <<>>
        /\ showcases' = 0
    BY <1>6 DEF Restart
  <2>2. PlanInv'
    <3> DEFINE none == <<>>
    <3>1. none \in Fresh /\ Unplanned(none) /\ Linked(none) /\ Len(none) = 0 /\ delta' = none
      BY <2>1, NoStories
    <3>2. AddedCount' = AddedCount /\ AddedCount \in Nat
      BY <2>1, AddedType DEF AddedCount, Stories
    <3>3. AddedCount + Len(delta) <= idea.added /\ Len(delta) \in Nat /\ idea.added \in Nat
      BY IdeaType DEF PlanInv, Fresh
    <3>4. AddedCount <= idea.added
      BY <3>2, <3>3, LessOne
    <3> HIDE DEF none
    <3> QED
      BY <2>1, <3>1, <3>2, <3>3, <3>4 DEF PlanInv, Stories
  <2> QED
    BY <2>1, <2>2, Nothing
<1>7. CASE Managing /\ UNCHANGED planVars
  <2>1. CASE SelectAdmissible
    BY <1>7, <2>1, SamePlan DEF SelectAdmissible, planVars, Kinds
  <2>2. ASSUME NEW i \in Stories, StartStory(i)
        PROVE  PlanInv' /\ Kinds
    BY <1>7, <2>2, StatusPlan DEF StartStory, Kinds, Starts
  <2>3. CASE Ends
    <3>1. PICK k \in DOMAIN running : \E status \in {"done", "blocked"} : EndStory(k, status)
      BY <2>3 DEF Ends
    <3>2. running[k] \in Stories
      BY DEF RunningInv
    <3> QED
      BY <1>7, <2>3, <3>1, <3>2, StatusPlan DEF EndStory, Kinds
  <2>4. CASE ToggleWave \/ \E id \in IdsOf(backlog) \cap Holdable : ToggleHold(id)
    <3>1. UNCHANGED <<backlog, running, offer, careful>>
      BY <2>4 DEF ToggleWave, ToggleHold
    <3> QED
      BY <1>7, <3>1, SamePlan, Nothing DEF planVars
  <2> QED
    BY <1>7, <2>1, <2>2, <2>3, <2>4 DEF Managing, Starts
<1>8. CASE UNCHANGED vars
  BY <1>8, SamePlan, Nothing DEF vars, planVars, admissionVars
<1> QED
  BY <1>1, <1>2, <1>3, <1>4, <1>5, <1>6, <1>7, <1>8 DEF Next

-----------------------------------------------------------------------------
(* The running stories.                                                    *)

LEMMA Gone ==
  ASSUME NEW S, NEW s \in Seq(S), NEW k \in DOMAIN s, NEW t,
         t = SubSeq(s, 1, k - 1) \o SubSeq(s, k + 1, Len(s))
  PROVE  /\ t \in Seq(S) /\ Len(t) = Len(s) - 1
         /\ \A i \in 1..(Len(s) - 1) : t[i] = IF i < k THEN s[i] ELSE s[i + 1]
<1>1. /\ SubSeq(s, 1, k - 1) \in Seq(S) /\ Len(SubSeq(s, 1, k - 1)) = k - 1
      /\ \A i \in 1..(k - 1) : SubSeq(s, 1, k - 1)[i] = s[i]
  OBVIOUS
<1>2. /\ SubSeq(s, k + 1, Len(s)) \in Seq(S) /\ Len(SubSeq(s, k + 1, Len(s))) = Len(s) - k
      /\ \A i \in 1..(Len(s) - k) : SubSeq(s, k + 1, Len(s))[i] = s[i + k]
  BY SMTT(30)
<1> DEFINE a == SubSeq(s, 1, k - 1)
           b == SubSeq(s, k + 1, Len(s))
<1>3. k \in 1..Len(s) /\ Len(s) \in Nat
  OBVIOUS
<1> HIDE DEF a, b
<1>4. /\ a \o b \in Seq(S) /\ Len(a \o b) = Len(a) + Len(b)
      /\ \A i \in 1..(Len(a) + Len(b)) : (a \o b)[i] = IF i <= Len(a) THEN a[i] ELSE b[i - Len(a)]
  BY <1>1, <1>2, ConcatProperties DEF a, b
<1>5. Len(a) = k - 1 /\ Len(b) = Len(s) - k /\ t = a \o b
  BY <1>1, <1>2 DEF a, b
<1>6. ASSUME NEW i \in 1..(Len(s) - 1)
      PROVE  t[i] = IF i < k THEN s[i] ELSE s[i + 1]
  <2>1. CASE i < k
    BY SMTT(30), <1>1, <1>3, <1>4, <1>5, <2>1 DEF a
  <2>2. CASE ~(i < k)
    <3>1. i - (k - 1) \in 1..(Len(s) - k) /\ (i - (k - 1)) + k = i + 1 /\ ~(i <= k - 1)
      BY SMTT(30), <1>3, <2>2
    <3>2. b[i - (k - 1)] = s[i + 1]
      BY <1>2, <3>1 DEF b
    <3>3. i \in 1..(Len(a) + Len(b)) /\ ~(i <= Len(a)) /\ i - Len(a) = i - (k - 1)
      BY <1>3, <1>5, <2>2
    <3>4. t[i] = b[i - Len(a)]
      BY <1>4, <1>5, <3>3
    <3> QED
      BY <2>2, <3>2, <3>3, <3>4
  <2> QED
    BY <2>1, <2>2
<1>7. Len(a) + Len(b) = Len(s) - 1
  BY <1>3, <1>5
<1> QED
  BY <1>4, <1>5, <1>6, <1>7

LEMMA GrowRunning ==
  ASSUME RunningInv, NEW new \in Fresh, Grow(new)
  PROVE  /\ RunningInv' /\ InProgress' = InProgress /\ InProgress \subseteq Stories
         /\ Stories \subseteq Stories'
         /\ \A i \in Stories : backlog'[i] = backlog[i]
         /\ \A i \in Stories' \ Stories : backlog'[i].status = "todo"
<1>1. backlog \in Seq(StoryRecord) /\ backlog' = backlog \o new
  BY DEF RunningInv, Grow
<1>2. /\ backlog' \in Seq(StoryRecord) /\ Stories \subseteq Stories'
      /\ \A i \in Stories : backlog'[i] = backlog[i]
      /\ \A i \in Stories' \ Stories :
           i - Len(backlog) \in DOMAIN new /\ backlog'[i] = new[i - Len(backlog)]
  BY <1>1, AfterAdd
<1>3. running \in Seq(Stories) /\ running' = running
  BY DEF RunningInv, Grow
<1>4. \A k \in DOMAIN running : running[k] \in Stories
  BY <1>3
<1>5. Len(running) \in Nat /\ running \in [1..Len(running) -> Stories']
  BY <1>2, <1>3
<1>6. running' \in Seq(Stories')
  BY <1>3, <1>5
<1>7. RunningInv'
  <2>1. offer' \subseteq Stories' /\ \A j \in offer' : backlog'[j].status = "todo"
    BY <1>2 DEF RunningInv, Grow
  <2>2. \A k \in DOMAIN running' : backlog'[running'[k]].status = "in_progress"
    BY <1>2, <1>3, <1>4 DEF RunningInv
  <2>3. careful' \in BOOLEAN /\ \A k, l \in DOMAIN running' : running'[k] = running'[l] => k = l
    BY <1>3 DEF RunningInv, Grow
  <2> QED
    BY <1>2, <1>6, <2>1, <2>2, <2>3 DEF RunningInv
<1> QED
  BY <1>2, <1>3, <1>4, <1>7 DEF InProgress, Fresh

LEMMA StartRunning ==
  ASSUME RunningInv, NEW i \in Stories, StartStory(i)
  PROVE  /\ RunningInv' /\ InProgress' = InProgress \cup {i} /\ i \notin InProgress
         /\ InProgress \subseteq Stories
         /\ Len(running') = Len(running) + 1 /\ running'[Len(running')] = i
         /\ \A k \in DOMAIN running : k \in DOMAIN running' /\ running'[k] = running[k]
<1>1. /\ backlog' \in Seq(StoryRecord) /\ Stories' = Stories
      /\ backlog'[i].status = "in_progress"
      /\ \A j \in Stories : j # i => backlog'[j] = backlog[j]
  BY AfterStatus DEF RunningInv, StartStory
<1>2. /\ running \in Seq(Stories) /\ running' = Append(running, i)
  BY DEF RunningInv, StartStory
<1>3. /\ Len(running) \in Nat /\ DOMAIN running = 1..Len(running)
      /\ DOMAIN running' = 1..(Len(running) + 1) /\ Len(running') = Len(running) + 1
      /\ running' \in Seq(Stories)
      /\ running'[Len(running) + 1] = i
      /\ \A k \in 1..Len(running) : running'[k] = running[k]
  BY <1>2
<1>4. backlog[i].status = "todo" /\ \A k \in DOMAIN running : running[k] # i /\ running[k] \in Stories
  BY <1>2 DEF RunningInv, StartStory
<1>5. \A k, l \in DOMAIN running' : running'[k] = running'[l] => k = l
  <2> SUFFICES ASSUME NEW k \in DOMAIN running', NEW l \in DOMAIN running', running'[k] = running'[l]
               PROVE  k = l
    OBVIOUS
  <2>1. \A m \in DOMAIN running' : m \in DOMAIN running \/ m = Len(running) + 1
    BY <1>3
  <2>2. \A m, n \in DOMAIN running : running[m] = running[n] => m = n
    BY DEF RunningInv
  <2> QED
    BY <1>3, <1>4, <2>1, <2>2
<1>6. \A k \in DOMAIN running' : backlog'[running'[k]].status = "in_progress"
  <2>1. \A m \in DOMAIN running' : m \in DOMAIN running \/ m = Len(running) + 1
    BY <1>3
  <2> QED
    BY <1>1, <1>3, <1>4, <2>1 DEF RunningInv
<1>7. offer' \subseteq offer \ {i} /\ careful' \in BOOLEAN
  BY DEF StartStory, Kept, RunningInv
<1>8. offer' \subseteq Stories' /\ \A j \in offer' : backlog'[j].status = "todo"
  BY <1>1, <1>7 DEF RunningInv
<1>9. RunningInv'
  BY <1>1, <1>3, <1>5, <1>6, <1>7, <1>8 DEF RunningInv
<1>10. InProgress' = InProgress \cup {i}
  <2>1. \A m : m \in DOMAIN running' <=> m \in DOMAIN running \/ m = Len(running) + 1
    BY <1>3
  <2> QED
    BY <1>3, <2>1 DEF InProgress
<1> QED
  BY <1>3, <1>4, <1>9, <1>10 DEF InProgress

LEMMA EndRunning ==
  ASSUME RunningInv, NEW k \in DOMAIN running, NEW status \in {"done", "blocked"},
         EndStory(k, status)
  PROVE  /\ RunningInv' /\ InProgress' = InProgress \ {running[k]} /\ InProgress \subseteq Stories
         /\ \A l \in DOMAIN running' : \A m \in DOMAIN running' : l < m =>
              \E l2 \in DOMAIN running : \E m2 \in DOMAIN running :
                l2 < m2 /\ running'[l] = running[l2] /\ running'[m] = running[m2]
<1> DEFINE i == running[k]
<1>1. running \in Seq(Stories) /\ i \in Stories
  BY DEF RunningInv
<1>2. /\ backlog' \in Seq(StoryRecord) /\ Stories' = Stories
      /\ backlog'[i].status = status
      /\ \A j \in Stories : j # i => backlog'[j] = backlog[j]
  BY <1>1, AfterStatus DEF RunningInv, EndStory
<1>3. /\ running' \in Seq(Stories) /\ Len(running') = Len(running) - 1
      /\ \A l \in 1..(Len(running) - 1) : running'[l] = IF l < k THEN running[l] ELSE running[l + 1]
  BY ZenonT(30), <1>1, Gone DEF EndStory
<1> DEFINE Old(l) == IF l < k THEN l ELSE l + 1
<1>4. DOMAIN running = 1..Len(running) /\ Len(running) \in Nat /\ k \in 1..Len(running)
      /\ DOMAIN running' = 1..(Len(running) - 1)
  BY <1>1, <1>3
<1>5. \A l \in DOMAIN running' : Old(l) \in DOMAIN running /\ Old(l) # k /\ running'[l] = running[Old(l)]
  BY <1>3, <1>4
<1>6. \A l, m \in DOMAIN running' : (Old(l) = Old(m) => l = m) /\ (l < m => Old(l) < Old(m))
  BY <1>4
<1>7. \A n \in DOMAIN running : n # k => \E l \in DOMAIN running' : Old(l) = n
  <2> SUFFICES ASSUME NEW n \in DOMAIN running, n # k PROVE \E l \in DOMAIN running' : Old(l) = n
    OBVIOUS
  <2>1. CASE n < k
    <3>1. n \in DOMAIN running' /\ Old(n) = n
      BY <1>4, <2>1
    <3> QED
      BY <3>1
  <2>2. CASE n > k
    <3>1. n - 1 \in DOMAIN running' /\ Old(n - 1) = n
      BY <1>4, <2>2
    <3> QED
      BY <3>1
  <2> QED
    BY <1>4, <2>1, <2>2
<1> HIDE DEF Old
<1>8. \A l, m \in DOMAIN running : running[l] = running[m] => l = m
  BY DEF RunningInv
<1>9. \A l, m \in DOMAIN running' : running'[l] = running'[m] => l = m
  BY <1>5, <1>6, <1>8
<1>10. \A l \in DOMAIN running' : running'[l] # i /\ running'[l] \in Stories
  BY <1>1, <1>3, <1>5, <1>8
<1>11. \A l \in DOMAIN running' : backlog'[running'[l]].status = "in_progress"
  BY <1>2, <1>5, <1>10 DEF RunningInv
<1>12. offer' \subseteq Stories' /\ \A j \in offer' : backlog'[j].status = "todo"
  <2>1. offer' = offer /\ backlog[i].status = "in_progress"
    BY DEF EndStory, RunningInv
  <2> QED
    BY <1>2, <2>1 DEF RunningInv
<1>13. RunningInv'
  BY <1>2, <1>3, <1>9, <1>11, <1>12 DEF RunningInv, EndStory
<1>14. InProgress' = InProgress \ {i}
  BY <1>5, <1>7, <1>8, <1>10 DEF InProgress
<1>15. ASSUME NEW l \in DOMAIN running', NEW m \in DOMAIN running', l < m
       PROVE  \E l2 \in DOMAIN running : \E m2 \in DOMAIN running :
                l2 < m2 /\ running'[l] = running[l2] /\ running'[m] = running[m2]
  <2>1. Old(l) < Old(m) /\ Old(l) \in DOMAIN running /\ Old(m) \in DOMAIN running
    BY <1>5, <1>6, <1>15
  <2> QED
    BY <1>5, <2>1
<1>16. InProgress \subseteq Stories
  BY <1>1 DEF InProgress
<1> QED
  BY <1>13, <1>14, <1>15, <1>16

LEMMA SelectRunning ==
  ASSUME RunningInv, SelectAdmissible
  PROVE  RunningInv'
<1>1. UNCHANGED <<backlog, running, careful>>
      /\ offer' = {i \in Stories : Admitted(i) /\ backlog[i].status = "todo"}
  BY DEF SelectAdmissible
<1> QED
  BY <1>1 DEF RunningInv, Stories

-----------------------------------------------------------------------------
(* Dependencies.                                                           *)

DepsInv == \A i \in Stories : i \in offer \/ backlog[i].status # "todo" => DepsDone(backlog[i])

(* A planned id is done if some story with it is: there is one at most.    *)
DoneIn(b, id) ==
  /\ id \in IdsOf(b)
  /\ b[CHOOSE i \in DOMAIN b : b[i].id = id /\ \A j \in DOMAIN b : b[j].id = id => j <= i].status
       = "done"
SomeDone(b, id) == \E i \in DOMAIN b : b[i].id = id /\ b[i].status = "done"

LEMMA PlannedDone ==
  ASSUME NEW b \in Seq(StoryRecord), PlannedOnce(b), NEW id, Planned(id)
  PROVE  DoneIn(b, id) <=> SomeDone(b, id)
<1> DEFINE Last(i) == b[i].id = id /\ \A j \in DOMAIN b : b[j].id = id => j <= i
<1>1. ASSUME NEW i \in DOMAIN b, b[i].id = id
      PROVE  id \in IdsOf(b) /\ (CHOOSE l \in DOMAIN b : Last(l)) = i
  <2>1. \A j \in DOMAIN b : b[j].id = id => j = i
    BY <1>1 DEF PlannedOnce
  <2>2. i \in Nat /\ i <= i
    OBVIOUS
  <2>3. Last(i)
    BY <1>1, <2>1, <2>2
  <2>4. (CHOOSE l \in DOMAIN b : Last(l)) \in DOMAIN b /\ Last(CHOOSE l \in DOMAIN b : Last(l))
    BY <2>3
  <2> QED
    BY <1>1, <2>1, <2>4 DEF IdsOf
<1>2. DoneIn(b, id) <=> id \in IdsOf(b) /\ b[CHOOSE l \in DOMAIN b : Last(l)].status = "done"
  BY DEF DoneIn
<1> HIDE DEF Last
<1>3. ASSUME id \in IdsOf(b) PROVE \E i \in DOMAIN b : b[i].id = id
  BY <1>3 DEF IdsOf
<1> QED
  BY <1>1, <1>2, <1>3 DEF SomeDone

LEMMA DoneStays ==
  ASSUME RunningInv, RunningInv', PlanInv, PlanInv',
         \A i \in Stories : /\ i \in Stories' /\ backlog'[i].id = backlog[i].id
                            /\ backlog[i].status = "done" => backlog'[i].status = "done",
         NEW id, Planned(id)
  PROVE  IsDone(id) => IsDone(id)'
<1>1. IsDone(id) <=> DoneIn(backlog, id)
  BY DEF IsDone, DoneIn, LastWith, Stories
<1>2. IsDone(id)' <=> DoneIn(backlog', id)
  BY DEF IsDone, DoneIn, LastWith, Stories
<1>3. backlog \in Seq(StoryRecord) /\ PlannedOnce(backlog)
  BY DEF RunningInv, PlanInv
<1>4. backlog' \in Seq(StoryRecord) /\ PlannedOnce(backlog')
  BY DEF RunningInv, PlanInv
<1>5. SomeDone(backlog, id) => SomeDone(backlog', id)
  BY DEF SomeDone, Stories
<1> QED
  BY <1>1, <1>2, <1>3, <1>4, <1>5, PlannedDone

LEMMA DepsStay ==
  ASSUME RunningInv, RunningInv', PlanInv, PlanInv',
         \A i \in Stories : /\ i \in Stories' /\ backlog'[i].id = backlog[i].id
                            /\ backlog'[i].deps = backlog[i].deps
                            /\ backlog[i].status = "done" => backlog'[i].status = "done",
         NEW i \in Stories, DepsDone(backlog[i])
  PROVE  DepsDone(backlog[i])'
<1>1. \A d \in backlog[i].deps : Planned(d) /\ IsDone(d)
  BY DEF DepsDone, PlanInv
<1>2. \A d \in backlog[i].deps : IsDone(d)'
  BY <1>1, DoneStays
<1> QED
  BY <1>2 DEF DepsDone

LEMMA DepsStep ==
  ASSUME RunningInv, RunningInv', PlanInv, PlanInv', DepsInv, Kinds
  PROVE  DepsInv'
<1>1. ASSUME NEW new \in Fresh, Grow(new) PROVE DepsInv'
  <2>1. /\ \A i \in Stories : i \in Stories' /\ backlog'[i] = backlog[i]
        /\ \A i \in Stories' \ Stories : backlog'[i].status = "todo"
        /\ offer' \subseteq offer /\ offer \subseteq Stories
    BY <1>1, GrowRunning DEF Grow, RunningInv
  <2>2. \A i \in Stories : DepsDone(backlog[i]) => DepsDone(backlog[i])'
    BY <2>1, DepsStay
  <2> QED
    BY <2>1, <2>2 DEF DepsInv
<1>2. CASE SelectAdmissible
  <2>1. UNCHANGED backlog /\ Stories' = Stories
    BY <1>2 DEF SelectAdmissible, Stories
  <2>2. \A i \in Stories : DepsDone(backlog[i])' = DepsDone(backlog[i])
    BY <2>1 DEF DepsDone, IsDone, LastWith
  <2>3. \A i \in offer' : DepsDone(backlog[i])
    BY <1>2 DEF SelectAdmissible, Admitted
  <2> QED
    BY <2>1, <2>2, <2>3 DEF DepsInv
<1>3. ASSUME NEW i \in Stories, StartStory(i) PROVE DepsInv'
  <2>1. /\ Stories' = Stories /\ backlog[i].status = "todo"
        /\ \A j \in Stories : j # i => backlog'[j] = backlog[j]
        /\ \A j \in Stories : backlog'[j].id = backlog[j].id /\ backlog'[j].deps = backlog[j].deps
        /\ i \in offer /\ offer' \subseteq offer
    BY <1>3, AfterStatus DEF StartStory, RunningInv, Kept
  <2>2. \A j \in Stories : DepsDone(backlog[j]) => DepsDone(backlog[j])'
    BY <2>1, DepsStay
  <2> QED
    BY <2>1, <2>2 DEF DepsInv
<1>4. ASSUME NEW k \in DOMAIN running, NEW status \in {"done", "blocked"}, EndStory(k, status)
      PROVE  DepsInv'
  <2>0. running[k] \in Stories /\ backlog[running[k]].status = "in_progress"
    BY DEF RunningInv
  <2>1. /\ Stories' = Stories
        /\ \A j \in Stories : j # running[k] => backlog'[j] = backlog[j]
        /\ \A j \in Stories : backlog'[j].id = backlog[j].id /\ backlog'[j].deps = backlog[j].deps
        /\ offer' = offer
    BY <1>4, <2>0, AfterStatus DEF EndStory, RunningInv
  <2>2. \A j \in Stories : DepsDone(backlog[j]) => DepsDone(backlog[j])'
    BY <2>0, <2>1, DepsStay
  <2> QED
    BY <2>0, <2>1, <2>2 DEF DepsInv
<1> QED
  BY <1>1, <1>2, <1>3, <1>4 DEF Kinds, Starts, Ends

-----------------------------------------------------------------------------
(* The limits that a careful caller keeps.                                 *)

Started == {i \in Stories : backlog[i].status # "todo"}
InEpic(epic) == {i \in InProgress : backlog[i].epic = epic}
InOrder(earlier, later) ==
  /\ later.class # "exclusive"
  /\ Overlap(earlier, later) /\ earlier.class # "exclusive" => later.id <= earlier.id

(* What a careful caller may start would keep every limit, until the next  *)
(* start: what happens in between only makes room.                         *)
CarefulInv ==
  careful =>
    /\ Cardinality(Started) <= IterationBudget
    /\ offer # {} => Cardinality(Started) < IterationBudget
    /\ \A i \in offer :
         Cardinality(InEpic(backlog[i].epic)) < MaxWipPerEpic /\ NoOverlap(backlog[i])
    /\ \A i \in InProgress : Cardinality(InEpic(backlog[i].epic)) <= MaxWipPerEpic
    /\ \A j \in DOMAIN running : \A k \in DOMAIN running :
         j < k => InOrder(backlog[running[j]], backlog[running[k]])

LEMMA QueuedShrinks ==
  ASSUME NEW s, NEW A, NEW B, B \subseteq A, Queued(s, B)
  PROVE  Queued(s, A)
<1> DEFINE Exclusive(S) == {t \in S \cup {s} : t.class = "exclusive"}
           All(S) == (S \ Exclusive(S)) \cup {s}
           Closed(S, C) == \A t, u \in All(S) : Overlap(t, u) /\ t.id \in C => u.id \in C
           Within(S, u) == \A C \in SUBSET {v.id : v \in All(S)} :
                             s.id \in C /\ Closed(S, C) => u.id \in C
<1>1. \A S : Queued(s, S) <=> \/ s.id \in {t.id : t \in Exclusive(S)}
                              \/ \E id \in {t.id : t \in {u \in All(S) : Within(S, u)}} : id < s.id
  BY DEF Queued, Component
<1>2. Exclusive(B) \subseteq Exclusive(A) /\ All(B) \subseteq All(A)
  OBVIOUS
<1>3. ASSUME NEW u \in All(B), Within(B, u)
      PROVE  Within(A, u)
  <2> SUFFICES ASSUME NEW C \in SUBSET {v.id : v \in All(A)}, s.id \in C, Closed(A, C)
               PROVE  u.id \in C
    OBVIOUS
  <2> DEFINE D == C \cap {v.id : v \in All(B)}
  <2>1. s.id \in D
    OBVIOUS
  <2>2. Closed(B, D)
    BY <1>2
  <2>3. u.id \in D
    BY <1>3, <2>1, <2>2
  <2> QED
    BY <2>3
<1> HIDE DEF Within, Exclusive, All
<1> QED
  BY <1>1, <1>2, <1>3

LEMMA QueuedOrder ==
  ASSUME NEW s \in StoryRecord, NEW t \in StoryRecord, NEW A, t \in A, ~Queued(s, A)
  PROVE  InOrder(t, s)
<1> DEFINE exclusive == {u \in A \cup {s} : u.class = "exclusive"}
           all == (A \ exclusive) \cup {s}
<1>1. s.id \notin {u.id : u \in exclusive} /\ \A id \in Component(s, A \ exclusive) : ~(id < s.id)
  BY DEF Queued
<1>2. s.class # "exclusive"
  BY <1>1
<1>3. ASSUME Overlap(t, s), t.class # "exclusive" PROVE s.id <= t.id
  <2>1. t \in all /\ Overlap(s, t)
    BY <1>3 DEF Overlap
  <2>2. \A C : s.id \in C /\ (\A v, u \in all : Overlap(v, u) /\ v.id \in C => u.id \in C) => t.id \in C
    BY <2>1
  <2>3. t.id \in Component(s, A \ exclusive)
    BY <2>1, <2>2 DEF Component
  <2>4. ~(t.id < s.id) /\ t.id \in Nat /\ s.id \in Nat
    BY <1>1, <2>3 DEF StoryRecord
  <2> QED
    BY <2>4
<1> QED
  BY <1>2, <1>3 DEF InOrder

LEMMA Counts ==
  ASSUME RunningInv
  PROVE  /\ IsFiniteSet(Started) /\ Cardinality(Started) \in Nat
         /\ IsFiniteSet(InProgress)
         /\ \A epic : IsFiniteSet(InEpic(epic)) /\ Cardinality(InEpic(epic)) \in Nat
<1>1. IsFiniteSet(Stories)
  BY AddedType
<1>2. InProgress \subseteq Stories
  BY DEF InProgress, RunningInv
<1> QED
  BY <1>1, <1>2, FS_Subset, FS_CardinalityType DEF Started, InEpic

LEMMA Room ==
  ASSUME RunningInv, CarefulInv, RunningInv', careful' = careful, offer' \subseteq offer,
         InProgress' \subseteq InProgress, Started' = Started,
         \A i \in InProgress' \cup offer : backlog'[i] = backlog[i],
         \A l \in DOMAIN running' : \A m \in DOMAIN running' : l < m =>
           \E l2 \in DOMAIN running : \E m2 \in DOMAIN running :
             l2 < m2 /\ running'[l] = running[l2] /\ running'[m] = running[m2]
  PROVE  CarefulInv'
<1> SUFFICES ASSUME careful
             PROVE  /\ Cardinality(Started') <= IterationBudget
                    /\ offer' # {} => Cardinality(Started') < IterationBudget
                    /\ \A i \in offer' :
                         /\ Cardinality(InEpic(backlog[i].epic)') < MaxWipPerEpic
                         /\ NoOverlap(backlog[i])'
                    /\ \A i \in InProgress' : Cardinality(InEpic(backlog[i].epic)') <= MaxWipPerEpic
                    /\ \A j \in DOMAIN running' : \A k \in DOMAIN running' :
                         j < k => InOrder(backlog'[running'[j]], backlog'[running'[k]])
  BY DEF CarefulInv
<1>1. /\ Cardinality(Started) <= IterationBudget
      /\ offer # {} => Cardinality(Started) < IterationBudget
      /\ \A i \in offer : /\ Cardinality(InEpic(backlog[i].epic)) < MaxWipPerEpic
                          /\ NoOverlap(backlog[i])
      /\ \A i \in InProgress : Cardinality(InEpic(backlog[i].epic)) <= MaxWipPerEpic
      /\ \A j \in DOMAIN running : \A k \in DOMAIN running :
           j < k => InOrder(backlog[running[j]], backlog[running[k]])
  BY DEF CarefulInv
<1>2. \A e : InEpic(e)' \subseteq InEpic(e)
  BY DEF InEpic
<1>3. \A e : Cardinality(InEpic(e)') <= Cardinality(InEpic(e)) /\ Cardinality(InEpic(e)') \in Nat
  BY <1>2, Counts, FS_Subset, FS_CardinalityType
<1>4. \A i \in offer' : Cardinality(InEpic(backlog[i].epic)') < MaxWipPerEpic
  <2> SUFFICES ASSUME NEW i \in offer' PROVE Cardinality(InEpic(backlog[i].epic)') < MaxWipPerEpic
    OBVIOUS
  <2>1. i \in offer /\ backlog'[i] = backlog[i]
    OBVIOUS
  <2> DEFINE e == backlog[i].epic
  <2>2. Cardinality(InEpic(e)) < MaxWipPerEpic /\ Cardinality(InEpic(e)) \in Nat
    BY <1>1, <2>1, Counts
  <2>3. e' = e /\ Cardinality(InEpic(e)') <= Cardinality(InEpic(e)) /\ Cardinality(InEpic(e)') \in Nat
    BY <1>3, <2>1
  <2> QED
    BY <2>2, <2>3, AdmissionAssumption
<1>5. \A i \in InProgress' : Cardinality(InEpic(backlog[i].epic)') <= MaxWipPerEpic
  <2> SUFFICES ASSUME NEW i \in InProgress' PROVE Cardinality(InEpic(backlog[i].epic)') <= MaxWipPerEpic
    OBVIOUS
  <2>1. i \in InProgress /\ backlog'[i] = backlog[i]
    OBVIOUS
  <2> DEFINE e == backlog[i].epic
  <2>2. Cardinality(InEpic(e)) <= MaxWipPerEpic /\ Cardinality(InEpic(e)) \in Nat
    BY <1>1, <2>1, Counts
  <2>3. e' = e /\ Cardinality(InEpic(e)') <= Cardinality(InEpic(e)) /\ Cardinality(InEpic(e)') \in Nat
    BY <1>3, <2>1
  <2> QED
    BY <2>2, <2>3, AdmissionAssumption
<1>6. ASSUME NEW i \in offer' PROVE NoOverlap(backlog[i])'
  <2>1. i \in offer /\ backlog'[i] = backlog[i] /\ NoOverlap(backlog[i])
    BY <1>1
  <2>2. RunningStories' \subseteq RunningStories
    BY DEF RunningStories
  <2>3. InProgress = {} => InProgress' = {}
    OBVIOUS
  <2>4. Queued(backlog[i], RunningStories') => Queued(backlog[i], RunningStories)
    BY <2>2, QueuedShrinks
  <2> QED
    BY <2>1, <2>3, <2>4 DEF NoOverlap
<1>7. ASSUME NEW j \in DOMAIN running', NEW k \in DOMAIN running', j < k
      PROVE  InOrder(backlog'[running'[j]], backlog'[running'[k]])
  <2>1. running'[j] \in InProgress' /\ running'[k] \in InProgress'
    BY DEF InProgress
  <2> QED
    BY <1>1, <1>7, <2>1
<1> QED
  BY <1>1, <1>4, <1>5, <1>6, <1>7

LEMMA CarefulStep ==
  ASSUME RunningInv, CarefulInv, Kinds
  PROVE  CarefulInv'
<1>1. ASSUME NEW new \in Fresh, Grow(new) PROVE CarefulInv'
  <2>1. /\ RunningInv' /\ InProgress' = InProgress /\ InProgress \subseteq Stories
        /\ \A i \in Stories : i \in Stories' /\ backlog'[i] = backlog[i]
        /\ \A i \in Stories' \ Stories : backlog'[i].status = "todo"
        /\ offer' \subseteq offer /\ offer \subseteq Stories /\ running' = running /\ careful' = careful
    BY <1>1, GrowRunning DEF Grow, RunningInv
  <2>2. Started' = Started
    BY <2>1 DEF Started
  <2> QED
    BY <2>1, <2>2, Room
<1>2. ASSUME NEW k \in DOMAIN running, NEW status \in {"done", "blocked"}, EndStory(k, status)
      PROVE  CarefulInv'
  <2> DEFINE i == running[k]
  <2>1. i \in Stories /\ backlog[i].status = "in_progress" /\ offer \subseteq Stories
        /\ \A j \in offer : backlog[j].status = "todo"
    BY DEF RunningInv
  <2>2. /\ Stories' = Stories /\ backlog'[i].status = status
        /\ \A j \in Stories : j # i => backlog'[j] = backlog[j]
        /\ offer' = offer /\ careful' = careful
    BY <1>2, <2>1, AfterStatus DEF EndStory, RunningInv
  <2>3. /\ RunningInv' /\ InProgress' = InProgress \ {i} /\ InProgress \subseteq Stories
        /\ \A l \in DOMAIN running' : \A m \in DOMAIN running' : l < m =>
             \E l2 \in DOMAIN running : \E m2 \in DOMAIN running :
               l2 < m2 /\ running'[l] = running[l2] /\ running'[m] = running[m2]
    BY <1>2, EndRunning
  <2> HIDE DEF i
  <2>4. Started' = Started
    BY <2>1, <2>2 DEF Started
  <2>5. \A j \in InProgress' \cup offer : backlog'[j] = backlog[j]
    BY <2>1, <2>2, <2>3
  <2> QED
    BY <2>2, <2>3, <2>4, <2>5, Room
<1>3. CASE SelectAdmissible
  <2>1. UNCHANGED <<backlog, running, careful>>
    BY <1>3 DEF SelectAdmissible
  <2>2. UNCHANGED <<Started, InProgress, Stories>>
    BY <2>1 DEF Started, InProgress, Stories
  <2>3. \A e : InEpic(e)' = InEpic(e)
    BY <2>1, <2>2 DEF InEpic
  <2>4. \A i \in offer' : i \in Stories /\ Admitted(i)
    BY <1>3 DEF SelectAdmissible
  <2>5. \A i \in offer' : /\ Cardinality(InEpic(backlog[i].epic)) < MaxWipPerEpic
                          /\ NoOverlap(backlog[i]) /\ Cardinality(Started) < IterationBudget
    BY <2>4 DEF Admitted, WithinWip, WithinBudget, IterationsUsed, Started, InEpic
  <2>6. \A i \in offer' : NoOverlap(backlog[i])' = NoOverlap(backlog[i])
    BY <2>1, <2>2 DEF NoOverlap, RunningStories
  <2> QED
    BY <2>1, <2>2, <2>3, <2>5, <2>6 DEF CarefulInv
<1>4. ASSUME NEW i \in Stories, StartStory(i), careful PROVE CarefulInv'
  <2>1. /\ Stories' = Stories /\ backlog'[i].status = "in_progress"
        /\ \A j \in Stories : j # i => backlog'[j] = backlog[j]
        /\ \A j \in Stories : /\ backlog'[j].id = backlog[j].id /\ backlog'[j].epic = backlog[j].epic
                               /\ backlog'[j].area = backlog[j].area
                               /\ backlog'[j].class = backlog[j].class
        /\ i \in offer /\ offer' = {} /\ careful' = careful /\ backlog[i].status = "todo"
    BY <1>4, AfterStatus DEF StartStory, RunningInv, Kept
  <2>2. /\ RunningInv' /\ InProgress' = InProgress \cup {i} /\ i \notin InProgress
        /\ InProgress \subseteq Stories
        /\ Len(running') = Len(running) + 1 /\ running'[Len(running')] = i
        /\ \A k \in DOMAIN running : k \in DOMAIN running' /\ running'[k] = running[k]
    BY <1>4, StartRunning
  <2>3. /\ Cardinality(Started) < IterationBudget
        /\ Cardinality(InEpic(backlog[i].epic)) < MaxWipPerEpic /\ NoOverlap(backlog[i])
        /\ \A j \in InProgress : Cardinality(InEpic(backlog[j].epic)) <= MaxWipPerEpic
        /\ \A j \in DOMAIN running : \A k \in DOMAIN running :
             j < k => InOrder(backlog[running[j]], backlog[running[k]])
    BY <1>4, <2>1 DEF CarefulInv
  <2>4. Cardinality(Started') <= IterationBudget
    <3>1. Started' = Started \cup {i} /\ i \notin Started
      BY <2>1 DEF Started
    <3>2. Cardinality(Started') = Cardinality(Started) + 1 /\ Cardinality(Started) \in Nat
      BY <3>1, Counts, FS_AddElement
    <3> QED
      BY <2>3, <3>2, AdmissionAssumption
  <2>5. ASSUME NEW j \in InProgress'
        PROVE  Cardinality(InEpic(backlog[j].epic)') <= MaxWipPerEpic
    <3>0. PICK e : e = backlog[j].epic
      OBVIOUS
    <3>1. backlog'[j].epic = e /\ j \in Stories
      BY <2>1, <2>2, <3>0
    <3>2. CASE e = backlog[i].epic
      <4>1. InEpic(e)' = InEpic(e) \cup {i} /\ i \notin InEpic(e)
        BY <2>1, <2>2, <3>0, <3>2 DEF InEpic
      <4>2. Cardinality(InEpic(e)') = Cardinality(InEpic(e)) + 1 /\ Cardinality(InEpic(e)) \in Nat
        BY <4>1, Counts, FS_AddElement
      <4> QED
        BY <2>3, <3>1, <3>2, <4>2, AdmissionAssumption
    <3>3. CASE e # backlog[i].epic
      <4>1. InEpic(e)' = InEpic(e) /\ j \in InProgress
        BY <2>1, <2>2, <3>0, <3>3 DEF InEpic
      <4> QED
        BY <2>3, <3>0, <3>1, <4>1
    <3> QED
      BY <3>2, <3>3
  <2>6. ASSUME NEW j \in DOMAIN running', NEW k \in DOMAIN running', j < k
        PROVE  InOrder(backlog'[running'[j]], backlog'[running'[k]])
    <3> DEFINE earlier == backlog[running[j]]
    <3>0. /\ running \in Seq(Stories) /\ running' \in Seq(Stories) /\ Len(running) \in Nat
          /\ backlog \in Seq(StoryRecord)
      BY <2>1, <2>2 DEF RunningInv
    <3>1. j \in DOMAIN running /\ (k \in DOMAIN running \/ k = Len(running'))
      BY <2>2, <2>6, <3>0
    <3>2. ASSUME NEW a \in Stories, NEW b \in Stories, InOrder(backlog[a], backlog[b])
          PROVE  InOrder(backlog'[a], backlog'[b])
      BY <2>1, <3>2 DEF InOrder, Overlap
    <3>3. running[j] \in Stories /\ running'[j] = running[j] /\ running[j] \in InProgress
      BY <2>2, <3>0, <3>1 DEF InProgress
    <3>4. CASE k \in DOMAIN running
      <4>1. running[k] \in Stories /\ running'[k] = running[k]
        BY <2>2, <3>0, <3>4
      <4> QED
        BY <2>3, <2>6, <3>1, <3>2, <3>3, <3>4, <4>1
    <3>5. CASE k = Len(running')
      <4>1. running'[k] = i /\ earlier \in RunningStories
        BY <2>2, <3>3, <3>5 DEF RunningStories
      <4>2. ~Queued(backlog[i], RunningStories)
        BY <2>3, <3>3 DEF NoOverlap
      <4>3. earlier \in StoryRecord /\ backlog[i] \in StoryRecord
        BY <3>0, <3>3 DEF Stories
      <4>4. InOrder(earlier, backlog[i])
        BY <4>1, <4>2, <4>3, QueuedOrder
      <4> QED
        BY <3>2, <3>3, <4>1, <4>4
    <3> QED
      BY <3>1, <3>4, <3>5
  <2> QED
    BY <2>1, <2>4, <2>5, <2>6 DEF CarefulInv
<1>5. ASSUME NEW i \in Stories, StartStory(i) PROVE CarefulInv'
  <2>1. careful' = careful
    BY <1>5 DEF StartStory
  <2>2. CASE careful
    BY <1>4, <1>5, <2>2
  <2>3. CASE ~careful
    BY <2>1, <2>3 DEF CarefulInv
  <2> QED
    BY <2>2, <2>3
<1> QED
  BY <1>1, <1>2, <1>3, <1>5 DEF Kinds, Starts, Ends

-----------------------------------------------------------------------------
(* The backlog stays a graph that the sort gets through.                   *)

LEMMA LinkedConcat ==
  ASSUME RunningInv, Linked(backlog), NEW new \in Fresh, Linked(new), backlog' = backlog \o new
  PROVE  Linked(backlog')
<1>1. /\ Stories \subseteq Stories'
      /\ \A i \in Stories : backlog'[i] = backlog[i]
      /\ \A i \in Stories' \ Stories :
           i - Len(backlog) \in DOMAIN new /\ backlog'[i] = new[i - Len(backlog)]
  BY AfterAdd DEF RunningInv
<1>2. \A k \in DOMAIN new : k + Len(backlog) \in Stories' /\ backlog'[k + Len(backlog)] = new[k]
  <2>1. backlog \in Seq(StoryRecord) /\ new \in Seq(StoryRecord)
    BY DEF RunningInv, Fresh
  <2> QED
    BY <2>1 DEF Stories
<1>3. IdsOf(backlog) \subseteq IdsOf(backlog') /\ IdsOf(new) \subseteq IdsOf(backlog')
  <2>1. IdsOf(backlog) \subseteq IdsOf(backlog')
    BY <1>1 DEF IdsOf, Stories
  <2>2. IdsOf(new) \subseteq IdsOf(backlog')
    BY <1>2 DEF IdsOf, Stories
  <2> QED
    BY <2>1, <2>2
<1> SUFFICES ASSUME NEW i \in Stories', NEW d \in backlog'[i].deps
             PROVE  d \in IdsOf(backlog') /\ d < backlog'[i].id
  BY DEF Linked, Stories
<1>4. CASE i \in Stories
  BY <1>1, <1>3, <1>4 DEF Linked, Stories
<1>5. CASE i \notin Stories
  BY <1>1, <1>3, <1>5 DEF Linked
<1> QED
  BY <1>4, <1>5

LEMMA LinkedStep ==
  ASSUME RunningInv, Linked(backlog), Kinds
  PROVE  Linked(backlog')
<1>1. ASSUME NEW i \in Stories, NEW status \in {"todo", "in_progress", "done", "blocked"},
             SetStatus(i, status)
      PROVE  Linked(backlog')
  <2>1. /\ Stories' = Stories
        /\ \A j \in Stories : backlog'[j].id = backlog[j].id /\ backlog'[j].deps = backlog[j].deps
    BY <1>1, AfterStatus DEF RunningInv
  <2>2. IdsOf(backlog') = IdsOf(backlog)
    BY <2>1 DEF IdsOf, Stories
  <2> QED
    BY <2>1, <2>2 DEF Linked, Stories
<1>2. ASSUME NEW new \in Fresh, Grow(new) PROVE Linked(backlog')
  BY <1>2, LinkedConcat DEF Grow
<1>3. CASE SelectAdmissible
  BY <1>3 DEF SelectAdmissible
<1>4. ASSUME NEW i \in Stories, StartStory(i) PROVE Linked(backlog')
  BY <1>1, <1>4 DEF StartStory
<1>5. ASSUME NEW k \in DOMAIN running, NEW status \in {"done", "blocked"}, EndStory(k, status)
      PROVE  Linked(backlog')
  <2>1. running[k] \in Stories
    BY DEF RunningInv
  <2> QED
    BY <1>1, <1>5, <2>1 DEF EndStory
<1> QED
  BY <1>2, <1>3, <1>4, <1>5 DEF Kinds, Starts, Ends

LEMMA BacklogGraph ==
  ASSUME RunningInv, PlanInv, Linked(backlog)
  PROVE  Graph(backlog)
<1>1. /\ backlog \in Seq(StoryRecord) /\ Len(backlog) \in Nat /\ DOMAIN backlog = 1..Len(backlog)
      /\ \A i \in DOMAIN backlog : backlog[i] \in StoryRecord
  BY DEF RunningInv
<1>2. \A id : Planned(id) => Single(backlog, id)
  BY DEF PlanInv, PlannedOnce, Single
<1>3. ASSUME NEW i \in DOMAIN backlog, NEW d \in backlog[i].deps
      PROVE  Planned(d) /\ Planned(backlog[i].id) /\ d \in IdsOf(backlog) /\ d < backlog[i].id
  <2>1. Planned(d) /\ d \in IdsOf(backlog) /\ d < backlog[i].id
    BY DEF PlanInv, Linked, Stories
  <2>2. backlog[i].id \in Nat /\ d \in Nat
    BY <1>1 DEF StoryRecord
  <2> QED
    BY <2>1, <2>2 DEF Planned
<1>4. \A i \in DOMAIN backlog : backlog[i].id \in Nat
  BY <1>1 DEF StoryRecord
<1> QED
  BY <1>1, <1>2, <1>3, <1>4 DEF Graph

LEMMA GraphValid ==
  ASSUME RunningInv, PlanInv, Linked(backlog)
  PROVE  BacklogValid
<1> DEFINE order == TopologicalSort(backlog)
<1>1. Graph(backlog)
  BY BacklogGraph
<1>2. /\ Len(order) = Len(backlog)
      /\ \A i, j \in DOMAIN order :
           (\E s \in DOMAIN backlog : backlog[s].id = order[j] /\ order[i] \in backlog[s].deps)
             => i < j
  BY <1>1, KahnSorts
<1> HIDE DEF order
<1>3. LinksSound(backlog)
  <2>1. ASSUME NEW i \in DOMAIN backlog
        PROVE  backlog[i].id \notin backlog[i].deps /\ backlog[i].deps \subseteq IdsOf(backlog)
    <3>1. backlog[i].id \in Nat /\ \A d \in backlog[i].deps : d \in IdsOf(backlog) /\ d < backlog[i].id
      BY <1>1 DEF Graph
    <3> QED
      BY <3>1
  <2> QED
    BY <2>1 DEF LinksSound
<1>4. ValidateStoryGraph(backlog)
  BY <1>2, <1>3 DEF ValidateStoryGraph, order
<1>5. \A i \in Stories, j \in Stories :
        backlog[i].id = backlog[j].id /\ Planned(backlog[i].id) => i = j
  BY DEF PlanInv, PlannedOnce, Stories
<1>6. \A i \in DOMAIN order, j \in DOMAIN order :
        (\E s \in Stories : backlog[s].id = order[j] /\ order[i] \in backlog[s].deps) => i < j
  BY <1>2 DEF Stories
<1> QED
  BY <1>4, <1>5, <1>6 DEF BacklogValid, order

-----------------------------------------------------------------------------
(* What is started has what it waits for, and a caller that selects again  *)
(* after each start stays within every limit: by the five invariants.      *)
AdmissionInv == RunningInv /\ PlanInv /\ DepsInv /\ CarefulInv /\ Linked(backlog)

LEMMA AdmissionInit == Init => AdmissionInv
<1> SUFFICES ASSUME Init PROVE AdmissionInv
  OBVIOUS
<1> DEFINE none == <<>>
<1>1. /\ none \in Seq(StoryRecord) /\ none \in Seq(Stories) /\ DOMAIN none = {} /\ Len(none) = 0
  OBVIOUS
<1> HIDE DEF none
<1>2. backlog = none /\ running = none /\ delta = none /\ offer = {} /\ showcases = 0 /\ careful \in BOOLEAN
      /\ stage = "idea"
  BY DEF Init, none
<1>3. Stories = {} /\ InProgress = {} /\ Started = {} /\ AddedCount = 0
  BY <1>1, <1>2, FS_EmptySet DEF Stories, InProgress, Started, AddedCount
<1>4. RunningInv
  BY <1>1, <1>2, <1>3 DEF RunningInv
<1>5. idea \in [mode : STRING, says : SUBSET Decisions, nonGoals : BOOLEAN,
                components : Nat, web : BOOLEAN, clean : BOOLEAN, added : 0..99]
  <2>1. idea \in Ideas /\ idea.added <= 99
    BY IdsAssumption DEF Init
  <2>2. idea \in [mode : STRING, says : SUBSET Decisions, nonGoals : BOOLEAN,
                  components : Nat, web : BOOLEAN, clean : BOOLEAN, added : Nat]
    BY <2>1, IdeasAssumption
  <2>3. idea.added \in 0..99
    BY <2>1, <2>2
  <2> QED
    BY <2>2, <2>3
<1>6. none \in Fresh /\ Unplanned(none) /\ PlannedOnce(none) /\ Linked(none)
  BY <1>1 DEF Fresh, Unplanned, PlannedOnce, Linked
<1>7. idea.added \in 0..99
  BY <1>5
<1>8. PlanInv
  <2>1. delta \in Fresh /\ Unplanned(delta) /\ Linked(delta) /\ Len(delta) <= 1
    BY <1>1, <1>2, <1>6
  <2>2. showcases \in Nat /\ showcases <= AddedCount /\ AddedCount + Len(delta) <= idea.added
    <3>1. showcases = 0 /\ AddedCount = 0 /\ Len(delta) = 0 /\ 0 <= idea.added
      <4>1. 0 <= idea.added
        BY <1>7
      <4>2. showcases = 0 /\ Len(delta) = 0
        BY <1>1, <1>2
      <4> QED
        BY <1>3, <4>1, <4>2
    <3> QED
      BY <3>1
  <2>3. Unplanned(backlog) /\ PlannedOnce(backlog)
    BY <1>2, <1>6
  <2>4. \A i \in Stories : \A d \in backlog[i].deps : Planned(d)
    BY <1>3
  <2> QED
    BY <1>5, <2>1, <2>2, <2>3, <2>4 DEF PlanInv
<1>9. CarefulInv /\ DepsInv
  BY <1>1, <1>2, <1>3, FS_EmptySet, AdmissionAssumption DEF CarefulInv, DepsInv
<1>10. Linked(backlog)
  BY <1>2, <1>6
<1> QED
  BY <1>4, <1>8, <1>9, <1>10 DEF AdmissionInv

LEMMA AdmissionNext == AdmissionInv /\ [Next]_vars => AdmissionInv'
<1> SUFFICES ASSUME AdmissionInv, [Next]_vars PROVE AdmissionInv'
  OBVIOUS
<1>1. PlanInv' /\ Kinds
  BY PlanStep DEF AdmissionInv
<1>2. RunningInv'
  BY <1>1, GrowRunning, StartRunning, EndRunning, SelectRunning
  DEF AdmissionInv, Kinds, Starts, Ends
<1>3. DepsInv'
  BY <1>1, <1>2, DepsStep DEF AdmissionInv
<1>4. CarefulInv'
  BY <1>1, CarefulStep DEF AdmissionInv
<1>5. Linked(backlog)'
  BY <1>1, LinkedStep DEF AdmissionInv
<1> QED
  BY <1>1, <1>2, <1>3, <1>4, <1>5 DEF AdmissionInv

LEMMA AdmissionKept == AdmissionInv => AdmissionSound
<1> SUFFICES ASSUME AdmissionInv PROVE AdmissionSound
  OBVIOUS
<1>1. IterationsUsed = Cardinality(Started)
  BY DEF IterationsUsed, Started
<1>2. \A i : InEpic(backlog[i].epic) = {j \in InProgress : backlog[j].epic = backlog[i].epic}
  BY DEF InEpic
<1> QED
  BY <1>1, <1>2 DEF AdmissionInv, AdmissionSound, DepsInv, CarefulInv, InOrder

(* Nothing is started before what it waits for is done; and a caller that  *)
(* starts one story of each selection keeps the budget and every epic's    *)
(* limit, starts exclusive stories alone, and of two stories that share    *)
(* files never starts the one whose id sorts last beside the other.        *)
THEOREM Admissions == Spec => []AdmissionSound
<1>1. AdmissionInv /\ [Next]_vars => AdmissionInv'
  BY AdmissionNext
<1> QED
  BY <1>1, AdmissionInit, AdmissionKept, PTL DEF Spec

(* Whatever is added when and started when, the backlog is a graph that    *)
(* the sort gets through: every story waits for lesser planned ids of the  *)
(* backlog, and planned ids come once, so that a story whose degree counts *)
(* what it still waits for is queued exactly once, after all of it.        *)
THEOREM Sortable == Spec => []BacklogValid
<1>1. AdmissionInv /\ [Next]_vars => AdmissionInv'
  BY AdmissionNext
<1>2. AdmissionInv => BacklogValid
  BY GraphValid DEF AdmissionInv
<1> QED
  BY <1>1, <1>2, AdmissionInit, PTL DEF Spec

(* No added story ever takes the id of a planned one, and planned stories  *)
(* come once: this is what lets a map by id find what a story waits for.   *)
THEOREM PlannedIds == Spec => []PlannedOnce(backlog)
<1>1. AdmissionInv /\ [Next]_vars => AdmissionInv'
  BY AdmissionNext
<1>2. AdmissionInv => PlannedOnce(backlog)
  BY DEF AdmissionInv, PlanInv
<1> QED
  BY <1>1, <1>2, AdmissionInit, PTL DEF Spec
=============================================================================
