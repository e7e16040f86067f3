----------------------------- MODULE StoryGraph -----------------------------
(***************************************************************************)
(* The graph rules of planning-steward and task-graph over a list of story *)
(* nodes: validation, topological order, and which stories a spawn plan    *)
(* queues.  An id is a number in the order the code sorts ids in; a write  *)
(* set is the set of the places it covers, so that one path is a prefix of *)
(* another exactly if the places meet.                                     *)
(***************************************************************************)
EXTENDS Naturals, Sequences, FiniteSets

IdsOf(stories) == {stories[i].id : i \in DOMAIN stories}

Overlap(s, t) == s.area \cap t.area # {}

(* Kahn's algorithm.  How many of the stories called id wait for dep.      *)
Waits(stories, id, dep) ==
  Cardinality({i \in DOMAIN stories : stories[i].id = id /\ dep \in stories[i].deps})

InDegree(stories, id) ==
  Cardinality({wait \in (DOMAIN stories) \X IdsOf(stories) :
                 stories[wait[1]].id = id /\ wait[2] \in stories[wait[1]].deps})

Sorted(ids) ==
  CHOOSE q \in [1..Cardinality(ids) -> ids] : \A i, j \in DOMAIN q : i < j => q[i] < q[j]

(* Take the head of the queue, and queue what waited for nothing else.     *)
Kahn(stories, state) ==
  IF state.queue = <<>> THEN state
  ELSE LET node == Head(state.queue)
           ready == {id \in DOMAIN state.degree :
                       state.degree[id] \in 1..Waits(stories, id, node)}
       IN [queue |-> Tail(state.queue) \o Sorted(ready),
           degree |-> [id \in DOMAIN state.degree |->
                         IF id \in ready THEN 0
                         ELSE state.degree[id] - Waits(stories, id, node)],
           order |-> Append(state.order, node)]

(* The stories that wait for nothing, one entry for each of them.          *)
Free(stories) == {i \in DOMAIN stories : InDegree(stories, stories[i].id) = 0}

Roots(stories) ==
  LET before(i, j) == \/ stories[i].id < stories[j].id
                      \/ stories[i].id = stories[j].id /\ i < j
      places == CHOOSE q \in [1..Cardinality(Free(stories)) -> Free(stories)] :
                  \A i, j \in DOMAIN q : i < j => before(q[i], q[j])
  IN [n \in DOMAIN places |-> stories[places[n]].id]

(* Every node is queued at most once after the roots.                      *)
TopologicalSort(stories) ==
  LET sorting[n \in 0..(2 * Len(stories))] ==
        IF n = 0
        THEN [queue |-> Roots(stories),
              degree |-> [id \in IdsOf(stories) |-> InDegree(stories, id)],
              order |-> <<>>]
        ELSE Kahn(stories, sorting[n - 1])
  IN sorting[2 * Len(stories)].order

(* The errors validateStoryGraph reports before it sorts.                  *)
LinksSound(stories) ==
  \A i \in DOMAIN stories :
    stories[i].id \notin stories[i].deps /\ stories[i].deps \subseteq IdsOf(stories)

ValidateStoryGraph(stories) ==
  LinksSound(stories) /\ Len(TopologicalSort(stories)) = Len(stories)

(* The component of story s among a set of others, as computeSpawnPlan     *)
(* finds it: the least set of ids closed under overlap.                    *)
Component(s, others) ==
  LET all == others \cup {s}
      Closed(C) == \A t, u \in all : Overlap(t, u) /\ t.id \in C => u.id \in C
  IN {t.id : t \in {u \in all : \A C \in SUBSET {v.id : v \in all} :
                                  s.id \in C /\ Closed(C) => u.id \in C}}

(* Exclusive stories are queued; of every other component all but the id   *)
(* that sorts first.                                                       *)
Queued(s, others) ==
  LET exclusive == {t \in others \cup {s} : t.class = "exclusive"}
      parallel == others \ exclusive
  IN \/ s.id \in {t.id : t \in exclusive}
     \/ \E id \in Component(s, parallel) : id < s.id
=============================================================================
