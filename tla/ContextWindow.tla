--------------------------- MODULE ContextWindow ---------------------------
(***************************************************************************)
(* The compaction of an agent's context window (context-manager): turns    *)
(* are said, and the window is compacted in two levels and cut to a        *)
(* sliding window, over and over.  A turn's content is a sequence of       *)
(* pieces: how long each is, and whether it is of a denied kind (another   *)
(* agent's reasoning) with the words that tell so at its head or late in   *)
(* it.  Cutting a piece short loses a late mark.                           *)
(***************************************************************************)
EXTENDS Integers, Sequences, FiniteSets, Arrays

CONSTANTS
  NodeThreshold,   \* level1NodeTokenThreshold
  ChainThreshold,  \* level2ChainTokenThreshold
  KeepFirst,       \* keepFirstTurns
  KeepLast,        \* keepLastTurns
  RateFloor,       \* compressionRateFloor, in percent
  SlidingMax,      \* slidingWindowMaxTurns
  Pieces,          \* what a turn may be about
  SectionLength,   \* the length of the pinned section
  MaxTurns,        \* bound of the model: turns said
  MaxCompactions   \* bound of the model: compactions

ASSUME WindowAssumption ==
  /\ {NodeThreshold, ChainThreshold, KeepFirst, KeepLast, SlidingMax,
      SectionLength, MaxTurns, MaxCompactions} \subseteq Nat
  /\ RateFloor \in 0..100

VARIABLES
  turns,       \* the window
  said,        \* turns said, which is also the number of the last one
  compactions, \* compactions made
  lateMark     \* history: a denied turn with a late mark was said

windowVars == <<turns, said, compactions, lateMark>>

Marks == {"none", "head", "late"}
Piece == [length : Nat, denied : BOOLEAN, mark : Marks]

ASSUME PiecesAssumption == Pieces \subseteq {p \in Piece : p.denied => p.mark # "none"}

Plain(length) == [length |-> length, denied |-> FALSE, mark |-> "none"]

Larger(a, b) == IF a > b THEN a ELSE b
Length(content) == Total([i \in DOMAIN content |-> content[i].length])
Tokens(length) == (length + 3) \div 4
TotalTokens(w) == Total([i \in DOMAIN w |-> w[i].tokens])

Turn(n, content, pinned) ==
  [n |-> n, content |-> content, tokens |-> Tokens(Length(content)), pinned |-> pinned]

-----------------------------------------------------------------------------
(* content.slice(0, size).  A head cut so short that it ends within its    *)
(* own mark holds nothing but letters of the mark: it counts as marked.    *)

(* Mutant of CutPiece: the end of a text is kept, in place of its head.    *)
CutPieceFromEnd(p, size) ==
  IF p.length <= size THEN p
  ELSE [p EXCEPT !.length = size, !.mark = IF @ = "head" THEN "none" ELSE @]

CutPiece(p, size) ==
  IF p.length <= size THEN p
  ELSE [p EXCEPT !.length = size, !.mark = IF @ = "late" THEN "none" ELSE @]

(* What is left to take after a piece, and what is taken with it.          *)
Take(slice, p) ==
  IF slice.left = 0 THEN slice
  ELSE [left |-> IF p.length <= slice.left THEN slice.left - p.length ELSE 0,
        taken |-> Append(slice.taken, CutPiece(p, slice.left))]

Slice(content, size) ==
  LET slice[n \in 0..Len(content)] ==
        IF n = 0 THEN [left |-> size, taken |-> <<>>] ELSE Take(slice[n - 1], content[n])
  IN  slice[Len(content)].taken

AtRate(length) == (length * RateFloor) \div 100

SummarizeTurn(t) ==
  LET kept == Slice(t.content, Larger(50, AtRate(Length(t.content))))
  IN Turn(t.n, Append(kept, Plain(12)), FALSE)

(* Texts joined by a space.                                                *)
Spaced(c) == IF c = <<>> THEN c ELSE [c EXCEPT ![Len(c)].length = @ + 1]

Joined(w) ==
  LET text[n \in 0..Len(w)] ==
        IF n = 0 THEN <<>> ELSE Spaced(text[n - 1]) \o w[n].content
  IN  text[Len(w)]

(* The tokens are those of the target length, reached or not.              *)
MergeAndSummarize(w) ==
  LET text == Joined(w)
      target == Larger(100, AtRate(Length(text)))
  IN IF w = <<>> THEN <<>>
     ELSE <<[n |-> 0, content |-> Append(Slice(text, target), Plain(18)),
             tokens |-> Tokens(target + 18), pinned |-> FALSE]>>

Pinned(w) == Picked(w, {i \in DOMAIN w : w[i].pinned})
Unpinned(w) == Picked(w, {i \in DOMAIN w : ~w[i].pinned})

-----------------------------------------------------------------------------
(* Level 1.                                                                *)

AtEdge(i, size) == i <= KeepFirst \/ i > size - KeepLast

CompressLargeNodes(w, threshold) ==
  [i \in DOMAIN w |->
     IF w[i].pinned THEN w[i]
     ELSE IF AtEdge(i, Len(w)) THEN [w[i] EXCEPT !.pinned = TRUE]
     ELSE IF w[i].tokens > threshold THEN SummarizeTurn(w[i]) ELSE w[i]]

(* Level 2: what is pinned moves before the summary of all the rest.       *)
CompressChain(w) == Pinned(w) \o MergeAndSummarize(Unpinned(w))

Crowded(w) == TotalTokens(w) > ChainThreshold

(* The oldest turns that are not pinned are dropped.                       *)
ApplySlidingWindow(w) ==
  LET excess == Len(Unpinned(w)) - SlidingMax
      index(i) == Cardinality({j \in 1..i : ~w[j].pinned})
  IN  IF excess <= 0 THEN w
      ELSE Picked(w, {i \in DOMAIN w : w[i].pinned \/ index(i) > excess})

CompactContextWindow(w) ==
  LET level1 == CompressLargeNodes(w, NodeThreshold)
      level2 == IF Crowded(level1) THEN CompressChain(level1) ELSE level1
  IN ApplySlidingWindow(level2)

-----------------------------------------------------------------------------
WindowInit ==
  /\ turns = <<>> /\ said = 0 /\ compactions = 0 /\ lateMark = FALSE

Say(p) ==
  /\ said < MaxTurns
  /\ said' = said + 1
  /\ turns' = Append(turns, Turn(said', <<p>>, FALSE))
  /\ lateMark' = (lateMark \/ p.mark = "late")
  /\ UNCHANGED compactions

(* With a pinned section, a new copy of it is put in front.                *)
Compact(section) ==
  /\ compactions < MaxCompactions
  /\ compactions' = compactions + 1
  /\ turns' = CompactContextWindow(
                (IF section THEN <<Turn(0, <<Plain(SectionLength)>>, TRUE)>> ELSE <<>>) \o turns)
  /\ UNCHANGED <<said, lateMark>>

WindowNext == \E p \in Pieces : Say(p) \/ \E section \in BOOLEAN : Compact(section)

WindowSpec == WindowInit /\ [][WindowNext]_windowVars

-----------------------------------------------------------------------------
(* detectPhase of a window, and the strategy it is mapped to.              *)
TrajectoryPhase ==
  IF Len(Pinned(turns)) >= KeepLast THEN "terminal"
  ELSE IF 2 * TotalTokens(turns) < ChainThreshold THEN "search" ELSE "stuck"

PickStrategy(phase) ==
  [search |-> "keep_last_n", terminal |-> "summarize_chain", stuck |-> "aggressive_discard"][phase]

(* injectOwnPreviousStorySummary: turns with a mark are left out, and all  *)
(* others are summarized, whatever their size.                             *)
Marked(t) == \E i \in DOMAIN t.content : t.content[i].mark # "none"

OwnSummary ==
  LET clean == Picked(turns, {i \in DOMAIN turns : ~Marked(turns[i])})
  IN Joined([i \in DOMAIN clean |->
               IF clean[i].pinned \/ clean[i].tokens = 0 THEN clean[i] ELSE SummarizeTurn(clean[i])])

-----------------------------------------------------------------------------
(* Properties.                                                             *)

(* Type invariant: only merged turns and sections have no number, and the  *)
(* turns that have one are in the order they were said.                    *)
WindowTypeOK ==
  /\ said \in 0..MaxTurns /\ compactions \in 0..MaxCompactions
  /\ lateMark \in BOOLEAN
  /\ \A i \in DOMAIN turns :
       /\ turns[i].n \in 0..said /\ turns[i].pinned \in BOOLEAN /\ turns[i].tokens \in Nat
       /\ \A k \in DOMAIN turns[i].content : turns[i].content[k].mark \in Marks
  /\ \A i, j \in DOMAIN turns :
       i < j /\ turns[i].n # 0 /\ turns[j].n # 0 => turns[i].n < turns[j].n

(* "hard cap; oldest non-pinned turns are dropped first"                   *)
(* (configs/context_manager.yaml:25): after a compaction a window holds    *)
(* the turns pinned at its two ends and at most SlidingMax others.  It is  *)
(* not so: every compaction pins the first and the last turns of that      *)
(* moment for good, and a window compacted often is never cut.             *)
HardCap ==
  [][compactions' # compactions =>
       Cardinality({i \in DOMAIN turns' : turns'[i].n # 0}) <= SlidingMax + KeepFirst + KeepLast]_windowVars

(* The summary a developer is given of its previous story holds nothing of *)
(* a denied kind, also if the window was compacted before, as long as the  *)
(* words that mark it stand at the head of a turn.                         *)
SummaryClean ==
  ~lateMark => \A i \in DOMAIN OwnSummary : ~OwnSummary[i].denied
=============================================================================
