---------------------------- MODULE MCScheduler ----------------------------
(* Bounds for TLC: three stories, so that a batch of two can overshoot the *)
(* budget and a chain of overlaps can join two stories that do not overlap *)
(* themselves; every overlap relation, every assignment of classes, and    *)
(* the shapes of dependency: none, one, a fork, a join.  Two files, of     *)
(* which a workspace may hold one that another edited.                     *)
EXTENDS Integration, TLC

CONSTANTS s1, s2, s3

MCRank == (s1 :> 1) @@ (s2 :> 2) @@ (s3 :> 3)
MCSelectRank == (s1 :> 2) @@ (s2 :> 3) @@ (s3 :> 1)
MCBacklogs == {
  (s1 :> {}) @@ (s2 :> {}) @@ (s3 :> {}),
  (s1 :> {s3}) @@ (s2 :> {}) @@ (s3 :> {}),
  (s1 :> {}) @@ (s2 :> {s1}) @@ (s3 :> {s1}),
  (s1 :> {}) @@ (s2 :> {}) @@ (s3 :> {s1, s2})}
=============================================================================
