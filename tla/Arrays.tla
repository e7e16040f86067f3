------------------------------- MODULE Arrays -------------------------------
(***************************************************************************)
(* Operations on arrays, as recursive functions.                           *)
(***************************************************************************)
LOCAL INSTANCE Integers
LOCAL INSTANCE Sequences

(* What is in a sequence at the places P, in its order.                    *)
Picked(s, P) ==
  LET kept[n \in 0..Len(s)] ==
        IF n = 0 THEN <<>>
        ELSE IF n \in P THEN Append(kept[n - 1], s[n]) ELSE kept[n - 1]
  IN  kept[Len(s)]

(* Array.prototype.filter: the elements that are in S.                     *)
Select(s, S) == Picked(s, {n \in DOMAIN s : s[n] \in S})

(* Array.prototype.reduce: step is a function of what there is so far and  *)
(* the next element.                                                       *)
Reduce(s, base, step) ==
  LET sofar[n \in 0..Len(s)] == IF n = 0 THEN base ELSE step[sofar[n - 1], s[n]]
  IN  sofar[Len(s)]

(* Array.prototype.reduce with +, over numbers.                            *)
Total(s) == Reduce(s, 0, [x \in Nat \X Nat |-> x[1] + x[2]])
=============================================================================
