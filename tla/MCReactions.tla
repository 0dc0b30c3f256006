---------------------------- MODULE MCReactions ----------------------------
(* Instances of Reactions for TLC. *)
EXTENDS Reactions

CONSTANTS v1, v2, p1, p2, q1, q2

Symmetric == Permutations(Visitors) \cup Permutations(Requests)

\* Bodies of one like or one clear.
Taps == {<<[product |-> p1, reaction |-> x]>> : x \in Reaction}

\* A flush of two products, next to single taps on the first.
Flushes == Taps \cup {<<[product |-> p1, reaction |-> "like"], [product |-> p2, reaction |-> "like"]>>}

NoLimits == [k \in {} |-> 1]
BatchLimits == [k \in {"visitor", "global"} |-> IF k = "global" THEN 2 ELSE 1]
BatchWindows == [k \in {"visitor", "global"} |-> IF k = "global" THEN 2 ELSE 1]
OnePerWindow == [k \in {"global"} |-> 1]
GlobalKey == {<<"global">>}
=============================================================================
