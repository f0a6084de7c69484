------------------------------ MODULE MCEngine ------------------------------
(* A small instance of each of the components of Engine. What x and y name,    *)
(* and what a and b do, is another thing in each of them; in none of them does *)
(* anything tell x from y, or a from b.                                        *)
EXTENDS Engine, TLC

CONSTANTS x, y, a, b, s1

MCOpens == << {1, 2}, {3, 4} >>

Symmetry == Permutations({x, y}) \cup Permutations({a, b})

(* Two forecasts and one change of a canon, or one and two; and once there are *)
(* both checks, one decision under way.                                        *)
Bounds ==
    /\ part = "plans" => made + edits <= 3
    /\ part = "checks" /\ made = 2 => \E c \in Callers : call[c] = Checks!Idle
=============================================================================
