------------------------------ MODULE MCPublish ------------------------------
(* The works and the sites the check begins with. *)
EXTENDS Publish, TLC

CONSTANTS c1, c2, x, y, z

Symmetry == Permutations(Calls)


\* An outline of some of the episodes and any order on the site, which so may have
\* episodes that are not here any more.  (The episodes differ in nothing else.)
SomeOutlines == {<<x>>, <<x, y>>}
SomeOrders   == UNION {{s \in [1..n -> Episodes] : IsInjective(s)} : n \in 0..3}

\* One episode, on the site already.
OneOutline == {<<x>>}
=============================================================================
