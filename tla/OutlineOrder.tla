---------------------------- MODULE OutlineOrder ----------------------------
(***************************************************************************)
(* What the manuscript's outline promises, whatever numbers it keeps: a    *)
(* forest of parts and scenes in which the nodes under one parent stand in *)
(* one order.  A step adds a node, takes a node and what is below it away, *)
(* or puts one node in another place, and the others keep the order they   *)
(* had; or it brings back an outline that was kept earlier on.             *)
(***************************************************************************)
CONSTANTS Nodes, Root

VARIABLES
    parent,  \* the nodes there are, and what each stands under
    ahead,   \* the pairs of siblings whose first stands before the second
    past     \* the outlines that may be brought back

vars == <<parent, ahead, past>>

\* No nodes hang under one another in a ring.
Rooted(p) ==
    /\ \A n \in DOMAIN p : p[n] \in DOMAIN p \cup {Root}
    /\ \A S \in SUBSET DOMAIN p : (\A n \in S : p[n] \in S) => S = {}

\* The nodes under one parent stand in one order.
InLine(p, a) ==
    /\ a \subseteq (DOMAIN p) \X (DOMAIN p)
    /\ \A x \in a : x[1] # x[2] /\ p[x[1]] = p[x[2]]
    /\ \A m, n \in DOMAIN p :
          m # n /\ p[m] = p[n] => (<<m, n>> \in a <=> <<n, m>> \notin a)
    /\ \A k, m, n \in DOMAIN p : <<k, m>> \in a /\ <<m, n>> \in a => <<k, n>> \in a

Outline(p, a) == Rooted(p) /\ InLine(p, a)

Among(a, S) == {x \in a : x[1] \in S /\ x[2] \in S}

Init == Outline(parent, ahead) /\ past = {}

Add ==
    /\ \E n \in Nodes \ DOMAIN parent :
          /\ DOMAIN parent' = DOMAIN parent \cup {n}
          /\ Among(ahead', DOMAIN parent) = ahead
    /\ \A m \in DOMAIN parent : parent'[m] = parent[m]
    /\ Outline(parent', ahead')
    /\ past' = past

\* What is left holds every node whose parent is left.
Remove ==
    /\ \E S \in SUBSET DOMAIN parent :
          /\ \A m \in DOMAIN parent : parent[m] \notin S \/ m \in S
          /\ parent' = [m \in DOMAIN parent \ S |-> parent[m]]
          /\ ahead' = Among(ahead, DOMAIN parent \ S)
    /\ past' = past

Move ==
    /\ DOMAIN parent' = DOMAIN parent
    /\ \E n \in DOMAIN parent :
          /\ \A m \in DOMAIN parent \ {n} : parent'[m] = parent[m]
          /\ Among(ahead', DOMAIN parent \ {n}) = Among(ahead, DOMAIN parent \ {n})
    /\ Outline(parent', ahead')
    /\ past' = past

Keep == past' \subseteq past \cup {<<parent, ahead>>} /\ UNCHANGED <<parent, ahead>>

\* What was brought back may be forgotten, and so may anything else.
BringBack == <<parent', ahead'>> \in past /\ past' \subseteq past

Next == Keep \/ Add \/ Move \/ BringBack \/ Remove

Spec == Init /\ [][Next]_vars
=============================================================================
