---------------------------- MODULE OutlineProofs ----------------------------
(***************************************************************************)
(* What Outline promises for any number of rows, batches and edits: the    *)
(* outline stays a forest in which no two siblings bear one ordinal        *)
(* (StaysWhole), whatever ordinals the engine hands out they do what       *)
(* OutlineOrder promises (OrderKept), and every variable has its type      *)
(* (Typed).  An undo of a batch that nothing came between or after puts    *)
(* everything back (UndoneAsMeant).                                        *)
(*                                                                         *)
(* First the operators on trees, each on its own: what it does to a whole  *)
(* tree is one of the three steps of OutlineOrder, and the result is whole.*)
(* Then the steps: each plants what one of them gives, or an outline that  *)
(* was kept; so the invariant (Inv) says of every kept outline what it     *)
(* says of the one there is.                                               *)
(***************************************************************************)
EXTENDS Outline, FiniteSetTheorems, WellFoundedInduction, TLAPS

-----------------------------------------------------------------------------
(* What an operator does to a tree.                                        *)

Good(t) == IsTree(t) /\ Whole(t)

\* Where a node may stand.
Places(t) == DOMAIN t \cup {Root}

\* The nodes of S stand under the parents they had, in the order they had.
Keeps(t, u, S) ==
    /\ \A m \in S : u[m].parent = t[m].parent
    /\ \A k, m \in S :
          t[k].parent = t[m].parent => (t[k].ord < t[m].ord <=> u[k].ord < u[m].ord)

Adds(t, u) ==
    \E n \in Nodes \ DOMAIN t : DOMAIN u = DOMAIN t \cup {n} /\ Keeps(t, u, DOMAIN t)
Removes(t, u) ==
    \E S \in SUBSET DOMAIN t :
        /\ \A m \in DOMAIN t : t[m].parent \notin S \/ m \in S
        /\ u = [m \in DOMAIN t \ S |-> t[m]]
Moves(t, u) ==
    /\ DOMAIN u = DOMAIN t
    /\ \E n \in DOMAIN t : Keeps(t, u, DOMAIN t \ {n})
Same(t, u) ==
    /\ DOMAIN u = DOMAIN t
    /\ \A m \in DOMAIN t : u[m].parent = t[m].parent /\ u[m].ord = t[m].ord

LEMMA RowOf ==
  ASSUME NEW t, IsTree(t), NEW n \in DOMAIN t
  PROVE  /\ n \in Nodes /\ t[n] \in Row
         /\ t[n].parent \in Nodes \cup {Root} /\ t[n].ord \in Nat /\ t[n].ord \in Int
         /\ t[n].kind \in Kinds /\ t[n].label \in Labels /\ t[n].words \in Nat
  BY DEF IsTree, Row

LEMMA RootIsNoNode == Root \notin Nodes
  BY StartAssumption DEF Root, Nodes

LEMMA NothingIsGood == Good(NoTree) /\ DOMAIN NoTree = {}
  BY DEF Good, IsTree, Whole, NoTree

\* A tree with the rows of a good one and the same places is good.
LEMMA SameIsGood ==
  ASSUME NEW t, Good(t), NEW u, IsTree(u), Same(t, u)
  PROVE  Good(u)
  BY DEF Good, Whole, Same

\* What keeps order and puts siblings apart.
LEMMA OrdersDiffer ==
  ASSUME NEW t, Good(t), NEW u, IsTree(u), NEW S \in SUBSET DOMAIN t, S \subseteq DOMAIN u,
         Keeps(t, u, S)
  PROVE  \A m, n \in S : m # n /\ u[m].parent = u[n].parent => u[m].ord # u[n].ord
  <1> SUFFICES ASSUME NEW m \in S, NEW n \in S, m # n, u[m].parent = u[n].parent
               PROVE  u[m].ord # u[n].ord
    OBVIOUS
  <1>1. t[m].parent = t[n].parent  BY DEF Keeps
  <1>2. t[m].ord # t[n].ord  BY <1>1 DEF Good, Whole
  <1>3. t[m].ord < t[n].ord \/ t[n].ord < t[m].ord  BY <1>2, RowOf DEF Good
  <1>4. u[m].ord < u[n].ord \/ u[n].ord < u[m].ord  BY <1>1, <1>3 DEF Keeps
  <1> QED  BY <1>4, RowOf

\* A node put in under p, where no sibling has its ordinal.
LEMMA AddedIsGood ==
  ASSUME NEW t, Good(t), NEW u, IsTree(u), NEW n \in Nodes \ DOMAIN t,
         DOMAIN u = DOMAIN t \cup {n}, Keeps(t, u, DOMAIN t),
         u[n].parent \in DOMAIN t \cup {Root},
         \A m \in DOMAIN t : u[m].parent = u[n].parent => u[m].ord # u[n].ord
  PROVE  Good(u) /\ Adds(t, u)
  <1>1. Adds(t, u)  BY DEF Adds
  <1>2. \A m \in DOMAIN u : u[m].parent \in DOMAIN u \cup {Root}
    BY DEF Good, Whole, Keeps
  <1>3. ASSUME NEW S \in SUBSET DOMAIN u, \A m \in S : u[m].parent \in S
        PROVE  S = {}
    <2>1. \A m \in S \ {n} : t[m].parent \in S \ {n}
      <3>1. \A m \in S \ {n} : m \in DOMAIN t /\ t[m].parent = u[m].parent  BY DEF Keeps
      <3>2. \A m \in DOMAIN t : t[m].parent # n  BY RootIsNoNode DEF Good, Whole
      <3> QED  BY <1>3, <3>1, <3>2
    <2>2. S \ {n} = {}  BY <2>1 DEF Good, Whole
    <2>3. n \notin S  BY <1>3, <2>2, RootIsNoNode
    <2> QED  BY <2>2, <2>3
  <1>4. \A m, k \in DOMAIN t : m # k /\ u[m].parent = u[k].parent => u[m].ord # u[k].ord
    BY OrdersDiffer
  <1>5. \A m, k \in DOMAIN u : m # k /\ u[m].parent = u[k].parent => u[m].ord # u[k].ord
    BY <1>4
  <1> QED  BY <1>1, <1>2, <1>3, <1>5 DEF Good, Whole

\* A node moved under p, which is not below it, where no sibling has its ordinal.
LEMMA MovedIsGood ==
  ASSUME NEW t, Good(t), NEW u, IsTree(u), NEW n \in DOMAIN t, DOMAIN u = DOMAIN t,
         Keeps(t, u, DOMAIN t \ {n}),
         u[n].parent \in DOMAIN t \cup {Root}, u[n].parent \notin Subtree(t, n),
         \A m \in DOMAIN t \ {n} : u[m].parent = u[n].parent => u[m].ord # u[n].ord
  PROVE  Good(u) /\ Moves(t, u)
  <1>1. Moves(t, u)  BY DEF Moves
  <1>2. \A m \in DOMAIN u : u[m].parent \in DOMAIN u \cup {Root}
    BY DEF Good, Whole, Keeps
  <1>3. ASSUME NEW S \in SUBSET DOMAIN u, \A m \in S : u[m].parent \in S
        PROVE  S = {}
    <2> DEFINE D == Subtree(t, n)
    <2>1. n \in D  BY DEF Subtree
    <2>2. \A m \in DOMAIN t : t[m].parent \in D => m \in D  BY DEF Subtree
    <2>3. u[n].parent \notin D  OBVIOUS
    <2> HIDE DEF D
    <2>4. \A m \in S \ D : t[m].parent \in S \ D
      BY <1>3, <2>1, <2>2 DEF Keeps
    <2>5. S \ D = {}  BY <2>4 DEF Good, Whole
    <2>6. n \notin S  BY <1>3, <2>3, <2>5
    <2>7. \A m \in S : t[m].parent \in S  BY <1>3, <2>6 DEF Keeps
    <2> QED  BY <2>7 DEF Good, Whole
  <1>4. \A m, k \in DOMAIN t \ {n} : m # k /\ u[m].parent = u[k].parent => u[m].ord # u[k].ord
    BY OrdersDiffer
  <1>5. \A m, k \in DOMAIN u : m # k /\ u[m].parent = u[k].parent => u[m].ord # u[k].ord
    BY <1>4
  <1> QED  BY <1>1, <1>2, <1>3, <1>5 DEF Good, Whole

\* A node that stays where it is among the nodes, in another place.
LEMMA ShiftedIsGood ==
  ASSUME NEW t, Good(t), NEW u, IsTree(u), NEW n \in DOMAIN t, DOMAIN u = DOMAIN t,
         Keeps(t, u, DOMAIN t \ {n}), u[n].parent = t[n].parent,
         \A m \in DOMAIN t \ {n} : u[m].parent = u[n].parent => u[m].ord # u[n].ord
  PROVE  Good(u) /\ Moves(t, u)
  <1>1. Moves(t, u)  BY DEF Moves
  <1>2. \A m \in DOMAIN t : u[m].parent = t[m].parent  BY DEF Keeps
  <1>3. /\ \A m \in DOMAIN u : u[m].parent \in DOMAIN u \cup {Root}
        /\ \A S \in SUBSET DOMAIN u : (\A m \in S : u[m].parent \in S) => S = {}
    BY <1>2 DEF Good, Whole
  <1>4. \A m, k \in DOMAIN t \ {n} : m # k /\ u[m].parent = u[k].parent => u[m].ord # u[k].ord
    BY OrdersDiffer
  <1>5. \A m, k \in DOMAIN u : m # k /\ u[m].parent = u[k].parent => u[m].ord # u[k].ord
    BY <1>4
  <1> QED  BY <1>1, <1>3, <1>5 DEF Good, Whole

-----------------------------------------------------------------------------
(* The operators of the engine.                                            *)

\* Of finitely many things in an order any two of which it compares one is greatest.
LEMMA GreatestExists ==
  ASSUME NEW S, IsFiniteSet(S), S # {}, NEW R,
         \A x, y \in S : <<x, y>> \in R \/ <<y, x>> \in R,
         \A x, y, z \in S : <<x, y>> \in R /\ <<y, z>> \in R => <<x, z>> \in R
  PROVE  \E m \in S : \A x \in S : <<x, m>> \in R
  <1> DEFINE Has_(T) == \E m \in T : \A x \in T : <<x, m>> \in R
             Bad == {T \in FiniteSubsetsOf(S) : T # {} /\ ~ Has_(T)}
  <1>1. SUFFICES ASSUME Bad # {} PROVE FALSE
    <2>1. S \in FiniteSubsetsOf(S)  BY DEF FiniteSubsetsOf
    <2> QED  BY <1>1, <2>1
  <1>2. PICK T \in Bad : \A U \in Bad : ~ (<<U, T>> \in StrictSubsetOrdering(S))
    <2>1. IsWellFoundedOn(StrictSubsetOrdering(S), FiniteSubsetsOf(S))
      BY FS_StrictSubsetOrderingWellFounded
    <2>2. Bad \subseteq FiniteSubsetsOf(S)  OBVIOUS
    <2> HIDE DEF Bad
    <2> QED  BY <1>1, <2>1, <2>2, WFMin
  <1>3. T \subseteq S /\ IsFiniteSet(T) /\ T # {} /\ ~ Has_(T)  BY DEF FiniteSubsetsOf
  <1>4. PICK x \in T : TRUE  BY <1>3
  <1> DEFINE U == T \ {x}
  <1>5. U \subseteq S /\ IsFiniteSet(U) /\ x \notin U /\ T = U \cup {x}
    <2>1. IsFiniteSet(U)  BY <1>3, FS_RemoveElement
    <2>2. T \subseteq S  BY <1>3
    <2>3. T = U \cup {x}  BY <1>4
    <2> QED  BY <2>1, <2>2, <2>3
  <1>6. <<U, T>> \in StrictSubsetOrdering(S)
    BY <1>3, <1>4, <1>5 DEF StrictSubsetOrdering
  <1>7. U \notin Bad  BY <1>2, <1>6
  <1>8. U \in FiniteSubsetsOf(S)  BY <1>5 DEF FiniteSubsetsOf
  <1>9. U = {} \/ Has_(U)  BY <1>7, <1>8
  <1> HIDE DEF U, Bad
  <1>10. CASE U = {}
    <2>1. T = {x}  BY <1>5, <1>10
    <2>2. <<x, x>> \in R  BY <1>3, <1>4
    <2> QED  BY <1>3, <2>1, <2>2
  <1>11. CASE Has_(U)
    <2>1. PICK m \in U : \A y \in U : <<y, m>> \in R  BY <1>11
    <2>2. m \in S /\ x \in S /\ m \in T  BY <1>3, <1>4, <1>5, <2>1
    <2>3. CASE <<x, m>> \in R
      <3>1. \A y \in T : <<y, m>> \in R  BY <1>5, <2>1, <2>3
      <3> QED  BY <1>3, <2>2, <3>1
    <2>4. CASE <<m, x>> \in R
      <3>1. \A y \in U : <<y, x>> \in R  BY <1>5, <2>1, <2>2, <2>4
      <3>2. <<x, x>> \in R  BY <2>2
      <3>3. \A y \in T : <<y, x>> \in R  BY <1>5, <3>1, <3>2
      <3> QED  BY <1>3, <1>4, <3>3
    <2> QED  BY <2>2, <2>3, <2>4
  <1> QED  BY <1>9, <1>10, <1>11

LEMMA KidsAreFinite ==
  ASSUME NEW t, IsTree(t), NEW p
  PROVE  IsFiniteSet(Kids(t, p)) /\ Cardinality(Kids(t, p)) \in Nat
  <1>1. IsFiniteSet(Nodes)  BY StartAssumption, FS_Interval DEF Nodes
  <1>2. Kids(t, p) \in SUBSET Nodes  BY DEF Kids, IsTree
  <1> QED  BY <1>1, <1>2, FS_Subset, FS_CardinalityType

\* The last place of all is behind every child there is.
LEMMA NextOrdIs ==
  ASSUME NEW t, IsTree(t), NEW p
  PROVE  NextOrd(t, p) \in Nat /\ \A m \in Kids(t, p) : t[m].ord < NextOrd(t, p)
  <1> DEFINE K == Kids(t, p)
             R == {x \in K \X K : t[x[1]].ord <= t[x[2]].ord}
  <1>1. \A m \in K : t[m].ord \in Nat  BY RowOf DEF Kids
  <1>2. CASE K = {}  BY <1>2 DEF NextOrd
  <1>3. CASE K # {}
    <2>1. \A x, y \in K : <<x, y>> \in R \/ <<y, x>> \in R  BY <1>1
    <2>2. \A x, y, z \in K : <<x, y>> \in R /\ <<y, z>> \in R => <<x, z>> \in R  BY <1>1
    <2>3. IsFiniteSet(K)  BY KidsAreFinite
    <2>4. \A x, m \in K : <<x, m>> \in R => t[x].ord <= t[m].ord  OBVIOUS
    <2> HIDE DEF K, R
    <2>5. \E m \in K : \A x \in K : <<x, m>> \in R  BY <1>3, <2>1, <2>2, <2>3, GreatestExists
    <2>6. PICK m \in K : \A x \in K : t[x].ord <= t[m].ord  BY <2>4, <2>5
    <2>7. t[m].ord \in {t[n].ord : n \in K} /\ \A x \in K : t[x].ord <= t[m].ord  BY <2>6
    <2> DEFINE top == CHOOSE o \in {t[n].ord : n \in K} : \A n \in K : t[n].ord <= o
    <2>8. top \in {t[n].ord : n \in K} /\ \A n \in K : t[n].ord <= top  BY <2>7
    <2>9. NextOrd(t, p) = 1 + top  BY <1>3 DEF NextOrd, K
    <2> HIDE DEF top
    <2>10. top \in Nat  BY <1>1, <2>8
    <2> QED  BY <1>1, <2>8, <2>9, <2>10 DEF K
  <1> QED  BY <1>2, <1>3

\* Making room keeps every order, and leaves o to nobody.
LEMMA PushIs ==
  ASSUME NEW t, IsTree(t), NEW p, NEW o \in Nat
  PROVE  LET u == Push(t, p, o) IN
         /\ IsTree(u) /\ DOMAIN u = DOMAIN t /\ Keeps(t, u, DOMAIN t)
         /\ \A m \in DOMAIN t : u[m].parent = t[m].parent
         /\ \A m \in DOMAIN t : t[m].parent = p => u[m].ord # o
  <1> DEFINE u == Push(t, p, o)
  <1>1. DOMAIN u = DOMAIN t /\ u = [m \in DOMAIN u |-> u[m]]  BY DEF Push
  <1>2. ASSUME NEW m \in DOMAIN t
        PROVE  /\ u[m] \in Row /\ u[m].parent = t[m].parent
               /\ u[m].ord = IF t[m].parent = p /\ t[m].ord >= o THEN t[m].ord + 1 ELSE t[m].ord
    <2>1. t[m] \in Row /\ t[m].ord \in Nat  BY RowOf
    <2> QED  BY <2>1 DEF Push, Row
  <1> HIDE DEF u
  <1>3. \A m \in DOMAIN t : t[m].ord \in Nat  BY RowOf
  <1>4. IsTree(u)  BY <1>1, <1>2 DEF IsTree
  <1>5. Keeps(t, u, DOMAIN t)  BY <1>2, <1>3 DEF Keeps
  <1>6. \A m \in DOMAIN t : t[m].parent = p => u[m].ord # o  BY <1>2, <1>3
  <1> QED  BY <1>1, <1>2, <1>4, <1>5, <1>6 DEF u

\* Closing up keeps the order of the others.
LEMMA PullIs ==
  ASSUME NEW t, Good(t), NEW n \in DOMAIN t
  PROVE  LET u == Pull(t, n) IN
         /\ IsTree(u) /\ DOMAIN u = DOMAIN t /\ Keeps(t, u, DOMAIN t \ {n})
         /\ \A m \in DOMAIN t : u[m].parent = t[m].parent
         /\ \A m \in DOMAIN t : t[m].parent # t[n].parent => u[m].ord = t[m].ord
  <1> DEFINE u == Pull(t, n)
             q == t[n].parent
             o == t[n].ord
  <1>0. IsTree(t)  BY DEF Good
  <1>1. DOMAIN u = DOMAIN t /\ u = [m \in DOMAIN u |-> u[m]]  BY DEF Pull
  <1>2. o \in Nat  BY <1>0, RowOf
  <1>3. ASSUME NEW m \in DOMAIN t
        PROVE  /\ u[m] \in Row /\ u[m].parent = t[m].parent
               /\ u[m].ord = IF t[m].parent = q /\ t[m].ord > o THEN t[m].ord - 1 ELSE t[m].ord
    <2>1. t[m] \in Row /\ t[m].ord \in Nat  BY <1>0, RowOf
    <2> QED  BY <1>2, <2>1 DEF Pull, Row
  <1>4. \A m \in DOMAIN t : t[m].ord \in Nat  BY <1>0, RowOf
  <1>5. \A m \in DOMAIN t \ {n} : t[m].parent = q => t[m].ord # o  BY DEF Good, Whole
  <1> HIDE DEF u, q, o
  <1>6. IsTree(u)  BY <1>0, <1>1, <1>3 DEF IsTree
  <1>7. Keeps(t, u, DOMAIN t \ {n})
    <2> SUFFICES ASSUME NEW k \in DOMAIN t \ {n}, NEW m \in DOMAIN t \ {n}, t[k].parent = t[m].parent
                 PROVE  t[k].ord < t[m].ord <=> u[k].ord < u[m].ord
      BY <1>3 DEF Keeps
    <2> QED  BY <1>2, <1>3, <1>4, <1>5
  <1> QED  BY <1>1, <1>3, <1>6, <1>7 DEF u, q

LEMMA PutIs ==
  ASSUME NEW t, IsTree(t), NEW n \in DOMAIN t, NEW p \in DOMAIN t \cup {Root}, NEW o \in Nat
  PROVE  LET u == Put(t, n, p, o) IN
         /\ IsTree(u) /\ DOMAIN u = DOMAIN t /\ u[n].parent = p /\ u[n].ord = o
         /\ \A m \in DOMAIN t \ {n} : u[m] = t[m]
  <1> DEFINE row == [[t[n] EXCEPT !.parent = p] EXCEPT !.ord = o]
             u == [t EXCEPT ![n] = row]
  <1>1. p \in Nodes \cup {Root} /\ t[n] \in Row  BY RowOf DEF IsTree
  <1>2. row \in Row /\ row.parent = p /\ row.ord = o  BY <1>1 DEF Row
  <1>3. Put(t, n, p, o) = u  BY DEF Put, IsTree
  <1> HIDE DEF row
  <1> QED  BY <1>2, <1>3 DEF IsTree

LEMMA WithIs ==
  ASSUME NEW t, IsTree(t), NEW n \in Nodes \ DOMAIN t, NEW row \in Row
  PROVE  LET u == With(t, n, row) IN
         /\ IsTree(u) /\ DOMAIN u = DOMAIN t \cup {n} /\ u[n] = row
         /\ \A m \in DOMAIN t : u[m] = t[m]
  BY DEF With, IsTree

LEMMA NewRowIs ==
  ASSUME NEW p \in Nodes \cup {Root}, NEW o \in Nat, NEW kind \in Kinds, NEW label \in Labels
  PROVE  /\ NewRow(p, o, kind, label) \in Row
         /\ NewRow(p, o, kind, label).parent = p /\ NewRow(p, o, kind, label).ord = o
  BY DEF NewRow, Row

\* CreateSibling, and a scene put after another.
LEMMA AfterSiblingIs ==
  ASSUME NEW t, Good(t), NEW n \in Nodes \ DOMAIN t, NEW ref \in DOMAIN t,
         NEW kind \in Kinds, NEW label \in Labels
  PROVE  LET u == AfterSibling(t, n, ref, kind, label) IN
         Good(u) /\ Adds(t, u) /\ DOMAIN u = DOMAIN t \cup {n}
  <1> DEFINE p == t[ref].parent
             o == t[ref].ord + 1
             v == Push(t, p, o)
             row == NewRow(p, o, kind, label)
             u == With(v, n, row)
  <1>1. IsTree(t) /\ p \in Nodes \cup {Root} /\ o \in Nat /\ p \in DOMAIN t \cup {Root}
    BY RowOf DEF Good, Whole
  <1>2. row \in Row /\ row.parent = p /\ row.ord = o  BY <1>1, NewRowIs
  <1> HIDE DEF o, row
  <1>3. /\ IsTree(v) /\ DOMAIN v = DOMAIN t /\ Keeps(t, v, DOMAIN t)
        /\ \A m \in DOMAIN t : v[m].parent = t[m].parent
        /\ \A m \in DOMAIN t : t[m].parent = p => v[m].ord # o
    BY <1>1, PushIs
  <1> HIDE DEF p, v
  <1>4. /\ IsTree(u) /\ DOMAIN u = DOMAIN v \cup {n} /\ u[n] = row
        /\ \A m \in DOMAIN v : u[m] = v[m]
    <2>1. n \in Nodes \ DOMAIN v  BY <1>3
    <2> QED  BY <1>2, <1>3, <2>1, WithIs
  <1>5. u = AfterSibling(t, n, ref, kind, label)  BY DEF AfterSibling, u, v, p, o, row
  <1> HIDE DEF u
  <1>6. Keeps(t, u, DOMAIN t)  BY <1>3, <1>4 DEF Keeps
  <1>7. \A m \in DOMAIN t : u[m].parent = u[n].parent => u[m].ord # u[n].ord  BY <1>2, <1>3, <1>4
  <1>8. Good(u) /\ Adds(t, u)  BY <1>1, <1>2, <1>3, <1>4, <1>6, <1>7, AddedIsGood
  <1> QED  BY <1>3, <1>4, <1>5, <1>8

\* CreateChild and CreateRoot.
LEMMA AsLastIs ==
  ASSUME NEW t, Good(t), NEW n \in Nodes \ DOMAIN t, NEW p \in Places(t),
         NEW kind \in Kinds, NEW label \in Labels
  PROVE  LET u == AsLast(t, n, p, kind, label) IN
         Good(u) /\ Adds(t, u) /\ DOMAIN u = DOMAIN t \cup {n}
  <1> DEFINE o == NextOrd(t, p)
             row == NewRow(p, o, kind, label)
             u == With(t, n, row)
  <1>1. IsTree(t) /\ p \in Nodes \cup {Root} /\ p \in DOMAIN t \cup {Root}
    BY DEF Good, IsTree, Places
  <1>2. o \in Nat /\ \A m \in Kids(t, p) : t[m].ord < o  BY <1>1, NextOrdIs
  <1> HIDE DEF o
  <1>3. row \in Row /\ row.parent = p /\ row.ord = o  BY <1>1, <1>2, NewRowIs
  <1> HIDE DEF row
  <1>4. /\ IsTree(u) /\ DOMAIN u = DOMAIN t \cup {n} /\ u[n] = row
        /\ \A m \in DOMAIN t : u[m] = t[m]
    BY <1>1, <1>3, WithIs
  <1>5. u = AsLast(t, n, p, kind, label)  BY DEF AsLast, u, o, row
  <1> HIDE DEF u
  <1>6. Keeps(t, u, DOMAIN t)  BY <1>4 DEF Keeps
  <1>7. \A m \in DOMAIN t : u[m].parent = u[n].parent => u[m].ord # u[n].ord
    <2>1. \A m \in DOMAIN t : t[m].ord \in Nat  BY <1>1, RowOf
    <2> QED  BY <1>2, <1>3, <1>4, <2>1 DEF Kids
  <1>8. Good(u) /\ Adds(t, u)  BY <1>1, <1>3, <1>4, <1>6, <1>7, AddedIsGood
  <1> QED  BY <1>4, <1>5, <1>8

\* Delete.
LEMMA WithoutIs ==
  ASSUME NEW t, Good(t), NEW n \in DOMAIN t
  PROVE  LET u == Without(t, n) IN Good(u) /\ Removes(t, u) /\ DOMAIN u \subseteq DOMAIN t
  <1> DEFINE D == Subtree(t, n)
             u == [m \in DOMAIN t \ D |-> t[m]]
  <1>1. D \subseteq DOMAIN t /\ \A m \in DOMAIN t : t[m].parent \in D => m \in D  BY DEF Subtree
  <1>2. u = Without(t, n)  BY DEF Without
  <1> HIDE DEF D
  <1>3. Removes(t, u)  BY <1>1 DEF Removes
  <1>4. IsTree(u)  BY DEF IsTree, Good
  <1>5. /\ \A m \in DOMAIN u : u[m].parent \in DOMAIN u \cup {Root}
        /\ \A k, m \in DOMAIN u : k # m /\ u[k].parent = u[m].parent => u[k].ord # u[m].ord
    BY <1>1 DEF Good, Whole
  <1>6. ASSUME NEW S \in SUBSET DOMAIN u, \A m \in S : u[m].parent \in S PROVE S = {}
    BY <1>6 DEF Good, Whole
  <1>7. Whole(u)  BY <1>5, <1>6 DEF Whole
  <1> QED  BY <1>2, <1>3, <1>4, <1>7 DEF Good

\* MoveTo.
LEMMA MovedToIs ==
  ASSUME NEW t, Good(t), NEW n \in DOMAIN t, NEW p \in DOMAIN t \cup {Root}, CanHold(t, n, p),
         NEW place \in Nat
  PROVE  LET u == MovedTo(t, n, p, place) IN Good(u) /\ Moves(t, u)
  <1> DEFINE v  == Pull(t, n)
             c  == Cardinality(Kids(v, p))
  <1>1. /\ IsTree(v) /\ DOMAIN v = DOMAIN t /\ Keeps(t, v, DOMAIN t \ {n})
        /\ \A m \in DOMAIN t : v[m].parent = t[m].parent
    BY PullIs
  <1> HIDE DEF v
  <1>2. c \in Nat  BY <1>1, KidsAreFinite
  <1> HIDE DEF c
  <1>3. PICK o \in Nat : o = IF place > c THEN c ELSE place  BY <1>2
  <1> DEFINE w == Push(v, p, o)
             u == Put(w, n, p, o)
  <1>4. /\ IsTree(w) /\ DOMAIN w = DOMAIN v /\ Keeps(v, w, DOMAIN v)
        /\ \A m \in DOMAIN v : w[m].parent = v[m].parent
        /\ \A m \in DOMAIN v : v[m].parent = p => w[m].ord # o
    BY <1>1, <1>3, PushIs
  <1> HIDE DEF w
  <1>5. /\ IsTree(u) /\ DOMAIN u = DOMAIN w /\ u[n].parent = p /\ u[n].ord = o
        /\ \A m \in DOMAIN w \ {n} : u[m] = w[m]
    <2>1. IsTree(w) /\ n \in DOMAIN w /\ p \in DOMAIN w \cup {Root} /\ o \in Nat
      BY <1>1, <1>3, <1>4
    <2> HIDE DEF u
    <2>2. \A k \in DOMAIN w, q \in DOMAIN w \cup {Root}, i \in Nat :
            LET x == Put(w, k, q, i) IN
            /\ IsTree(x) /\ DOMAIN x = DOMAIN w /\ x[k].parent = q /\ x[k].ord = i
            /\ \A m \in DOMAIN w \ {k} : x[m] = w[m]
      BY <2>1, PutIs
    <2> QED  BY <2>1, <2>2 DEF u
  <1>6. u = MovedTo(t, n, p, place)  BY <1>3 DEF MovedTo, u, w, v, c
  <1> HIDE DEF u
  <1>7. Keeps(t, u, DOMAIN t \ {n})  BY <1>1, <1>4, <1>5 DEF Keeps
  <1>8. \A m \in DOMAIN t \ {n} : u[m].parent = u[n].parent => u[m].ord # u[n].ord
    BY <1>1, <1>4, <1>5
  <1>9. p \notin Subtree(t, n)
    <2>1. Root \notin Subtree(t, n)  BY RootIsNoNode DEF Subtree, Good, IsTree
    <2> QED  BY <2>1 DEF CanHold
  <1>10. Good(u) /\ Moves(t, u)  BY <1>1, <1>4, <1>5, <1>7, <1>8, <1>9, MovedIsGood
  <1> QED  BY <1>6, <1>10

\* MoveToParent and MoveToRoot.
LEMMA MovedUnderIs ==
  ASSUME NEW t, Good(t), NEW n \in DOMAIN t, NEW p \in DOMAIN t \cup {Root}, CanHold(t, n, p)
  PROVE  LET u == MovedUnder(t, n, p) IN Good(u) /\ Moves(t, u)
  <1> DEFINE v == Pull(t, n)
             o == NextOrd(t, p)
             u == Put(v, n, p, o)
  <1>0. IsTree(t)  BY DEF Good
  <1>1. CASE t[n].parent = p
    <2>1. MovedUnder(t, n, p) = t  BY <1>1 DEF MovedUnder
    <2>2. Moves(t, t)  BY DEF Moves, Keeps
    <2> QED  BY <2>1, <2>2
  <1>2. CASE t[n].parent # p
    <2>1. /\ IsTree(v) /\ DOMAIN v = DOMAIN t /\ Keeps(t, v, DOMAIN t \ {n})
          /\ \A m \in DOMAIN t : v[m].parent = t[m].parent
          /\ \A m \in DOMAIN t : t[m].parent # t[n].parent => v[m].ord = t[m].ord
      BY PullIs
    <2> HIDE DEF v
    <2>2. o \in Nat /\ \A m \in Kids(t, p) : t[m].ord < o  BY <1>0, NextOrdIs
    <2> HIDE DEF o
    <2>3. /\ IsTree(u) /\ DOMAIN u = DOMAIN v /\ u[n].parent = p /\ u[n].ord = o
          /\ \A m \in DOMAIN v \ {n} : u[m] = v[m]
      <3>1. n \in DOMAIN v /\ p \in DOMAIN v \cup {Root}  BY <2>1
      <3> QED  BY <2>1, <2>2, <3>1, PutIs
    <2>4. u = MovedUnder(t, n, p)  BY <1>2 DEF MovedUnder, u, v, o
    <2> HIDE DEF u
    <2>5. Keeps(t, u, DOMAIN t \ {n})  BY <2>1, <2>3 DEF Keeps
    <2>6. \A m \in DOMAIN t \ {n} : u[m].parent = u[n].parent => u[m].ord # u[n].ord
      <3>1. \A m \in DOMAIN t : t[m].ord \in Nat  BY <1>0, RowOf
      <3> QED  BY <1>2, <2>1, <2>2, <2>3, <3>1 DEF Kids
    <2>7. p \notin Subtree(t, n)
      <3>1. Root \notin Subtree(t, n)  BY RootIsNoNode DEF Subtree, Good, IsTree
      <3> QED  BY <3>1 DEF CanHold
    <2>8. Good(u) /\ Moves(t, u)  BY <2>1, <2>3, <2>5, <2>6, <2>7, MovedIsGood
    <2> QED  BY <2>4, <2>8
  <1> QED  BY <1>1, <1>2

\* Two siblings change places, and between them there is none.
LEMMA SwappedIs ==
  ASSUME NEW t, Good(t), NEW n \in DOMAIN t, NEW m \in DOMAIN t, m # n, t[m].parent = t[n].parent,
         \A k \in Kids(t, t[n].parent) :
            \/ t[k].ord <= t[m].ord /\ t[k].ord <= t[n].ord
            \/ t[k].ord >= t[m].ord /\ t[k].ord >= t[n].ord
  PROVE  LET u == Swapped(t, n, m) IN Good(u) /\ Moves(t, u)
  <1> DEFINE one == [t[n] EXCEPT !.ord = t[m].ord]
             two == [t[m] EXCEPT !.ord = t[n].ord]
             u == [[t EXCEPT ![n] = one] EXCEPT ![m] = two]
  <1>0. IsTree(t) /\ \A k \in DOMAIN t : t[k].ord \in Nat  BY RowOf DEF Good
  <1>1. /\ one \in Row /\ one.parent = t[n].parent /\ one.ord = t[m].ord
        /\ two \in Row /\ two.parent = t[n].parent /\ two.ord = t[n].ord
    BY <1>0, RowOf DEF Row
  <1>2. Swapped(t, n, m) = u  BY <1>0 DEF Swapped, IsTree
  <1> HIDE DEF one, two
  <1>3. /\ IsTree(u) /\ DOMAIN u = DOMAIN t /\ u[n] = one /\ u[m] = two
        /\ \A k \in DOMAIN t \ {m, n} : u[k] = t[k]
    BY <1>0, <1>1 DEF IsTree
  <1> HIDE DEF u
  <1>4. \A k \in DOMAIN t : u[k].parent = t[k].parent  BY <1>1, <1>3
  <1>5. \A k \in DOMAIN t \ {n} : u[k].parent = u[n].parent => u[k].ord # u[n].ord
    <2>1. \A k, j \in DOMAIN t : k # j /\ t[k].parent = t[j].parent => t[k].ord # t[j].ord
      BY DEF Good, Whole
    <2> QED  BY <1>1, <1>3, <1>4, <2>1
  <1>6. ASSUME NEW k \in DOMAIN t \ {m, n}, t[k].parent = t[m].parent
        PROVE  /\ t[k].ord < t[m].ord <=> t[k].ord < t[n].ord
               /\ t[k].ord > t[m].ord <=> t[k].ord > t[n].ord
    <2>1. t[k].ord # t[m].ord /\ t[k].ord # t[n].ord  BY <1>6 DEF Good, Whole
    <2>2. k \in Kids(t, t[n].parent)  BY <1>6 DEF Kids
    <2> QED  BY <1>0, <2>1, <2>2
  <1>7. Keeps(t, u, DOMAIN t \ {n})
    <2> SUFFICES ASSUME NEW j \in DOMAIN t \ {n}, NEW k \in DOMAIN t \ {n}, t[j].parent = t[k].parent
                 PROVE  t[j].ord < t[k].ord <=> u[j].ord < u[k].ord
      BY <1>4 DEF Keeps
    <2>1. CASE j # m /\ k # m  BY <1>3, <2>1
    <2>2. CASE j = m /\ k # m  BY <1>0, <1>1, <1>3, <1>6, <2>2
    <2>3. CASE j # m /\ k = m  BY <1>0, <1>1, <1>3, <1>6, <2>3
    <2>4. CASE j = m /\ k = m  BY <1>0, <1>1, <1>3, <2>4
    <2> QED  BY <2>1, <2>2, <2>3, <2>4
  <1>8. Good(u) /\ Moves(t, u)  BY <1>3, <1>4, <1>5, <1>7, ShiftedIsGood
  <1> QED  BY <1>2, <1>8

\* The nearest of the siblings on one side.
LEMMA NearestExists ==
  ASSUME NEW t, IsTree(t), NEW p, NEW S \in SUBSET Kids(t, p), S # {}
  PROVE  /\ \E m \in S : \A k \in S : t[k].ord <= t[m].ord
         /\ \E m \in S : \A k \in S : t[k].ord >= t[m].ord
  <1> DEFINE Up   == {x \in S \X S : t[x[1]].ord <= t[x[2]].ord}
             Down == {x \in S \X S : t[x[1]].ord >= t[x[2]].ord}
  <1>1. \A m \in S : t[m].ord \in Nat  BY RowOf DEF Kids
  <1>2. IsFiniteSet(S)  BY KidsAreFinite, FS_Subset
  <1>3. /\ \A x, y \in S : <<x, y>> \in Up \/ <<y, x>> \in Up
        /\ \A x, y, z \in S : <<x, y>> \in Up /\ <<y, z>> \in Up => <<x, z>> \in Up
        /\ \A x, y \in S : <<x, y>> \in Up => t[x].ord <= t[y].ord
    BY <1>1
  <1>4. /\ \A x, y \in S : <<x, y>> \in Down \/ <<y, x>> \in Down
        /\ \A x, y, z \in S : <<x, y>> \in Down /\ <<y, z>> \in Down => <<x, z>> \in Down
        /\ \A x, y \in S : <<x, y>> \in Down => t[x].ord >= t[y].ord
    BY <1>1
  <1> HIDE DEF Up, Down
  <1>5. \E m \in S : \A x \in S : <<x, m>> \in Up  BY <1>2, <1>3, GreatestExists
  <1>6. \E m \in S : \A x \in S : <<x, m>> \in Down  BY <1>2, <1>4, GreatestExists
  <1> QED  BY <1>3, <1>4, <1>5, <1>6

\* MoveUp and MoveDown.
LEMMA MovedUpIs ==
  ASSUME NEW t, Good(t), NEW n \in DOMAIN t
  PROVE  LET u == MovedUp(t, n) IN Good(u) /\ Moves(t, u)
  <1>0. IsTree(t) /\ \A k \in DOMAIN t : t[k].ord \in Nat  BY RowOf DEF Good
  <1>1. CASE Earlier(t, n) = {}
    <2>1. MovedUp(t, n) = t  BY <1>1 DEF MovedUp
    <2>2. Moves(t, t)  BY DEF Moves, Keeps
    <2> QED  BY <2>1, <2>2
  <1>2. CASE Earlier(t, n) # {}
    <2> DEFINE m == CHOOSE m \in Earlier(t, n) : \A k \in Earlier(t, n) : t[k].ord <= t[m].ord
    <2>1. Earlier(t, n) \in SUBSET Kids(t, t[n].parent)  BY DEF Earlier
    <2>2. m \in Earlier(t, n) /\ \A k \in Earlier(t, n) : t[k].ord <= t[m].ord
      BY <1>0, <1>2, <2>1, NearestExists
    <2>3. MovedUp(t, n) = Swapped(t, n, m)  BY <1>2 DEF MovedUp
    <2> HIDE DEF m
    <2>4. m \in DOMAIN t /\ t[m].parent = t[n].parent /\ t[m].ord < t[n].ord /\ m # n
      BY <1>0, <2>2 DEF Earlier, Kids
    <2>5. \A k \in Kids(t, t[n].parent) :
            \/ t[k].ord <= t[m].ord /\ t[k].ord <= t[n].ord
            \/ t[k].ord >= t[m].ord /\ t[k].ord >= t[n].ord
      BY <1>0, <2>2, <2>4 DEF Earlier, Kids
    <2> QED  BY <2>3, <2>4, <2>5, SwappedIs
  <1> QED  BY <1>1, <1>2

LEMMA MovedDownIs ==
  ASSUME NEW t, Good(t), NEW n \in DOMAIN t
  PROVE  LET u == MovedDown(t, n) IN Good(u) /\ Moves(t, u)
  <1>0. IsTree(t) /\ \A k \in DOMAIN t : t[k].ord \in Nat  BY RowOf DEF Good
  <1>1. CASE Later(t, n) = {}
    <2>1. MovedDown(t, n) = t  BY <1>1 DEF MovedDown
    <2>2. Moves(t, t)  BY DEF Moves, Keeps
    <2> QED  BY <2>1, <2>2
  <1>2. CASE Later(t, n) # {}
    <2> DEFINE m == CHOOSE m \in Later(t, n) : \A k \in Later(t, n) : t[k].ord >= t[m].ord
    <2>1. Later(t, n) \in SUBSET Kids(t, t[n].parent)  BY DEF Later
    <2>2. m \in Later(t, n) /\ \A k \in Later(t, n) : t[k].ord >= t[m].ord
      BY <1>0, <1>2, <2>1, NearestExists
    <2>3. MovedDown(t, n) = Swapped(t, n, m)  BY <1>2 DEF MovedDown
    <2> HIDE DEF m
    <2>4. m \in DOMAIN t /\ t[m].parent = t[n].parent /\ t[m].ord > t[n].ord /\ m # n
      BY <1>0, <2>2 DEF Later, Kids
    <2>5. \A k \in Kids(t, t[n].parent) :
            \/ t[k].ord <= t[m].ord /\ t[k].ord <= t[n].ord
            \/ t[k].ord >= t[m].ord /\ t[k].ord >= t[n].ord
      BY <1>0, <2>2, <2>4 DEF Later, Kids
    <2> QED  BY <2>3, <2>4, <2>5, SwappedIs
  <1> QED  BY <1>1, <1>2

\* RestoreOutline: where the nodes stand is what was kept.
LEMMA RestoredIs ==
  ASSUME NEW t, IsTree(t), NEW snap, Good(snap)
  PROVE  LET u == Restored(t, snap) IN
         Good(u) /\ DOMAIN u = DOMAIN snap /\ Same(snap, u)
  <1> DEFINE u == Restored(t, snap)
  <1>1. DOMAIN u = DOMAIN snap /\ u = [n \in DOMAIN u |-> u[n]]  BY DEF Restored
  <1>2. ASSUME NEW n \in DOMAIN snap
        PROVE  u[n] \in Row /\ u[n].parent = snap[n].parent /\ u[n].ord = snap[n].ord
    <2>1. snap[n] \in Row  BY RowOf DEF Good
    <2>2. CASE n \in DOMAIN t
      <3>1. t[n] \in Row  BY <2>2, RowOf
      <3> DEFINE row == [snap[n] EXCEPT !.kind = t[n].kind, !.words = t[n].words]
      <3>2. row \in Row /\ row.parent = snap[n].parent /\ row.ord = snap[n].ord
        BY <2>1, <3>1 DEF Row
      <3>3. u[n] = row  BY <2>2 DEF Restored
      <3> QED  BY <3>2, <3>3
    <2>3. CASE n \notin DOMAIN t
      <3>1. u[n] = snap[n]  BY <2>3 DEF Restored
      <3> QED  BY <2>1, <3>1
    <2> QED  BY <2>2, <2>3
  <1> HIDE DEF u
  <1>3. IsTree(u)  BY <1>1, <1>2 DEF IsTree, Good
  <1>4. Same(snap, u)  BY <1>1, <1>2 DEF Same
  <1>5. Good(u)  BY <1>3, <1>4, SameIsGood
  <1> QED  BY <1>1, <1>4, <1>5 DEF u

-----------------------------------------------------------------------------
(* The steps of OutlineOrder.                                              *)

LEMMA GoodIsOutline ==
  ASSUME NEW t, Good(t)
  PROVE  Order!Outline(Under(t), Ahead(t))
  <1>1. DOMAIN Under(t) = DOMAIN t /\ \A m \in DOMAIN t : Under(t)[m] = t[m].parent  BY DEF Under
  <1>2. Order!Rooted(Under(t))  BY <1>1 DEF Order!Rooted, Good, Whole
  <1>3. Order!InLine(Under(t), Ahead(t))
    <2>1. \A m \in DOMAIN t : t[m].ord \in Nat  BY RowOf DEF Good
    <2>2. \A m, n \in DOMAIN t :
            <<m, n>> \in Ahead(t) <=> t[m].parent = t[n].parent /\ t[m].ord < t[n].ord
      BY DEF Ahead
    <2>3. Ahead(t) \subseteq (DOMAIN t) \X (DOMAIN t)  BY DEF Ahead
    <2>4. \A x \in Ahead(t) : x[1] # x[2] /\ Under(t)[x[1]] = Under(t)[x[2]]
      BY <1>1, <2>1 DEF Ahead
    <2>5. \A m, n \in DOMAIN t : m # n /\ t[m].parent = t[n].parent => t[m].ord # t[n].ord
      BY DEF Good, Whole
    <2>6. \A m, n \in DOMAIN t :
            m # n /\ t[m].parent = t[n].parent => (<<m, n>> \in Ahead(t) <=> <<n, m>> \notin Ahead(t))
      BY <2>1, <2>2, <2>5
    <2>7. \A k, m, n \in DOMAIN t :
            <<k, m>> \in Ahead(t) /\ <<m, n>> \in Ahead(t) => <<k, n>> \in Ahead(t)
      BY <2>1, <2>2
    <2> QED  BY <1>1, <2>3, <2>4, <2>6, <2>7 DEF Order!InLine
  <1> QED  BY <1>2, <1>3 DEF Order!Outline

\* Nodes that keep their parents and their order stand the same way.
LEMMA AmongKept ==
  ASSUME NEW t, NEW u, NEW S, S \subseteq DOMAIN t, S \subseteq DOMAIN u, Keeps(t, u, S)
  PROVE  Order!Among(Ahead(u), S) = Order!Among(Ahead(t), S)
  <1>1. \A x \in S \X S : x \in Ahead(u) <=> x \in Ahead(t)  BY DEF Keeps, Ahead
  <1>2. \A x \in Ahead(u) : x[1] \in S /\ x[2] \in S => x \in S \X S  BY DEF Ahead
  <1>3. \A x \in Ahead(t) : x[1] \in S /\ x[2] \in S => x \in S \X S  BY DEF Ahead
  <1> QED  BY <1>1, <1>2, <1>3 DEF Order!Among

LEMMA AmongAll ==
  ASSUME NEW t
  PROVE  Order!Among(Ahead(t), DOMAIN t) = Ahead(t)
  BY DEF Order!Among, Ahead

Past(S) == {<<Under(t), Ahead(t)>> : t \in S}

LEMMA StepsOfOrder ==
  ASSUME Good(tree), Good(tree'), Keptback' = Keptback,
         \/ Adds(tree, tree') \/ Removes(tree, tree') \/ Moves(tree, tree') \/ Same(tree, tree')
  PROVE  [Order!Next]_(Order!vars)
  <1>1. Past(Keptback)' = Past(Keptback)  BY DEF Past
  <1>2. Order!Outline(Under(tree'), Ahead(tree'))  BY GoodIsOutline
  <1>3. /\ DOMAIN Under(tree) = DOMAIN tree /\ \A m \in DOMAIN tree : Under(tree)[m] = tree[m].parent
        /\ DOMAIN Under(tree') = DOMAIN tree' /\ \A m \in DOMAIN tree' : Under(tree')[m] = tree'[m].parent
    BY DEF Under
  <1>4. CASE Adds(tree, tree')
    <2>1. PICK n \in Nodes \ DOMAIN tree :
            DOMAIN tree' = DOMAIN tree \cup {n} /\ Keeps(tree, tree', DOMAIN tree)
      BY <1>4 DEF Adds
    <2>2. Order!Among(Ahead(tree'), DOMAIN tree) = Ahead(tree)  BY <2>1, AmongKept, AmongAll
    <2>3. \A m \in DOMAIN tree : tree'[m].parent = tree[m].parent  BY <2>1 DEF Keeps
    <2>4. Order!Add  BY <1>1, <1>2, <1>3, <2>1, <2>2, <2>3 DEF Order!Add, Past
    <2> QED  BY <2>4 DEF Order!Next
  <1>5. CASE Removes(tree, tree')
    <2>1. PICK S \in SUBSET DOMAIN tree :
            /\ \A m \in DOMAIN tree : tree[m].parent \notin S \/ m \in S
            /\ tree' = [m \in DOMAIN tree \ S |-> tree[m]]
      BY <1>5 DEF Removes
    <2>2. Under(tree') = [m \in DOMAIN tree \ S |-> Under(tree)[m]]  BY <1>3, <2>1 DEF Under
    <2>3. Ahead(tree') = Order!Among(Ahead(tree), DOMAIN tree \ S)  BY <2>1 DEF Ahead, Order!Among
    <2>4. Order!Remove  BY <1>1, <1>3, <2>1, <2>2, <2>3 DEF Order!Remove, Past
    <2> QED  BY <2>4 DEF Order!Next
  <1>6. CASE Moves(tree, tree')
    <2>1. DOMAIN tree' = DOMAIN tree  BY <1>6 DEF Moves
    <2>2. PICK n \in DOMAIN tree : Keeps(tree, tree', DOMAIN tree \ {n})  BY <1>6 DEF Moves
    <2>3. Order!Among(Ahead(tree'), DOMAIN tree \ {n}) = Order!Among(Ahead(tree), DOMAIN tree \ {n})
      BY <2>1, <2>2, AmongKept
    <2>4. \A m \in DOMAIN tree \ {n} : tree'[m].parent = tree[m].parent  BY <2>2 DEF Keeps
    <2>5. Order!Move  BY <1>1, <1>2, <1>3, <2>1, <2>3, <2>4 DEF Order!Move, Past
    <2> QED  BY <2>5 DEF Order!Next
  <1>7. CASE Same(tree, tree')
    <2>1. Under(tree') = Under(tree)  BY <1>7 DEF Same, Under
    <2>2. Ahead(tree') = Ahead(tree)  BY <1>7 DEF Same, Ahead
    <2> QED  BY <1>1, <2>1, <2>2 DEF Order!vars, Past
  <1> QED  BY <1>4, <1>5, <1>6, <1>7

\* An outline is kept, or kept ones are forgotten.
LEMMA KeepOfOrder ==
  ASSUME tree' = tree, Keptback' \subseteq Keptback \cup {tree}
  PROVE  [Order!Next]_(Order!vars)
  <1>1. Under(tree)' = Under(tree) /\ Ahead(tree)' = Ahead(tree)  BY DEF Under, Ahead
  <1>2. Past(Keptback)' \subseteq Past(Keptback) \cup {<<Under(tree), Ahead(tree)>>}  BY DEF Past
  <1>3. Order!Keep  BY <1>1, <1>2 DEF Order!Keep, Past
  <1> QED  BY <1>3 DEF Order!Next

\* One that was kept is brought back.
LEMMA BringBackOfOrder ==
  ASSUME NEW snap \in Keptback, Same(snap, tree'), Keptback' \subseteq Keptback
  PROVE  [Order!Next]_(Order!vars)
  <1>1. Under(tree') = Under(snap)  BY DEF Same, Under
  <1>2. Ahead(tree') = Ahead(snap)  BY DEF Same, Ahead
  <1>3. Past(Keptback)' \subseteq Past(Keptback)  BY DEF Past
  <1>4. <<Under(tree'), Ahead(tree')>> \in Past(Keptback)  BY <1>1, <1>2 DEF Past
  <1>5. Order!BringBack  BY <1>3, <1>4 DEF Order!BringBack, Past
  <1> QED  BY <1>5 DEF Order!Next

-----------------------------------------------------------------------------
(* The invariant: of the outlines that are kept, what is so of the one     *)
(* there is; and the shape of the batch and of the window.                 *)

Trees  == UNION {[D -> Row] : D \in SUBSET Nodes}
Change == [nodes : Trees, sets : Seq(Sets), wrote : SUBSET Nodes, untouched : BOOLEAN]
Batch  == [pc : {"idle", "open", "putback"}, structural : BOOLEAN, before : Trees,
           sets : Seq(Sets), tried : BOOLEAN, failed : BOOLEAN, alone : BOOLEAN,
           wrote : SUBSET Nodes, any : BOOLEAN]

Shape ==
    /\ window \in Seq(Change) /\ undoing \in 0..Len(window) /\ Len(window) <= Window
    /\ batch \in Batch

Snaps == {batch.before, kept} \cup {window[i].nodes : i \in DOMAIN window}

Rows ==
    /\ made \in 0..MaxNodes
    /\ Good(tree) /\ DOMAIN tree \subseteq 1..made
    /\ \A t \in Snaps : Good(t) /\ DOMAIN t \subseteq 1..made

LEMMA TreesAre == \A t : t \in Trees <=> IsTree(t)
  BY DEF Trees, IsTree

\* Since puts a mark into every change, and nothing else.
LEMMA SinceIs ==
  ASSUME NEW w \in Seq(Change)
  PROVE  /\ Since(w) \in Seq(Change) /\ Len(Since(w)) = Len(w) /\ DOMAIN Since(w) = DOMAIN w
         /\ \A i \in DOMAIN w : Since(w)[i].nodes = w[i].nodes /\ Since(w)[i].sets = w[i].sets
  <1>1. ASSUME NEW c \in Change
        PROVE  LET e == [c EXCEPT !.untouched = FALSE] IN
               e \in Change /\ e.nodes = c.nodes /\ e.sets = c.sets
    BY DEF Change
  <1>2. \A i \in 1..Len(w) : w[i] \in Change  OBVIOUS
  <1>3. /\ DOMAIN Since(w) = 1..Len(w)
        /\ \A i \in 1..Len(w) : Since(w)[i] = [w[i] EXCEPT !.untouched = FALSE]
        /\ Since(w) = [i \in 1..Len(w) |-> Since(w)[i]]
    <2>1. DOMAIN w = 1..Len(w)  OBVIOUS
    <2>2. Since(w) = [i \in 1..Len(w) |-> [w[i] EXCEPT !.untouched = FALSE]]  BY <2>1 DEF Since
    <2> DEFINE v == Since(w)
    <2> HIDE DEF v
    <2>3. v = [i \in 1..Len(w) |-> [w[i] EXCEPT !.untouched = FALSE]]  BY <2>2 DEF v
    <2>4. v = [i \in 1..Len(w) |-> v[i]] /\ DOMAIN v = 1..Len(w)
      BY <2>3, Zenon
    <2>5. \A i \in 1..Len(w) : v[i] = [w[i] EXCEPT !.untouched = FALSE]  BY <2>3, Zenon
    <2> QED  BY <2>4, <2>5 DEF v
  <1>4. \A i \in 1..Len(w) : /\ Since(w)[i] \in Change
                              /\ Since(w)[i].nodes = w[i].nodes /\ Since(w)[i].sets = w[i].sets
    BY <1>1, <1>2, <1>3
  <1>5. Len(w) \in Nat  OBVIOUS
  <1>6. Since(w) \in [1..Len(w) -> Change]  BY <1>3, <1>4
  <1>7. Since(w) \in Seq(Change) /\ Len(Since(w)) = Len(w)  BY <1>5, <1>6
  <1> QED  BY <1>3, <1>4, <1>7

\* An outline that was kept may be forgotten, and the one there is be kept.
LEMMA RowsKeep ==
  ASSUME Rows, made' \in 0..MaxNodes, made' >= made, Good(tree'), DOMAIN tree' \subseteq 1..made',
         Snaps' \subseteq Snaps \cup {tree, NoTree}
  PROVE  Rows'
  <1>1. 1..made \subseteq 1..made'  BY StartAssumption DEF Rows
  <1>2. \A t \in Snaps' : Good(t) /\ DOMAIN t \subseteq 1..made  BY NothingIsGood DEF Rows
  <1> QED  BY <1>1, <1>2 DEF Rows

-----------------------------------------------------------------------------
(* A step on the tree.                                                     *)

\* What a step of the writer or the agent may make of the tree.
Turns(t, u) ==
    /\ Good(u)
    /\ \/ Adds(t, u) \/ Removes(t, u) \/ Moves(t, u) \/ Same(t, u)

LEMMA TreeSteps ==
  ASSUME Rows, Turns(tree, tree'), Snaps' = Snaps,
         \/ made' = made /\ DOMAIN tree' \subseteq DOMAIN tree
         \/ made < MaxNodes /\ made' = made + 1 /\ DOMAIN tree' = DOMAIN tree \cup {made + 1}
  PROVE  Rows' /\ [Order!Next]_(Order!vars)
  <1>1. made \in Nat /\ MaxNodes \in Nat  BY StartAssumption DEF Rows
  <1>2. made' \in 0..MaxNodes /\ made' >= made /\ DOMAIN tree' \subseteq 1..made'
    BY <1>1 DEF Rows
  <1>3. Rows'  BY <1>2, RowsKeep DEF Turns
  <1>4. Keptback' = Keptback
    <2>1. Keptback = Snaps \ {NoTree} /\ Keptback' = Snaps' \ {NoTree}  BY DEF Keptback, Snaps
    <2> QED  BY <2>1
  <1>5. Good(tree) /\ Good(tree')  BY DEF Rows, Turns
  <1> QED  BY <1>3, <1>4, <1>5, StepsOfOrder DEF Turns

\* A number that was not given out is no row's.
LEMMA FreshId ==
  ASSUME Rows, made < MaxNodes
  PROVE  made + 1 \in Nodes \ DOMAIN tree
  BY StartAssumption DEF Rows, Nodes

\* Rows that change their kind, label or words.
LEMMA RelabelledIs ==
  ASSUME NEW t, Good(t), NEW n \in DOMAIN t, NEW row \in Row, NEW u,
         u = [t EXCEPT ![n] = row], row.parent = t[n].parent, row.ord = t[n].ord
  PROVE  Turns(t, u) /\ DOMAIN u = DOMAIN t
  <1>1. DOMAIN u = DOMAIN t /\ u[n] = row /\ \A m \in DOMAIN t \ {n} : u[m] = t[m]
    BY DEF Good, IsTree
  <1>2. Same(t, u)  BY <1>1 DEF Same
  <1>3. IsTree(u)  BY DEF Good, IsTree
  <1> QED  BY <1>1, <1>2, <1>3, SameIsGood DEF Turns

LEMMA RenamedIs ==
  ASSUME NEW t, Good(t), NEW n \in DOMAIN t, NEW label \in Labels
  PROVE  LET u == [t EXCEPT ![n].label = label] IN Turns(t, u) /\ DOMAIN u = DOMAIN t
  <1>1. t[n] \in Row  BY RowOf DEF Good
  <1> DEFINE row == [t[n] EXCEPT !.label = label]
  <1>2. row \in Row /\ row.parent = t[n].parent /\ row.ord = t[n].ord  BY <1>1 DEF Row
  <1> HIDE DEF row
  <1>3. [t EXCEPT ![n].label = label] = [t EXCEPT ![n] = row]  BY DEF row
  <1> QED  BY <1>2, <1>3, RelabelledIs

LEMMA ConvertedIs ==
  ASSUME NEW t, Good(t), NEW n \in DOMAIN t
  PROVE  LET u == [t EXCEPT ![n].kind = "container"] IN Turns(t, u) /\ DOMAIN u = DOMAIN t
  <1>1. t[n] \in Row  BY RowOf DEF Good
  <1> DEFINE row == [t[n] EXCEPT !.kind = "container"]
  <1>2. row \in Row /\ row.parent = t[n].parent /\ row.ord = t[n].ord  BY <1>1 DEF Row, Kinds
  <1> HIDE DEF row
  <1>3. [t EXCEPT ![n].kind = "container"] = [t EXCEPT ![n] = row]  BY DEF row
  <1> QED  BY <1>2, <1>3, RelabelledIs

LEMMA WrittenIs ==
  ASSUME NEW t, Good(t), NEW n \in DOMAIN t
  PROVE  LET u == [t EXCEPT ![n].words = @ + 1] IN Turns(t, u) /\ DOMAIN u = DOMAIN t
  <1>1. t[n] \in Row /\ t[n].words + 1 \in Nat  BY RowOf DEF Good
  <1> DEFINE row == [t[n] EXCEPT !.words = t[n].words + 1]
  <1>2. row \in Row /\ row.parent = t[n].parent /\ row.ord = t[n].ord  BY <1>1 DEF Row
  <1> HIDE DEF row
  <1>3. [t EXCEPT ![n].words = @ + 1] = [t EXCEPT ![n] = row]  BY DEF row
  <1> QED  BY <1>2, <1>3, RelabelledIs

-----------------------------------------------------------------------------
(* The records around the tree.                                            *)

\* What a delete captured names people there were, and hangs off its own.
Recorded(sets, there) ==
    \A j \in DOMAIN sets : /\ sets[j].who \in there
                           /\ \A m \in sets[j].mentions : m[1] = sets[j].who

Records ==
    /\ met \subseteq People /\ people \subseteq met /\ bonds \subseteq SUBSET people
    /\ mentions \subseteq people \X (DOMAIN tree)

Captures ==
    /\ Recorded(batch.sets, met)
    /\ \A i \in DOMAIN window : Recorded(window[i].sets, met)

Inv == Rows /\ Shape /\ Records /\ Captures

World == [ok : BOOLEAN, people : SUBSET People, bonds : SUBSET SUBSET People,
          mentions : SUBSET (People \X Nodes)]
Fine(w) ==
    /\ w \in World
    /\ w.people \subseteq met /\ w.bonds \subseteq SUBSET w.people
    /\ w.mentions \subseteq w.people \X (DOMAIN tree)

LEMMA RestoreSetIs ==
  ASSUME Records, IsTree(tree), NEW w, Fine(w), NEW s \in Sets, s.who \in met,
         \A m \in s.mentions : m[1] = s.who
  PROVE  Fine(RestoreSet(w, s))
  <1>1. CASE ~w.ok \/ s.who \in w.people \/ NameOf(s.who) \in {NameOf(q) : q \in w.people}
    <2>1. RestoreSet(w, s) = [w EXCEPT !.ok = FALSE]  BY <1>1 DEF RestoreSet
    <2>2. LET v == [w EXCEPT !.ok = FALSE] IN
          v \in World /\ v.people = w.people /\ v.bonds = w.bonds /\ v.mentions = w.mentions
      BY DEF Fine, World
    <2> QED  BY <2>1, <2>2 DEF Fine
  <1>2. CASE ~(~w.ok \/ s.who \in w.people \/ NameOf(s.who) \in {NameOf(q) : q \in w.people})
    <2> DEFINE pp == w.people \cup {s.who}
               bb == w.bonds \cup {b \in s.bonds : b \subseteq pp}
               mm == w.mentions \cup Standing(s.mentions, tree)
    <2>1. RestoreSet(w, s) = [ok |-> TRUE, people |-> pp, bonds |-> bb, mentions |-> mm]
      BY <1>2 DEF RestoreSet
    <2>2. pp \subseteq met /\ pp \subseteq People  BY DEF Fine, Records
    <2>3. bb \subseteq SUBSET pp  BY DEF Fine
    <2>4. mm \subseteq pp \X (DOMAIN tree)
      <3>1. Standing(s.mentions, tree) \subseteq pp \X (DOMAIN tree)  BY DEF Standing, Sets
      <3>2. w.mentions \subseteq pp \X (DOMAIN tree)  BY DEF Fine
      <3> QED  BY <3>1, <3>2
    <2>5. bb \in SUBSET SUBSET People /\ mm \in SUBSET (People \X Nodes)
      BY <2>2, <2>3, <2>4 DEF IsTree
    <2> HIDE DEF pp, bb, mm
    <2>6. [ok |-> TRUE, people |-> pp, bonds |-> bb, mentions |-> mm] \in World
      BY <2>2, <2>5 DEF World
    <2> QED  BY <2>1, <2>2, <2>3, <2>4, <2>6 DEF Fine
  <1> QED  BY <1>1, <1>2

LEMMA LeastExists ==
  ASSUME NEW n \in Nat, NEW T \in SUBSET (0..n), T # {}
  PROVE  \E k \in T : \A j \in T : k <= j
  <1> DEFINE R == {x \in T \X T : x[1] >= x[2]}
  <1>1. IsFiniteSet(T)
    <2>1. 0 \in Int /\ n \in Int  OBVIOUS
    <2>2. IsFiniteSet(0..n)  BY <2>1, FS_Interval
    <2> QED  BY <2>2, FS_Subset
  <1>2. /\ \A x, y \in T : <<x, y>> \in R \/ <<y, x>> \in R
        /\ \A x, y, z \in T : <<x, y>> \in R /\ <<y, z>> \in R => <<x, z>> \in R
        /\ \A x, y \in T : <<x, y>> \in R => y <= x
    OBVIOUS
  <1> HIDE DEF R
  <1>3. \E m \in T : \A x \in T : <<x, m>> \in R  BY <1>1, <1>2, GreatestExists
  <1> QED  BY <1>2, <1>3

\* Putting right one capture after another is a function of how many are done.
\* There is no such function only if there is a least number it goes wrong at.
LEMMA PutRightSteps ==
  ASSUME Records, IsTree(tree), NEW sets \in Seq(Sets), Recorded(sets, met)
  PROVE  \E back :
           /\ back[0] = [ok |-> TRUE, people |-> people, bonds |-> bonds, mentions |-> mentions]
           /\ \A i \in 1..Len(sets) : back[i] = RestoreSet(back[i - 1], sets[Len(sets) + 1 - i])
           /\ \A i \in 0..Len(sets) : Fine(back[i])
           /\ PutRight(sets) = back[Len(sets)]
  <1> DEFINE n == Len(sets)
             base == [ok |-> TRUE, people |-> people, bonds |-> bonds, mentions |-> mentions]
             Next_(w, i) == RestoreSet(w, sets[n + 1 - i])
             Upto(k, f) == f = [i \in 0..k |-> IF i = 0 THEN base ELSE Next_(f[i - 1], i)]
             back == CHOOSE f : Upto(n, f)
  <1>1. n \in Nat  OBVIOUS
  <1>2. PutRight(sets) = back[n]  BY DEF PutRight
  <1>3. Fine(base)
    <2>1. base \in World  BY DEF Records, World, IsTree
    <2> QED  BY <2>1 DEF Fine, Records
  <1>4. \A w, i : i \in 1..n /\ Fine(w) => Fine(Next_(w, i))
    <2> SUFFICES ASSUME NEW w, NEW i \in 1..n, Fine(w) PROVE Fine(Next_(w, i))  OBVIOUS
    <2>1. n + 1 - i \in DOMAIN sets /\ sets[n + 1 - i] \in Sets  BY <1>1
    <2>2. sets[n + 1 - i].who \in met /\ \A m \in sets[n + 1 - i].mentions : m[1] = sets[n + 1 - i].who
      BY <2>1 DEF Recorded
    <2> QED  BY <2>1, <2>2, RestoreSetIs
  <1> HIDE DEF n, base, Next_
  <1>5. \E f : Upto(n, f)
    <2> DEFINE Bad == {k \in 0..n : ~\E f : Upto(k, f)}
    <2> SUFFICES ASSUME Bad # {} PROVE FALSE  BY <1>1
    <2>1. PICK k \in Bad : \A j \in Bad : k <= j  BY <1>1, LeastExists
    <2>2. k \in 0..n /\ ~\E f : Upto(k, f)  OBVIOUS
    <2>3. k # 0
      <3> DEFINE f == [i \in 0..0 |-> base]
      <3>1. Upto(0, f)  OBVIOUS
      <3> QED  BY <2>2, <3>1
    <2>4. k - 1 \in 0..n /\ k - 1 \notin Bad
      <3>1. k \in 0..n /\ k - 1 \in 0..n  BY <1>1, <2>2, <2>3
      <3> HIDE DEF Bad
      <3> QED  BY <2>1, <3>1
    <2>5. PICK f : Upto(k - 1, f)  BY <2>4
    <2> DEFINE g == [i \in 0..k |-> IF i = k THEN Next_(f[k - 1], k) ELSE f[i]]
    <2>6. \A i \in 0..k : g[i] = IF i = 0 THEN base ELSE Next_(g[i - 1], i)
      <3> SUFFICES ASSUME NEW i \in 0..k PROVE g[i] = IF i = 0 THEN base ELSE Next_(g[i - 1], i)
        OBVIOUS
      <3>1. k \in Nat /\ i \in Nat  BY <1>1, <2>2
      <3>2. CASE i = k
        <4>1. g[i] = Next_(f[k - 1], k)  BY <3>1, <3>2
        <4>2. g[i - 1] = f[k - 1]  BY <2>3, <3>1, <3>2
        <4> QED  BY <2>3, <3>2, <4>1, <4>2
      <3>3. CASE i # k /\ i # 0
        <4>1. i \in 0..(k - 1) /\ i - 1 \in 0..k /\ i - 1 # k  BY <3>1, <3>3
        <4>2. g[i] = f[i] /\ g[i - 1] = f[i - 1]  BY <3>3, <4>1
        <4>3. f[i] = Next_(f[i - 1], i)  BY <2>5, <3>3, <4>1
        <4> QED  BY <3>3, <4>2, <4>3
      <3>4. CASE i = 0 /\ i # k
        <4>1. i \in 0..(k - 1)  BY <3>1, <3>4
        <4>2. g[i] = f[i] /\ f[i] = base  BY <2>5, <3>4, <4>1
        <4> QED  BY <3>4, <4>2
      <3> QED  BY <3>2, <3>3, <3>4
    <2>7. Upto(k, g)  BY <2>6
    <2> QED  BY <2>2, <2>7
  <1>6. Upto(n, back)  BY <1>5
  <1> HIDE DEF back
  <1>7. back[0] = base /\ \A i \in 1..n : back[i] = Next_(back[i - 1], i)  BY <1>1, <1>6
  <1>8. \A i \in 0..n : Fine(back[i])
    <2> DEFINE Bad == {k \in 0..n : ~Fine(back[k])}
    <2> SUFFICES ASSUME Bad # {} PROVE FALSE  OBVIOUS
    <2>1. PICK k \in Bad : \A j \in Bad : k <= j  BY <1>1, LeastExists
    <2>2. k # 0  BY <1>3, <1>7
    <2>3. k - 1 \in 0..n /\ k - 1 \notin Bad /\ k \in 1..n  BY <1>1, <2>1, <2>2
    <2> QED  BY <1>4, <1>7, <2>3
  <1> QED  BY <1>2, <1>7, <1>8 DEF n, base, Next_

LEMMA PutRightIs ==
  ASSUME Records, IsTree(tree), NEW sets \in Seq(Sets), Recorded(sets, met)
  PROVE  Fine(PutRight(sets))
  <1>1. Len(sets) \in 0..Len(sets)  OBVIOUS
  <1> QED  BY <1>1, PutRightSteps

-----------------------------------------------------------------------------
(* What a step leaves of the window and the batch.                         *)

LEMMA RecordedGrows ==
  ASSUME NEW sets, NEW here, NEW there, here \subseteq there, Recorded(sets, here)
  PROVE  Recorded(sets, there)
  BY DEF Recorded

LEMMA NoBatchIs == NoBatch \in Batch /\ NoBatch.before = NoTree /\ NoBatch.sets = <<>>
  <1>1. NoTree \in Trees  BY NothingIsGood, TreesAre DEF Good
  <1>2. <<>> \in Seq(Sets)  OBVIOUS
  <1> QED  BY <1>1, <1>2 DEF NoBatch, Batch

\* A window whose outlines were kept and whose captures were made.
LEMMA WindowKeeps ==
  ASSUME Shape, Captures, met \subseteq met', kept' = kept,
         window' \in Seq(Change), Len(window') <= Window, undoing' \in 0..Len(window'),
         \A i \in DOMAIN window' : /\ window'[i].nodes \in Snaps \cup {NoTree}
                                   /\ Recorded(window'[i].sets, met),
         batch' \in Batch, batch'.before \in {batch.before, NoTree}, Recorded(batch'.sets, met')
  PROVE  Shape' /\ Captures' /\ Snaps' \subseteq Snaps \cup {NoTree}
  <1>1. Shape'  BY DEF Shape
  <1>2. \A i \in DOMAIN window' : Recorded(window'[i].sets, met')  BY RecordedGrows
  <1>3. Captures'  BY <1>2 DEF Captures
  <1>4. {window'[i].nodes : i \in DOMAIN window'} \subseteq Snaps \cup {NoTree}  OBVIOUS
  <1>5. batch.before \in Snaps /\ kept \in Snaps  BY DEF Snaps
  <1>6. Snaps' = {batch'.before, kept'} \cup {window'[i].nodes : i \in DOMAIN window'}  BY DEF Snaps
  <1> QED  BY <1>1, <1>3, <1>4, <1>5, <1>6

\* The window as it was, but for its marks.
LEMMA SinceKeeps ==
  ASSUME Shape, Captures, met \subseteq met', kept' = kept, window' \in {window, Since(window)},
         undoing' \in {undoing, 0},
         batch' \in Batch, batch'.before \in {batch.before, NoTree}, Recorded(batch'.sets, met')
  PROVE  /\ Shape' /\ Captures' /\ Snaps' \subseteq Snaps \cup {NoTree}
         /\ batch'.before = batch.before => Snaps' = Snaps
  <1>1. /\ window' \in Seq(Change) /\ Len(window') = Len(window) /\ DOMAIN window' = DOMAIN window
        /\ \A i \in DOMAIN window :
              window'[i].nodes = window[i].nodes /\ window'[i].sets = window[i].sets
    <2>1. window \in Seq(Change)  BY DEF Shape
    <2>2. CASE window' = Since(window)  BY <2>1, <2>2, SinceIs
    <2>3. CASE window' = window  BY <2>1, <2>3
    <2> QED  BY <2>2, <2>3
  <1>2. Len(window') <= Window /\ undoing' \in 0..Len(window')  BY <1>1 DEF Shape
  <1>3. \A i \in DOMAIN window' : /\ window'[i].nodes \in Snaps \cup {NoTree}
                                  /\ Recorded(window'[i].sets, met)
    BY <1>1 DEF Snaps, Captures
  <1>4. Shape' /\ Captures' /\ Snaps' \subseteq Snaps \cup {NoTree}
    BY <1>1, <1>2, <1>3, WindowKeeps
  <1>5. {window'[i].nodes : i \in DOMAIN window'} = {window[i].nodes : i \in DOMAIN window}  BY <1>1
  <1>6. batch'.before = batch.before => Snaps' = Snaps  BY <1>5 DEF Snaps
  <1> QED  BY <1>4, <1>6

\* What the writer's edits leave: the batch is no longer alone.
LEMMA MarkedIs ==
  ASSUME Shape, Captures, met \subseteq met', Touched
  PROVE  /\ Shape' /\ Captures' /\ batch'.before = batch.before
         /\ {window'[i].nodes : i \in DOMAIN window'} = {window[i].nodes : i \in DOMAIN window}
  <1>1. window \in Seq(Change) /\ batch \in Batch  BY DEF Shape
  <1>2. /\ Since(window) \in Seq(Change) /\ Len(Since(window)) = Len(window)
        /\ DOMAIN Since(window) = DOMAIN window
        /\ \A i \in DOMAIN window : /\ Since(window)[i].nodes = window[i].nodes
                                    /\ Since(window)[i].sets = window[i].sets
    BY <1>1, SinceIs
  <1>3. \A b \in Batch : LET c == [b EXCEPT !.alone = FALSE] IN
                         c \in Batch /\ c.before = b.before /\ c.sets = b.sets
    BY DEF Batch
  <1>4. batch' \in Batch /\ batch'.before = batch.before /\ batch'.sets = batch.sets
    BY <1>1, <1>3 DEF Touched
  <1>5. window' = Since(window) /\ undoing' = undoing  BY DEF Touched
  <1>6. Shape'  BY <1>2, <1>4, <1>5 DEF Shape
  <1>7. /\ Recorded(batch'.sets, met')
        /\ \A i \in DOMAIN window : Recorded(window[i].sets, met')
    BY <1>4, RecordedGrows DEF Captures
  <1>8. Captures'  BY <1>2, <1>5, <1>7 DEF Captures
  <1>9. {window'[i].nodes : i \in DOMAIN window'} = {window[i].nodes : i \in DOMAIN window}
    BY <1>2, <1>5
  <1> QED  BY <1>4, <1>6, <1>8, <1>9

LEMMA TouchedKeeps ==
  ASSUME Shape, Captures, met \subseteq met', Touched, kept' = kept
  PROVE  Shape' /\ Captures' /\ Snaps' = Snaps
  BY MarkedIs DEF Snaps

\* The mentions of scenes that went are gone.
LEMMA PlantKeeps ==
  ASSUME Records, met' = met, people' = people, bonds' = bonds,
         mentions' = Standing(mentions, tree')
  PROVE  Records'
  BY DEF Records, Standing

\* A step that leaves the rows alone: it keeps an outline, or forgets some.
LEMMA StillRows ==
  ASSUME Rows, tree' = tree, made' = made, Snaps' \subseteq Snaps \cup {tree, NoTree}
  PROVE  Rows' /\ [Order!Next]_(Order!vars)
  <1>1. made \in Nat /\ MaxNodes \in Nat  BY StartAssumption DEF Rows
  <1>2. Rows'  BY <1>1, RowsKeep DEF Rows
  <1>3. Keptback = Snaps \ {NoTree} /\ Keptback' = Snaps' \ {NoTree}  BY DEF Keptback, Snaps
  <1> QED  BY <1>2, <1>3, KeepOfOrder

\* A step that brings back an outline that was kept.
LEMMA BroughtBack ==
  ASSUME Rows, NEW snap \in Snaps, snap # NoTree, tree' = Restored(tree, snap), made' = made,
         Snaps' \subseteq Snaps \cup {NoTree}
  PROVE  Rows' /\ [Order!Next]_(Order!vars)
  <1>1. made \in Nat /\ MaxNodes \in Nat  BY StartAssumption DEF Rows
  <1>2. Good(tree') /\ DOMAIN tree' = DOMAIN snap /\ Same(snap, tree')
    BY RestoredIs DEF Rows, Good
  <1>3. Rows'  BY <1>1, <1>2, RowsKeep DEF Rows
  <1>4. Keptback = Snaps \ {NoTree} /\ Keptback' = Snaps' \ {NoTree}  BY DEF Keptback, Snaps
  <1> QED  BY <1>2, <1>3, <1>4, BringBackOfOrder

-----------------------------------------------------------------------------
(* The steps of the writer.                                                *)

Goes == Inv' /\ [Order!Next]_(Order!vars)

\* An edit plants a tree.
LEMMA EditGoes ==
  ASSUME Inv, EditTree(tree'), Turns(tree, tree'),
         \/ made' = made /\ DOMAIN tree' \subseteq DOMAIN tree
         \/ made < MaxNodes /\ made' = made + 1 /\ DOMAIN tree' = DOMAIN tree \cup {made + 1}
  PROVE  Goes
  <1>1. /\ Touched /\ kept' = kept /\ met' = met /\ people' = people /\ bonds' = bonds
        /\ mentions' = Standing(mentions, tree')
    BY DEF EditTree, Edit, Plant
  <1>2. Shape' /\ Captures' /\ Snaps' = Snaps  BY <1>1, TouchedKeeps DEF Inv
  <1>3. Records'  BY <1>1, PlantKeeps DEF Inv
  <1>4. Rows' /\ [Order!Next]_(Order!vars)  BY <1>2, TreeSteps DEF Inv
  <1> QED  BY <1>2, <1>3, <1>4 DEF Inv, Goes

LEMMA CreateGoes ==
  ASSUME Inv, CreateSibling \/ CreateChild
  PROVE  Goes
  <1>1. Good(tree) /\ made < MaxNodes /\ made' = made + 1
    BY DEF Inv, Rows, CreateSibling, CreateChild
  <1>2. made + 1 \in Nodes \ DOMAIN tree  BY <1>1, FreshId DEF Inv
  <1>3. CASE CreateSibling
    <2>1. PICK ref \in DOMAIN tree, kind \in Kinds, label \in Labels :
            EditTree(AfterSibling(tree, made + 1, ref, kind, label))
      BY <1>3 DEF CreateSibling
    <2>2. tree' = AfterSibling(tree, made + 1, ref, kind, label)  BY <2>1 DEF EditTree, Plant
    <2>3. Turns(tree, tree') /\ DOMAIN tree' = DOMAIN tree \cup {made + 1}
      <3> DEFINE u == AfterSibling(tree, made + 1, ref, kind, label)
      <3>1. Good(u) /\ Adds(tree, u) /\ DOMAIN u = DOMAIN tree \cup {made + 1}
        BY <1>1, <1>2, AfterSiblingIs
      <3> QED  BY <2>2, <3>1 DEF Turns
    <2> QED  BY <1>1, <2>1, <2>2, <2>3, EditGoes
  <1>4. CASE CreateChild
    <2>1. PICK p \in DOMAIN tree, kind \in Kinds, label \in Labels :
            EditTree(AsLast(tree, made + 1, p, kind, label))
      BY <1>4 DEF CreateChild
    <2>2. tree' = AsLast(tree, made + 1, p, kind, label)  BY <2>1 DEF EditTree, Plant
    <2>3. Turns(tree, tree') /\ DOMAIN tree' = DOMAIN tree \cup {made + 1}
      <3>1. p \in Places(tree)  BY DEF Places
      <3> QED  BY <1>1, <1>2, <2>2, <3>1, AsLastIs DEF Turns
    <2> QED  BY <1>1, <2>1, <2>2, <2>3, EditGoes
  <1> QED  BY <1>3, <1>4

LEMMA RearrangeGoes ==
  ASSUME Inv, Rename \/ Delete \/ MoveUp \/ MoveDown \/ MoveTo \/ MoveUnder \/ Convert
  PROVE  Goes
  <1>1. Good(tree) /\ IsTree(tree)  BY DEF Inv, Rows, Good
  <1>2. made' = made  BY DEF Rename, Delete, MoveUp, MoveDown, MoveTo, MoveUnder, Convert
  <1>3. \E t : EditTree(t) /\ Turns(tree, t) /\ DOMAIN t \subseteq DOMAIN tree
    <2>1. CASE Rename
      <3>1. PICK n \in DOMAIN tree, label \in Labels : EditTree([tree EXCEPT ![n].label = label])
        BY <2>1 DEF Rename
      <3> QED  BY <1>1, <3>1, RenamedIs
    <2>2. CASE Delete
      <3>1. PICK n \in DOMAIN tree : EditTree(Without(tree, n))  BY <2>2 DEF Delete
      <3> QED  BY <1>1, <3>1, WithoutIs DEF Turns
    <2>3. CASE MoveUp
      <3>1. PICK n \in DOMAIN tree : EditTree(MovedUp(tree, n))  BY <2>3 DEF MoveUp
      <3>2. Good(MovedUp(tree, n)) /\ Moves(tree, MovedUp(tree, n))  BY <1>1, MovedUpIs
      <3> QED  BY <3>1, <3>2 DEF Turns, Moves
    <2>4. CASE MoveDown
      <3>1. PICK n \in DOMAIN tree : EditTree(MovedDown(tree, n))  BY <2>4 DEF MoveDown
      <3>2. Good(MovedDown(tree, n)) /\ Moves(tree, MovedDown(tree, n))  BY <1>1, MovedDownIs
      <3> QED  BY <3>1, <3>2 DEF Turns, Moves
    <2>5. CASE MoveTo
      <3>1. PICK n \in DOMAIN tree, p \in DOMAIN tree \cup {Root} :
              /\ CanHold(tree, n, p)
              /\ \E place \in 0..Cardinality(Kids(tree, p) \ {n}) :
                    EditTree(MovedTo(tree, n, p, place))
        BY <2>5 DEF MoveTo
      <3>2. PICK place \in 0..Cardinality(Kids(tree, p) \ {n}) :
              EditTree(MovedTo(tree, n, p, place))
        BY <3>1
      <3>3. place \in Nat
        <4>1. IsFiniteSet(Kids(tree, p) \ {n})  BY <1>1, KidsAreFinite, FS_Subset
        <4> QED  BY <3>2, <4>1, FS_CardinalityType
      <3>4. Good(MovedTo(tree, n, p, place)) /\ Moves(tree, MovedTo(tree, n, p, place))
        BY <1>1, <3>1, <3>3, MovedToIs
      <3> QED  BY <3>2, <3>4 DEF Turns, Moves
    <2>6. CASE MoveUnder
      <3>1. PICK n \in DOMAIN tree, p \in DOMAIN tree \cup {Root} :
              CanHold(tree, n, p) /\ EditTree(MovedUnder(tree, n, p))
        BY <2>6 DEF MoveUnder
      <3>2. Good(MovedUnder(tree, n, p)) /\ Moves(tree, MovedUnder(tree, n, p))
        BY <1>1, <3>1, MovedUnderIs
      <3> QED  BY <3>1, <3>2 DEF Turns, Moves
    <2>7. CASE Convert
      <3>1. PICK n \in DOMAIN tree : EditTree([tree EXCEPT ![n].kind = "container"])
        BY <2>7 DEF Convert
      <3> QED  BY <1>1, <3>1, ConvertedIs
    <2> QED  BY <2>1, <2>2, <2>3, <2>4, <2>5, <2>6, <2>7
  <1>4. EditTree(tree') /\ Turns(tree, tree') /\ DOMAIN tree' \subseteq DOMAIN tree
    BY <1>3 DEF EditTree, Plant
  <1> QED  BY <1>2, <1>4, EditGoes

LEMMA WriteGoes ==
  ASSUME Inv, Write
  PROVE  Goes
  <1>1. PICK n \in DOMAIN tree, named \in SUBSET people :
          /\ tree' = [tree EXCEPT ![n].words = @ + 1]
          /\ mentions' = {m \in mentions : m[2] # n} \cup {<<p, n>> : p \in named}
    BY DEF Write
  <1>2. /\ Touched /\ kept' = kept /\ met' = met /\ made' = made /\ people' = people
        /\ bonds' = bonds
    BY DEF Write, Edit, ids
  <1>3. Turns(tree, tree') /\ DOMAIN tree' = DOMAIN tree  BY <1>1, WrittenIs DEF Inv, Rows
  <1>4. Shape' /\ Captures' /\ Snaps' = Snaps  BY <1>2, TouchedKeeps DEF Inv
  <1>5. mentions' \subseteq people \X (DOMAIN tree)  BY <1>1 DEF Inv, Records
  <1>6. Records'  BY <1>2, <1>3, <1>5 DEF Inv, Records
  <1>7. Rows' /\ [Order!Next]_(Order!vars)  BY <1>2, <1>3, <1>4, TreeSteps DEF Inv
  <1> QED  BY <1>4, <1>6, <1>7 DEF Inv, Goes

LEMMA DropKeeps ==
  ASSUME Records, NEW p \in people, DropPerson(p), met' = met, tree' = tree
  PROVE  Records'
  <1>1. /\ people' = people \ {p} /\ bonds' = {b \in bonds : p \notin b}
        /\ mentions' = {m \in mentions : m[1] # p}
    BY DEF DropPerson, Friends, Scenes
  <1>2. bonds' \subseteq SUBSET people'  BY <1>1 DEF Records
  <1>3. mentions' \subseteq people' \X (DOMAIN tree)  BY <1>1 DEF Records
  <1> QED  BY <1>1, <1>2, <1>3 DEF Records

LEMMA NewPersonKeeps ==
  ASSUME Records, NewPerson, bonds' = bonds, mentions' = mentions, tree' = tree
  PROVE  Records' /\ met \subseteq met'
  BY DEF Records, NewPerson

LEMMA PeopleGo ==
  ASSUME Inv, AddPerson \/ Bind \/ RemovePerson
  PROVE  Goes
  <1>1. Touched /\ kept' = kept /\ made' = made /\ tree' = tree
    BY DEF AddPerson, Bind, RemovePerson, Edit, ids
  <1>2. Records' /\ met \subseteq met'
    <2>1. CASE AddPerson  BY <2>1, NewPersonKeeps DEF Inv, AddPerson
    <2>2. CASE Bind
      <3>1. PICK p, q \in people : bonds' = bonds \cup {{p, q}}  BY <2>2 DEF Bind
      <3>2. met' = met /\ people' = people /\ mentions' = mentions  BY <2>2 DEF Bind, ids
      <3> QED  BY <1>1, <3>1, <3>2 DEF Inv, Records
    <2>3. CASE RemovePerson
      <3>1. met' = met  BY <2>3 DEF RemovePerson, ids
      <3>2. PICK p \in people : DropPerson(p)  BY <2>3 DEF RemovePerson
      <3> QED  BY <1>1, <3>1, <3>2, DropKeeps DEF Inv
    <2> QED  BY <2>1, <2>2, <2>3
  <1>3. Shape' /\ Captures' /\ Snaps' = Snaps  BY <1>1, <1>2, TouchedKeeps DEF Inv
  <1>4. Rows' /\ [Order!Next]_(Order!vars)  BY <1>1, <1>3, StillRows DEF Inv
  <1> QED  BY <1>2, <1>3, <1>4 DEF Inv, Goes

\* A repair keeps the outline there is; taking it back brings that one back.
LEMMA RepairGoes ==
  ASSUME Inv, StartRepair \/ UndoRepair
  PROVE  Goes
  <1>1. Touched /\ made' = made /\ met' = met /\ people' = people /\ bonds' = bonds
    BY DEF StartRepair, UndoRepair, Edit, ids, world
  <1>2. /\ Shape' /\ Captures' /\ batch'.before = batch.before
        /\ {window'[i].nodes : i \in DOMAIN window'} = {window[i].nodes : i \in DOMAIN window}
    BY <1>1, MarkedIs DEF Inv
  <1>3. CASE StartRepair
    <2>1. kept' = tree /\ tree' = tree /\ mentions' = mentions  BY <1>3 DEF StartRepair, world
    <2>2. Records'  BY <1>1, <2>1 DEF Inv, Records
    <2>3. Snaps' \subseteq Snaps \cup {tree, NoTree}  BY <1>2, <2>1 DEF Snaps
    <2>4. Rows' /\ [Order!Next]_(Order!vars)  BY <1>1, <2>1, <2>3, StillRows DEF Inv
    <2> QED  BY <1>2, <2>2, <2>4 DEF Inv, Goes
  <1>4. CASE UndoRepair
    <2>1. /\ kept # NoTree /\ kept' = NoTree
          /\ tree' = Restored(tree, kept) /\ mentions' = Standing(mentions, tree')
      BY <1>4 DEF UndoRepair, Plant
    <2>2. Records'  BY <1>1, <2>1, PlantKeeps DEF Inv
    <2>3. kept \in Snaps /\ Snaps' \subseteq Snaps \cup {NoTree}  BY <1>2, <2>1 DEF Snaps
    <2>4. Rows' /\ [Order!Next]_(Order!vars)  BY <1>1, <2>1, <2>3, BroughtBack DEF Inv
    <2> QED  BY <1>2, <2>2, <2>4 DEF Inv, Goes
  <1> QED  BY <1>3, <1>4

LEMMA WriterGoes ==
  ASSUME Inv, Writer
  PROVE  Goes
  BY CreateGoes, RearrangeGoes, WriteGoes, PeopleGo, RepairGoes DEF Writer

-----------------------------------------------------------------------------
(* The steps of a batch.                                                   *)

LEMMA BeginGoes ==
  ASSUME Inv, NEW structural \in BOOLEAN, BeginBatch(structural)
  PROVE  Goes
  <1> DEFINE before == IF structural THEN tree ELSE NoTree
  <1>1. /\ batch' = [NoBatch EXCEPT !.pc = "open", !.structural = structural, !.before = before]
        /\ window' = window /\ undoing' = undoing /\ kept' = kept /\ tree' = tree
    BY DEF BeginBatch
  <1>2. made' = made /\ met' = met /\ people' = people /\ bonds' = bonds /\ mentions' = mentions
    BY DEF BeginBatch, ids, world
  <1>3. before \in Trees /\ before \in {tree, NoTree}
    BY TreesAre, NothingIsGood DEF Inv, Rows, Good
  <1> HIDE DEF before
  <1>4. batch' \in Batch /\ batch'.before = before /\ batch'.sets = <<>>
    <2>1. ASSUME NEW s \in BOOLEAN, NEW t \in Trees
          PROVE  LET b == [NoBatch EXCEPT !.pc = "open", !.structural = s, !.before = t] IN
                 b \in Batch /\ b.before = t /\ b.sets = <<>>
      BY NoBatchIs DEF Batch
    <2> QED  BY <1>1, <1>3, <2>1
  <1>5. Shape'  BY <1>1, <1>4 DEF Inv, Shape
  <1>6. Captures'  BY <1>1, <1>2, <1>4 DEF Inv, Captures, Recorded
  <1>7. Records'  BY <1>1, <1>2 DEF Inv, Records
  <1>8. Snaps' \subseteq Snaps \cup {tree, NoTree}  BY <1>1, <1>3, <1>4 DEF Snaps
  <1>9. Rows' /\ [Order!Next]_(Order!vars)  BY <1>1, <1>2, <1>8, StillRows DEF Inv
  <1> QED  BY <1>5, <1>6, <1>7, <1>9 DEF Inv, Goes

\* An op on the outline plants a tree.
LEMMA RestructureGoes ==
  ASSUME Inv, Restructure(tree'), Turns(tree, tree'),
         \/ made' = made /\ DOMAIN tree' \subseteq DOMAIN tree
         \/ made < MaxNodes /\ made' = made + 1 /\ DOMAIN tree' = DOMAIN tree \cup {made + 1}
  PROVE  Goes
  <1>1. /\ mentions' = Standing(mentions, tree') /\ met' = met /\ people' = people
        /\ bonds' = bonds /\ kept' = kept /\ undoing' = undoing /\ window' = Since(window)
        /\ batch' = [batch EXCEPT !.tried = TRUE, !.any = TRUE]
    BY DEF Restructure, Plant
  <1>2. \A b \in Batch : LET c == [b EXCEPT !.tried = TRUE, !.any = TRUE] IN
                         c \in Batch /\ c.before = b.before /\ c.sets = b.sets
    BY DEF Batch
  <1>3. batch' \in Batch /\ batch'.before = batch.before /\ batch'.sets = batch.sets
    BY <1>1, <1>2 DEF Inv, Shape
  <1>4. Recorded(batch'.sets, met')  BY <1>1, <1>3 DEF Inv, Captures
  <1>5. Shape' /\ Captures' /\ Snaps' = Snaps  BY <1>1, <1>3, <1>4, SinceKeeps DEF Inv
  <1>6. Records'  BY <1>1, PlantKeeps DEF Inv
  <1>7. Rows' /\ [Order!Next]_(Order!vars)  BY <1>5, TreeSteps DEF Inv
  <1> QED  BY <1>5, <1>6, <1>7 DEF Inv, Goes

\* The tree as it stands, planted again.
LEMMA AgainIs ==
  ASSUME NEW t, Good(t)
  PROVE  Turns(t, t)
  BY DEF Turns, Same

LEMMA OpCreateGoes ==
  ASSUME Inv, OpCreateScene \/ OpCreateNode
  PROVE  Goes
  <1>1. Good(tree)  BY DEF Inv, Rows
  <1>2. ASSUME made < MaxNodes, made' = made + 1, NEW kind \in Kinds, NEW label \in Labels,
               \/ \E ref \in DOMAIN tree :
                     Restructure(AfterSibling(tree, made + 1, ref, kind, label))
               \/ \E p \in DOMAIN tree \cup {Root} :
                     Restructure(AsLast(tree, made + 1, p, kind, label))
        PROVE  Goes
    <2>1. made + 1 \in Nodes \ DOMAIN tree  BY <1>2, FreshId DEF Inv
    <2>2. CASE \E ref \in DOMAIN tree :
                  Restructure(AfterSibling(tree, made + 1, ref, kind, label))
      <3>1. PICK ref \in DOMAIN tree : Restructure(AfterSibling(tree, made + 1, ref, kind, label))
        BY <2>2
      <3> DEFINE u == AfterSibling(tree, made + 1, ref, kind, label)
      <3>2. Good(u) /\ Adds(tree, u) /\ DOMAIN u = DOMAIN tree \cup {made + 1}
        BY <1>1, <2>1, AfterSiblingIs
      <3>3. tree' = u  BY <3>1 DEF Restructure, Plant
      <3>4. Turns(tree, tree') /\ DOMAIN tree' = DOMAIN tree \cup {made + 1}
        BY <3>2, <3>3 DEF Turns
      <3>5. Restructure(tree')  BY <3>1, <3>3
      <3> QED  BY <1>2, <3>4, <3>5, RestructureGoes
    <2>3. CASE \E p \in DOMAIN tree \cup {Root} :
                  Restructure(AsLast(tree, made + 1, p, kind, label))
      <3>1. PICK p \in DOMAIN tree \cup {Root} :
              Restructure(AsLast(tree, made + 1, p, kind, label))
        BY <2>3
      <3> DEFINE u == AsLast(tree, made + 1, p, kind, label)
      <3>2. Good(u) /\ Adds(tree, u) /\ DOMAIN u = DOMAIN tree \cup {made + 1}
        <4>1. p \in Places(tree)  BY DEF Places
        <4> QED  BY <1>1, <2>1, <4>1, AsLastIs
      <3>3. tree' = u  BY <3>1 DEF Restructure, Plant
      <3>4. Turns(tree, tree') /\ DOMAIN tree' = DOMAIN tree \cup {made + 1}
        BY <3>2, <3>3 DEF Turns
      <3>5. Restructure(tree')  BY <3>1, <3>3
      <3> QED  BY <1>2, <3>4, <3>5, RestructureGoes
    <2> QED  BY <1>2, <2>2, <2>3
  <1>3. CASE OpCreateScene
    <2>1. "leaf" \in Kinds  BY DEF Kinds
    <2> QED  BY <1>2, <1>3, <2>1 DEF OpCreateScene
  <1>4. CASE OpCreateNode
    <2>1. PICK kind \in Kinds, label \in Labels, p \in DOMAIN tree \cup {Root} :
             IF Matches(p, kind, label) # {}
             THEN Restructure(tree) /\ UNCHANGED made
             ELSE /\ made < MaxNodes /\ made' = made + 1
                  /\ \/ Restructure(AsLast(tree, made + 1, p, kind, label))
                     \/ \E ref \in Kids(tree, p) :
                           Restructure(AfterSibling(tree, made + 1, ref, kind, label))
      BY <1>4 DEF OpCreateNode
    <2>2. CASE Restructure(tree) /\ made' = made
      <3>1. tree' = tree  BY <2>2 DEF Restructure, Plant
      <3>2. Turns(tree, tree')  BY <1>1, <3>1, AgainIs
      <3>3. Restructure(tree')  BY <2>2, <3>1
      <3> QED  BY <2>2, <3>1, <3>2, <3>3, RestructureGoes
    <2>3. CASE /\ made < MaxNodes /\ made' = made + 1
               /\ \/ Restructure(AsLast(tree, made + 1, p, kind, label))
                  \/ \E ref \in Kids(tree, p) :
                        Restructure(AfterSibling(tree, made + 1, ref, kind, label))
      <3>1. Kids(tree, p) \subseteq DOMAIN tree  BY DEF Kids
      <3> QED  BY <1>2, <2>3, <3>1
    <2> QED  BY <2>1, <2>2, <2>3
  <1> QED  BY <1>3, <1>4

LEMMA OpRearrangeGoes ==
  ASSUME Inv, OpRename \/ OpDelete \/ OpMove
  PROVE  Goes
  <1>1. Good(tree)  BY DEF Inv, Rows
  <1>2. made' = made  BY DEF OpRename, OpDelete, OpMove
  <1>3. \E t : Restructure(t) /\ Turns(tree, t) /\ DOMAIN t \subseteq DOMAIN tree
    <2>1. CASE OpRename
      <3>1. PICK n \in DOMAIN tree, label \in Labels :
              Restructure([tree EXCEPT ![n].label = label])
        BY <2>1 DEF OpRename
      <3> QED  BY <1>1, <3>1, RenamedIs
    <2>2. CASE OpDelete
      <3>1. PICK n \in DOMAIN tree : Restructure(Without(tree, n))  BY <2>2 DEF OpDelete
      <3> QED  BY <1>1, <3>1, WithoutIs DEF Turns
    <2>3. CASE OpMove
      <3>1. PICK n \in DOMAIN tree :
              \/ Restructure(MovedUp(tree, n))
              \/ Restructure(MovedDown(tree, n))
              \/ \E p \in DOMAIN tree :
                    CanHold(tree, n, p) /\ Restructure(MovedUnder(tree, n, p))
        BY <2>3 DEF OpMove
      <3>2. Turns(tree, MovedUp(tree, n)) /\ DOMAIN MovedUp(tree, n) = DOMAIN tree
        BY <1>1, MovedUpIs DEF Turns, Moves
      <3>3. Turns(tree, MovedDown(tree, n)) /\ DOMAIN MovedDown(tree, n) = DOMAIN tree
        BY <1>1, MovedDownIs DEF Turns, Moves
      <3>4. ASSUME NEW p \in DOMAIN tree, CanHold(tree, n, p)
            PROVE  Turns(tree, MovedUnder(tree, n, p)) /\ DOMAIN MovedUnder(tree, n, p) = DOMAIN tree
        BY <1>1, <3>4, MovedUnderIs DEF Turns, Moves
      <3> QED  BY <3>1, <3>2, <3>3, <3>4
    <2> QED  BY <2>1, <2>2, <2>3
  <1>4. Restructure(tree') /\ Turns(tree, tree') /\ DOMAIN tree' \subseteq DOMAIN tree
    BY <1>3 DEF Restructure, Plant
  <1> QED  BY <1>2, <1>4, RestructureGoes

\* An op that leaves the outline's places alone.
LEMMA ApplyKeeps ==
  ASSUME Inv, NEW sets \in Seq(Sets), NEW wrote \in SUBSET Nodes, Apply(sets, wrote),
         met \subseteq met', Recorded(sets, met)
  PROVE  Shape' /\ Captures' /\ Snaps' = Snaps
  <1>1. /\ batch' = [batch EXCEPT !.sets = @ \o sets, !.wrote = @ \cup wrote, !.any = TRUE]
        /\ window' = Since(window) /\ undoing' = undoing /\ kept' = kept
    BY DEF Apply
  <1>2. ASSUME NEW b \in Batch
        PROVE  LET c == [b EXCEPT !.sets = @ \o sets, !.wrote = @ \cup wrote, !.any = TRUE] IN
               c \in Batch /\ c.before = b.before /\ c.sets = b.sets \o sets
    <2>1. b.sets \in Seq(Sets) /\ b.wrote \in SUBSET Nodes  BY DEF Batch
    <2>2. b.sets \o sets \in Seq(Sets)  BY <2>1
    <2>3. b.wrote \cup wrote \in SUBSET Nodes  BY <2>1
    <2> DEFINE ss == b.sets \o sets
               ww == b.wrote \cup wrote
    <2> HIDE DEF ss, ww
    <2>4. LET c == [b EXCEPT !.sets = ss, !.wrote = ww, !.any = TRUE] IN
          c \in Batch /\ c.before = b.before /\ c.sets = ss
      BY <2>2, <2>3 DEF Batch, ss, ww
    <2> QED  BY <2>4 DEF ss, ww
  <1>3. batch' \in Batch /\ batch'.before = batch.before /\ batch'.sets = batch.sets \o sets
    BY <1>1, <1>2 DEF Inv, Shape
  <1>4. Recorded(batch'.sets, met')
    <2>1. Recorded(batch.sets, met') /\ Recorded(sets, met')
      BY RecordedGrows DEF Inv, Captures
    <2>2. batch.sets \in Seq(Sets)  BY DEF Inv, Shape, Batch
    <2>3. \A j \in DOMAIN batch'.sets :
            \/ j \in DOMAIN batch.sets /\ batch'.sets[j] = batch.sets[j]
            \/ \E i \in DOMAIN sets : batch'.sets[j] = sets[i]
      BY <1>3, <2>2
    <2> QED  BY <2>1, <2>3 DEF Recorded
  <1> QED  BY <1>1, <1>3, <1>4, SinceKeeps DEF Inv

LEMMA OpSetTextGoes ==
  ASSUME Inv, OpSetText
  PROVE  Goes
  <1>1. PICK n \in DOMAIN tree :
          tree' = [tree EXCEPT ![n].words = @ + 1] /\ Apply(<<>>, {n})
    BY DEF OpSetText
  <1>2. made' = made /\ met' = met /\ people' = people /\ bonds' = bonds /\ mentions' = mentions
    BY <1>1 DEF OpSetText, Apply, world
  <1>3. Good(tree) /\ n \in Nodes  BY <1>1 DEF Inv, Rows, Good, IsTree
  <1>4. Turns(tree, tree') /\ DOMAIN tree' = DOMAIN tree  BY <1>1, <1>3, WrittenIs
  <1>5. <<>> \in Seq(Sets) /\ Recorded(<<>>, met) /\ {n} \in SUBSET Nodes
    BY <1>3 DEF Recorded
  <1>6. Shape' /\ Captures' /\ Snaps' = Snaps  BY <1>1, <1>2, <1>5, ApplyKeeps
  <1>7. Rows' /\ [Order!Next]_(Order!vars)  BY <1>2, <1>4, <1>6, TreeSteps DEF Inv
  <1>8. Records'  BY <1>2, <1>4 DEF Inv, Records
  <1> QED  BY <1>6, <1>7, <1>8 DEF Inv, Goes

LEMMA OpPeopleGo ==
  ASSUME Inv, OpCreatePerson \/ OpDeletePerson
  PROVE  Goes
  <1>1. made' = made /\ tree' = tree  BY DEF OpCreatePerson, OpDeletePerson, Apply
  <1>2. Records' /\ Shape' /\ Captures' /\ Snaps' = Snaps
    <2>1. CASE OpCreatePerson
      <3>1. Records' /\ met \subseteq met'  BY <1>1, <2>1, NewPersonKeeps DEF Inv, OpCreatePerson
      <3>2. Apply(<<>>, {})  BY <2>1 DEF OpCreatePerson
      <3>3. <<>> \in Seq(Sets) /\ Recorded(<<>>, met) /\ {} \in SUBSET Nodes  BY DEF Recorded
      <3> QED  BY <3>1, <3>2, <3>3, ApplyKeeps
    <2>2. CASE OpDeletePerson
      <3>1. PICK p \in people : DropPerson(p) /\ Apply(<<Capture(p)>>, {})
        BY <2>2 DEF OpDeletePerson
      <3>2. met' = met  BY <2>2 DEF OpDeletePerson
      <3>3. Records'  BY <1>1, <3>1, <3>2, DropKeeps DEF Inv
      <3>4. /\ Capture(p) \in Sets /\ Capture(p).who \in met
            /\ \A m \in Capture(p).mentions : m[1] = Capture(p).who
        <4>1. Friends(p) \in SUBSET SUBSET People  BY DEF Friends, Inv, Records
        <4>2. mentions \subseteq People \X Nodes  BY DEF Inv, Records, Rows, Good, IsTree
        <4>3. Scenes(p) \in SUBSET (People \X Nodes) /\ \A m \in Scenes(p) : m[1] = p
          BY <4>2 DEF Scenes
        <4>4. p \in People /\ p \in met  BY <3>1 DEF Inv, Records
        <4> QED  BY <4>1, <4>3, <4>4 DEF Capture, Sets
      <3> DEFINE s == Capture(p)
      <3> HIDE DEF s
      <3>5. <<s>> \in Seq(Sets) /\ Recorded(<<s>>, met) /\ {} \in SUBSET Nodes
        BY <3>4 DEF Recorded, s
      <3>6. Apply(<<s>>, {})  BY <3>1 DEF s
      <3> QED  BY <3>2, <3>3, <3>5, <3>6, ApplyKeeps
    <2> QED  BY <2>1, <2>2
  <1>3. Rows' /\ [Order!Next]_(Order!vars)  BY <1>1, <1>2, StillRows DEF Inv
  <1> QED  BY <1>2, <1>3 DEF Inv, Goes

LEMMA OpFailsGoes ==
  ASSUME Inv, OpFails
  PROVE  Goes
  <1>1. /\ batch' = [batch EXCEPT !.failed = TRUE, !.tried = batch.structural, !.any = TRUE]
        /\ tree' = tree /\ made' = made /\ met' = met /\ people' = people /\ bonds' = bonds
        /\ mentions' = mentions /\ window' = window /\ undoing' = undoing /\ kept' = kept
    BY DEF OpFails, ids, world
  <1>2. \A b \in Batch :
          LET c == [b EXCEPT !.failed = TRUE, !.tried = b.structural, !.any = TRUE] IN
          c \in Batch /\ c.before = b.before /\ c.sets = b.sets
    BY DEF Batch
  <1>3. batch' \in Batch /\ batch'.before = batch.before /\ batch'.sets = batch.sets
    BY <1>1, <1>2 DEF Inv, Shape
  <1>4. Recorded(batch'.sets, met')  BY <1>1, <1>3 DEF Inv, Captures
  <1>5. Shape' /\ Captures' /\ Snaps' = Snaps  BY <1>1, <1>3, <1>4, SinceKeeps DEF Inv
  <1>6. Rows' /\ [Order!Next]_(Order!vars)  BY <1>1, <1>5, StillRows DEF Inv
  <1>7. Records'  BY <1>1 DEF Inv, Records
  <1> QED  BY <1>5, <1>6, <1>7 DEF Inv, Goes

-----------------------------------------------------------------------------
(* What ends a batch and what takes it back.                               *)

\* rememberChange: one more change, and the oldest goes.
LEMMA RememberIs ==
  ASSUME Shape, Captures, NEW nodes \in Trees, Remember(nodes), undoing' = undoing
  PROVE  /\ window' \in Seq(Change) /\ Len(window') <= Window /\ undoing' \in 0..Len(window')
         /\ \A i \in DOMAIN window' : /\ window'[i].nodes \in Snaps \cup {nodes}
                                      /\ Recorded(window'[i].sets, met)
  <1> DEFINE entry == [nodes |-> nodes, sets |-> batch.sets, wrote |-> batch.wrote,
                       untouched |-> batch.alone]
             old   == Since(window)
             grown == Append(old, entry)
  <1>1. window' = (IF Len(grown) > Window THEN Tail(grown) ELSE grown) /\ undoing = 0
    BY DEF Remember
  <1>2. /\ entry \in Change /\ entry.nodes = nodes /\ Recorded(entry.sets, met)
    BY DEF Shape, Batch, Change, Captures
  <1>3. /\ old \in Seq(Change) /\ Len(old) = Len(window) /\ Len(window) <= Window
        /\ \A i \in 1..Len(old) : old[i].nodes \in Snaps /\ Recorded(old[i].sets, met)
    BY SinceIs DEF Shape, Captures, Snaps
  <1> HIDE DEF entry, old
  <1>4. /\ grown \in Seq(Change) /\ Len(grown) = Len(old) + 1
        /\ \A i \in 1..Len(grown) : grown[i].nodes \in Snaps \cup {nodes} /\ Recorded(grown[i].sets, met)
    <2>1. grown \in Seq(Change) /\ Len(grown) = Len(old) + 1  BY <1>2, <1>3
    <2>2. \A i \in 1..Len(grown) : (i \in 1..Len(old) /\ grown[i] = old[i]) \/ grown[i] = entry
      BY <1>2, <1>3
    <2> QED  BY <1>2, <1>3, <2>1, <2>2
  <1> HIDE DEF grown
  <1>5. Window \in Nat /\ Len(old) \in Nat  BY <1>3, StartAssumption
  <1>6. CASE Len(grown) > Window
    <2>1. grown # <<>>  BY <1>4, <1>5
    <2>2. Tail(grown) \in Seq(Change) /\ Len(Tail(grown)) = Len(old)  BY <1>4, <1>5, <2>1
    <2>3. \A i \in 1..Len(Tail(grown)) : i + 1 \in 1..Len(grown) /\ Tail(grown)[i] = grown[i + 1]
      BY <1>4, <1>5, <2>1
    <2> QED  BY <1>1, <1>3, <1>4, <1>5, <1>6, <2>2, <2>3
  <1>7. CASE ~(Len(grown) > Window)
    <2>1. window' = grown  BY <1>1, <1>7
    <2> QED  BY <1>1, <1>3, <1>4, <1>5, <1>7, <2>1
  <1> QED  BY <1>6, <1>7

\* A change is forgotten: those after it move up.
LEMMA ForgetIs ==
  ASSUME Shape, Captures, NEW i \in DOMAIN window, Forget(i)
  PROVE  /\ window' \in Seq(Change) /\ Len(window') <= Window
         /\ \A j \in DOMAIN window' : /\ window'[j].nodes \in Snaps
                                      /\ Recorded(window'[j].sets, met)
  <1> DEFINE k == Len(window) - 1
             left == [j \in 1..k |-> IF j < i THEN window[j] ELSE window[j + 1]]
  <1>1. window \in Seq(Change) /\ Len(window) \in Nat /\ i \in 1..Len(window) /\ k \in Nat
    BY DEF Shape
  <1>2. left \in Seq(Change) /\ Len(left) = k
    <2>1. \A j \in 1..k : j \in 1..Len(window) /\ j + 1 \in 1..Len(window)  BY <1>1
    <2>2. left \in [1..k -> Change]  BY <1>1, <2>1
    <2> QED  BY <1>1, <2>2
  <1>3. \A j \in 1..k : \E m \in DOMAIN window : left[j] = window[m]
    <2>1. \A j \in 1..k : j \in DOMAIN window /\ j + 1 \in DOMAIN window  BY <1>1
    <2> QED  BY <2>1
  <1>4. window' = Since(left)  BY DEF Forget
  <1> HIDE DEF left
  <1>5. /\ window' \in Seq(Change) /\ Len(window') = k /\ DOMAIN window' = 1..k
        /\ \A j \in 1..k : window'[j].nodes = left[j].nodes /\ window'[j].sets = left[j].sets
    BY <1>1, <1>2, <1>4, SinceIs
  <1>6. \A j \in DOMAIN window' : \E m \in DOMAIN window :
          window'[j].nodes = window[m].nodes /\ window'[j].sets = window[m].sets
    BY <1>3, <1>5
  <1>7. k <= Window  BY <1>1, StartAssumption DEF Shape
  <1> QED  BY <1>5, <1>6, <1>7 DEF Snaps, Captures

LEMMA EndGoes ==
  ASSUME Inv, EndBatch
  PROVE  Goes
  <1>1. /\ made' = made /\ met' = met /\ people' = people /\ bonds' = bonds
        /\ undoing' = undoing /\ kept' = kept
    BY DEF EndBatch, ids
  <1>2. batch \in Batch /\ batch.before \in Snaps /\ batch.before \in Trees
    BY DEF Inv, Shape, Batch, Snaps
  <1>3. NoBatch \in Batch /\ NoBatch.before = NoTree /\ Recorded(NoBatch.sets, met')
    BY NoBatchIs DEF Recorded
  <1>4. NoTree \in Trees  BY TreesAre, NothingIsGood DEF Good
  <1>5. CASE /\ batch.before # NoTree
             /\ Plant(Restored(tree, batch.before))
             /\ batch' = IF batch.sets = <<>> THEN NoBatch ELSE [batch EXCEPT !.pc = "putback"]
             /\ window' = Since(window)
    <2>1. \A b \in Batch : LET c == [b EXCEPT !.pc = "putback"] IN
                           c \in Batch /\ c.before = b.before /\ c.sets = b.sets
      BY DEF Batch
    <2>2. /\ batch' \in Batch /\ batch'.before \in {batch.before, NoTree}
          /\ Recorded(batch'.sets, met')
      <3>1. CASE batch.sets = <<>>  BY <1>3, <1>5, <3>1
      <3>2. CASE batch.sets # <<>>
        <4>1. batch' = [batch EXCEPT !.pc = "putback"]  BY <1>5, <3>2
        <4>2. Recorded(batch.sets, met')  BY <1>1 DEF Inv, Captures
        <4> QED  BY <1>2, <2>1, <4>1, <4>2
      <3> QED  BY <3>1, <3>2
    <2>3. Shape' /\ Captures' /\ Snaps' \subseteq Snaps \cup {NoTree}
      BY <1>1, <1>5, <2>2, SinceKeeps DEF Inv
    <2>4. tree' = Restored(tree, batch.before) /\ mentions' = Standing(mentions, tree')
      BY <1>5 DEF Plant
    <2>5. Records'  BY <1>1, <2>4, PlantKeeps DEF Inv
    <2>6. Rows' /\ [Order!Next]_(Order!vars)  BY <1>1, <1>2, <1>5, <2>3, <2>4, BroughtBack DEF Inv
    <2> QED  BY <2>3, <2>5, <2>6 DEF Inv, Goes
  <1>6. CASE /\ Remember(batch.before) \/ Remember(NoTree) \/ UNCHANGED window
             /\ batch' = NoBatch /\ UNCHANGED <<tree, mentions>>
    <2>1. Shape' /\ Captures' /\ Snaps' \subseteq Snaps \cup {NoTree}
      <3>1. CASE window' = window  BY <1>1, <1>3, <1>6, <3>1, SinceKeeps DEF Inv
      <3>2. ASSUME NEW nodes \in Trees, nodes \in Snaps \cup {NoTree}, Remember(nodes)
            PROVE  Shape' /\ Captures' /\ Snaps' \subseteq Snaps \cup {NoTree}
        <4>1. /\ window' \in Seq(Change) /\ Len(window') <= Window /\ undoing' \in 0..Len(window')
              /\ \A i \in DOMAIN window' : /\ window'[i].nodes \in Snaps \cup {nodes}
                                           /\ Recorded(window'[i].sets, met)
          BY <1>1, <3>2, RememberIs DEF Inv
        <4>2. \A i \in DOMAIN window' : window'[i].nodes \in Snaps \cup {NoTree}  BY <3>2, <4>1
        <4> QED  BY <1>1, <1>3, <1>6, <4>1, <4>2, WindowKeeps DEF Inv
      <3> QED  BY <1>2, <1>4, <1>6, <3>1, <3>2
    <2>2. Rows' /\ [Order!Next]_(Order!vars)  BY <1>1, <1>6, <2>1, StillRows DEF Inv
    <2>3. Records'  BY <1>1, <1>6 DEF Inv, Records
    <2> QED  BY <2>1, <2>2, <2>3 DEF Inv, Goes
  <1> QED  BY <1>5, <1>6 DEF EndBatch

\* The deletes of a batch put right: whoever comes back was there before.
LEMMA WorldKeeps ==
  ASSUME Inv, NEW sets \in Seq(Sets), Recorded(sets, met), met' = met, tree' = tree,
         people' = PutRight(sets).people, bonds' = PutRight(sets).bonds,
         mentions' = PutRight(sets).mentions
  PROVE  Records'
  <1>1. Fine(PutRight(sets))  BY PutRightIs DEF Inv, Rows, Good
  <1> QED  BY <1>1 DEF Fine, World, Inv, Records

LEMMA PutBackGoes ==
  ASSUME Inv, PutBack
  PROVE  Goes
  <1>1. /\ made' = made /\ met' = met /\ tree' = tree /\ undoing' = undoing /\ kept' = kept
        /\ batch' = NoBatch /\ window' = Since(window)
        /\ people' = PutRight(batch.sets).people /\ bonds' = PutRight(batch.sets).bonds
        /\ mentions' = PutRight(batch.sets).mentions
    BY DEF PutBack, ids
  <1>2. batch.sets \in Seq(Sets) /\ Recorded(batch.sets, met)
    BY DEF Inv, Shape, Batch, Captures
  <1>3. Records'  BY <1>1, <1>2, WorldKeeps
  <1>4. NoBatch \in Batch /\ NoBatch.before = NoTree /\ Recorded(NoBatch.sets, met')
    BY NoBatchIs DEF Recorded
  <1>5. Shape' /\ Captures' /\ Snaps' \subseteq Snaps \cup {NoTree}
    BY <1>1, <1>4, SinceKeeps DEF Inv
  <1>6. Rows' /\ [Order!Next]_(Order!vars)  BY <1>1, <1>5, StillRows DEF Inv
  <1> QED  BY <1>3, <1>5, <1>6 DEF Inv, Goes

\* The batch is no longer alone, and nothing else of it changes.
LEMMA NotAlone ==
  ASSUME Inv, met' = met, batch' = [batch EXCEPT !.alone = FALSE]
  PROVE  batch' \in Batch /\ batch'.before = batch.before /\ Recorded(batch'.sets, met')
  <1>1. \A b \in Batch : LET c == [b EXCEPT !.alone = FALSE] IN
                         c \in Batch /\ c.before = b.before /\ c.sets = b.sets
    BY DEF Batch
  <1>2. batch \in Batch  BY DEF Inv, Shape
  <1> QED  BY <1>1, <1>2 DEF Inv, Captures

LEMMA UndoOutlineGoes ==
  ASSUME Inv, NEW i \in DOMAIN window, UndoOutline(i)
  PROVE  Goes
  <1>1. /\ made' = made /\ met' = met /\ people' = people /\ bonds' = bonds /\ kept' = kept
        /\ batch' = [batch EXCEPT !.alone = FALSE] /\ undoing = 0
    BY DEF UndoOutline, ids
  <1>2. batch' \in Batch /\ batch'.before = batch.before /\ Recorded(batch'.sets, met')
    BY <1>1, NotAlone
  <1>3. /\ window' \in Seq(Change) /\ Len(window') <= Window /\ undoing' \in 0..Len(window')
        /\ \A j \in DOMAIN window' : /\ window'[j].nodes \in Snaps
                                     /\ Recorded(window'[j].sets, met)
    <2>1. CASE Forget(i) /\ undoing' = undoing
      <3>1. /\ window' \in Seq(Change) /\ Len(window') <= Window
            /\ \A j \in DOMAIN window' : /\ window'[j].nodes \in Snaps
                                         /\ Recorded(window'[j].sets, met)
        BY <2>1, ForgetIs DEF Inv
      <3>2. Len(window') \in Nat  BY <3>1
      <3> QED  BY <1>1, <2>1, <3>1, <3>2
    <2>2. CASE /\ undoing' = i
               /\ window' = [j \in DOMAIN window |-> [window[j] EXCEPT !.untouched = @ /\ j = i]]
      <3>1. window \in Seq(Change) /\ DOMAIN window = 1..Len(window) /\ Len(window) \in Nat
        BY DEF Inv, Shape
      <3>2. ASSUME NEW c \in Change, NEW b \in BOOLEAN
            PROVE  LET e == [c EXCEPT !.untouched = b] IN
                   e \in Change /\ e.nodes = c.nodes /\ e.sets = c.sets
        BY DEF Change
      <3>3. \A j \in DOMAIN window : /\ window'[j] \in Change
                                     /\ window'[j].nodes = window[j].nodes
                                     /\ window'[j].sets = window[j].sets
        <4> SUFFICES ASSUME NEW j \in DOMAIN window
                     PROVE  /\ window'[j] \in Change
                            /\ window'[j].nodes = window[j].nodes
                            /\ window'[j].sets = window[j].sets
          OBVIOUS
        <4> DEFINE b == window[j].untouched /\ j = i
        <4>1. window[j] \in Change  BY <3>1
        <4>2. b \in BOOLEAN  OBVIOUS
        <4>3. window'[j] = [window[j] EXCEPT !.untouched = b]  BY <2>2
        <4> HIDE DEF b
        <4> QED  BY <3>2, <4>1, <4>2, <4>3
      <3>4. DOMAIN window' = DOMAIN window /\ window' = [j \in DOMAIN window |-> window'[j]]
        BY <2>2
      <3>5. window' \in [1..Len(window) -> Change]  BY <3>1, <3>3, <3>4
      <3>6. window' \in Seq(Change) /\ Len(window') = Len(window)  BY <3>1, <3>5
      <3>7. i \in 1..Len(window) /\ Len(window) <= Window  BY <3>1 DEF Inv, Shape
      <3> QED  BY <2>2, <3>1, <3>3, <3>4, <3>6, <3>7 DEF Snaps, Inv, Captures
    <2> QED  BY <2>1, <2>2 DEF UndoOutline
  <1>4. Shape' /\ Captures' /\ Snaps' \subseteq Snaps \cup {NoTree}
    BY <1>1, <1>2, <1>3, WindowKeeps DEF Inv
  <1>5. CASE /\ window[i].nodes # NoTree
             /\ Plant(Restored(tree, window[i].nodes))
    <2>1. tree' = Restored(tree, window[i].nodes) /\ mentions' = Standing(mentions, tree')
      BY <1>5 DEF Plant
    <2>2. window[i].nodes \in Snaps  BY DEF Snaps
    <2>3. Records'  BY <1>1, <2>1, PlantKeeps DEF Inv
    <2>4. Rows' /\ [Order!Next]_(Order!vars)  BY <1>1, <1>4, <1>5, <2>1, <2>2, BroughtBack DEF Inv
    <2> QED  BY <1>4, <2>3, <2>4 DEF Inv, Goes
  <1>6. CASE UNCHANGED <<tree, mentions>>
    <2>1. Records'  BY <1>1, <1>6 DEF Inv, Records
    <2>2. Rows' /\ [Order!Next]_(Order!vars)  BY <1>1, <1>4, <1>6, StillRows DEF Inv
    <2> QED  BY <1>4, <2>1, <2>2 DEF Inv, Goes
  <1> QED  BY <1>5, <1>6 DEF UndoOutline

LEMMA UndoWorldGoes ==
  ASSUME Inv, UndoWorld
  PROVE  Goes
  <1>1. /\ made' = made /\ met' = met /\ tree' = tree /\ undoing' = 0 /\ kept' = kept
        /\ batch' = [batch EXCEPT !.alone = FALSE] /\ undoing # 0
        /\ people' = PutRight(window[undoing].sets).people
        /\ bonds' = PutRight(window[undoing].sets).bonds
        /\ mentions' = PutRight(window[undoing].sets).mentions
        /\ Forget(undoing) \/ window' = Since(window)
    BY DEF UndoWorld, ids
  <1>2. undoing \in DOMAIN window /\ window \in Seq(Change)  BY <1>1 DEF Inv, Shape
  <1>3. window[undoing].sets \in Seq(Sets) /\ Recorded(window[undoing].sets, met)
    <2>1. window[undoing] \in Change  BY <1>2
    <2> QED  BY <1>2, <2>1 DEF Change, Inv, Captures
  <1>4. Records'  BY <1>1, <1>3, WorldKeeps
  <1>5. batch' \in Batch /\ batch'.before = batch.before /\ Recorded(batch'.sets, met')
    BY <1>1, NotAlone
  <1>6. Shape' /\ Captures' /\ Snaps' \subseteq Snaps \cup {NoTree}
    <2>1. CASE window' = Since(window)  BY <1>1, <1>5, <2>1, SinceKeeps DEF Inv
    <2>2. CASE Forget(undoing)
      <3>1. /\ window' \in Seq(Change) /\ Len(window') <= Window
            /\ \A j \in DOMAIN window' : /\ window'[j].nodes \in Snaps
                                         /\ Recorded(window'[j].sets, met)
        BY <1>2, <2>2, ForgetIs DEF Inv
      <3>2. Len(window') \in Nat  BY <3>1
      <3> QED  BY <1>1, <1>5, <3>1, <3>2, WindowKeeps DEF Inv
    <2> QED  BY <1>1, <2>1, <2>2
  <1>7. Rows' /\ [Order!Next]_(Order!vars)  BY <1>1, <1>6, StillRows DEF Inv
  <1> QED  BY <1>4, <1>6, <1>7 DEF Inv, Goes

LEMMA CrashGoes ==
  ASSUME Inv, Crash
  PROVE  Goes
  <1>1. /\ tree' = tree /\ made' = made /\ met' = met /\ people' = people /\ bonds' = bonds
        /\ mentions' = mentions /\ kept' = kept
        /\ batch' = NoBatch /\ window' = <<>> /\ undoing' = 0
    BY DEF Crash, ids, world
  <1>2. NoBatch \in Batch /\ NoBatch.before = NoTree /\ Recorded(NoBatch.sets, met')
    BY NoBatchIs DEF Recorded
  <1>3. window' \in Seq(Change) /\ Len(window') = 0 /\ DOMAIN window' = {}  BY <1>1
  <1>4. Len(window') <= Window /\ undoing' \in 0..Len(window')  BY <1>1, <1>3, StartAssumption
  <1>5. Shape' /\ Captures' /\ Snaps' \subseteq Snaps \cup {NoTree}
    BY <1>1, <1>2, <1>3, <1>4, WindowKeeps DEF Inv
  <1>6. Rows' /\ [Order!Next]_(Order!vars)  BY <1>1, <1>5, StillRows DEF Inv
  <1>7. Records'  BY <1>1 DEF Inv, Records
  <1> QED  BY <1>5, <1>6, <1>7 DEF Inv, Goes

LEMMA AgentGoes ==
  ASSUME Inv, Agent
  PROVE  Goes
  <1>1. ASSUME NEW structural \in BOOLEAN, BeginBatch(structural) PROVE Goes
    BY <1>1, BeginGoes
  <1>2. ASSUME NEW i \in DOMAIN window, UndoOutline(i) PROVE Goes
    BY <1>2, UndoOutlineGoes
  <1> QED
    BY <1>1, <1>2, OpCreateGoes, OpRearrangeGoes, OpSetTextGoes, OpPeopleGo, OpFailsGoes, EndGoes,
       PutBackGoes, UndoWorldGoes DEF Agent

LEMMA Stays ==
  ASSUME Inv, [Next]_vars
  PROVE  Goes
  <1>1. CASE Next  BY <1>1, WriterGoes, AgentGoes, CrashGoes DEF Next
  <1>2. CASE UNCHANGED vars
    <2>1. /\ tree' = tree /\ made' = made /\ met' = met /\ people' = people /\ bonds' = bonds
          /\ mentions' = mentions /\ batch' = batch /\ window' = window /\ undoing' = undoing
          /\ kept' = kept
      BY <1>2 DEF vars
    <2>2. Records' /\ Captures' /\ Shape'  BY <2>1 DEF Inv, Records, Captures, Shape
    <2>3. Snaps' = Snaps  BY <2>1 DEF Snaps
    <2>4. Rows' /\ [Order!Next]_(Order!vars)  BY <2>1, <2>3, StillRows DEF Inv
    <2> QED  BY <2>2, <2>4 DEF Inv, Goes
  <1> QED  BY <1>1, <1>2

LEMMA Starts ==
  ASSUME Init
  PROVE  Inv /\ Order!Init
  <1>1. PICK k \in 0..MaxNodes : Start \in [1..k -> Row]  BY StartAssumption
  <1>2. DOMAIN Start = 1..k /\ k \in Nat /\ MaxNodes \in Nat  BY <1>1, StartAssumption
  <1>3. Cardinality(1..k) = k
    <2>1. 1 \in Int /\ k \in Int /\ 1 <= k + 1  BY <1>2
    <2> QED  BY <1>2, <2>1, FS_Interval
  <1>4. made = k /\ made \in 0..MaxNodes  BY <1>1, <1>2, <1>3 DEF Init
  <1>5. 1..k \in SUBSET Nodes  BY <1>1, <1>2 DEF Nodes
  <1>6. Good(Start)  BY <1>1, <1>2, <1>5, StartAssumption DEF Good, IsTree
  <1>7. /\ tree = Start /\ met = Cast /\ people = Cast /\ bonds = Bonds /\ mentions = Mentions
        /\ batch = NoBatch /\ window = <<>> /\ undoing = 0 /\ kept = NoTree
    BY DEF Init
  <1>8. NoBatch \in Batch /\ NoBatch.before = NoTree /\ NoBatch.sets = <<>>  BY NoBatchIs
  <1>9. Snaps = {NoTree}  BY <1>7, <1>8 DEF Snaps
  <1>10. Rows  BY <1>2, <1>4, <1>6, <1>7, <1>9, NothingIsGood DEF Rows
  <1>11. Shape
    <2>1. window \in Seq(Change) /\ Len(window) = 0  BY <1>7
    <2> QED  BY <1>7, <1>8, <2>1, StartAssumption DEF Shape
  <1>12. Records /\ Captures
    BY <1>7, <1>8, StartAssumption DEF Records, Captures, Recorded
  <1>13. Keptback = {}  BY <1>9 DEF Keptback, Snaps
  <1>14. Order!Init
    <2>1. Order!Outline(Under(tree), Ahead(tree))  BY <1>6, <1>7, GoodIsOutline
    <2>2. Past(Keptback) = {}  BY <1>13 DEF Past
    <2> QED  BY <2>1, <2>2 DEF Order!Init, Past
  <1> QED  BY <1>10, <1>11, <1>12, <1>14 DEF Inv

LEMMA InvIsTyped ==
  ASSUME Inv
  PROVE  TypeOK /\ OutlineWhole
  <1>1. IsTree(tree) /\ IsTree(kept) /\ IsTree(batch.before)
    BY DEF Inv, Rows, Good, Snaps
  <1>2. batch.pc \in {"idle", "open", "putback"} /\ batch.sets \in Seq(Sets)
    BY DEF Inv, Shape, Batch
  <1>3. \A i \in DOMAIN window : IsTree(window[i].nodes) /\ window[i].sets \in Seq(Sets)
    <2>1. \A i \in DOMAIN window : window[i] \in Change  BY DEF Inv, Shape
    <2> QED  BY <2>1, TreesAre DEF Change
  <1>4. OutlineWhole  BY DEF Inv, Rows, Good, OutlineWhole
  <1> QED  BY <1>1, <1>2, <1>3, <1>4 DEF Inv, Rows, Shape, Records, TypeOK

-----------------------------------------------------------------------------
(* What makes an undo exact.  A batch that is alone, and a change that     *)
(* nothing came after, have what they need to be taken back: the rows that *)
(* stood and are there still are what they were, but for the words of the  *)
(* scenes that were set, and whatever hung off a deleted record hung from  *)
(* somebody who is there or was deleted after it, and in a scene that the  *)
(* outline they go back to has.                                            *)

Carries(t, u) ==
    \A m \in DOMAIN t \cap DOMAIN u : u[m].kind = t[m].kind /\ u[m].words = t[m].words

\* t is what has become of the rows of s by ops that set the words of wrote.
Bears(t, s, wrote) ==
    \A n \in DOMAIN s \cap DOMAIN t :
        t[n].kind = s[n].kind /\ (n \notin wrote => t[n].words = s[n].words)

\* t is s again, but for those words.
Replants(t, s, wrote) ==
    /\ DOMAIN t = DOMAIN s
    /\ \A n \in DOMAIN t : t[n] = IF n \in wrote THEN [s[n] EXCEPT !.words = t[n].words] ELSE s[n]

\* Captures are put right last first, so those after one are there before it.
Returns(sets, there, scenes) ==
    \A j \in DOMAIN sets :
        /\ \A b \in sets[j].bonds : \A q \in b :
              q \in there \/ \E k \in DOMAIN sets : k >= j /\ sets[k].who = q
        /\ \A m \in sets[j].mentions : m[2] \in scenes

\* The scenes of the outline that the batch, or the change c, goes back to.
Stood   == IF batch.structural THEN DOMAIN batch.before ELSE DOMAIN tree
Fits(c) == IF c.nodes = NoTree THEN DOMAIN tree ELSE DOMAIN c.nodes

Alone ==
    batch.pc = "open" /\ batch.alone =>
        /\ ~batch.structural => batch.before = NoTree
        /\ Bears(tree, batch.before, batch.wrote)
        /\ \A m \in mentions : m[2] \in Stood
        /\ Returns(batch.sets, people, Stood)

\* Once its outline is back, an undo under way has only the deletes to put right.
Untouched ==
    \A i \in DOMAIN window : window[i].untouched =>
        /\ IF undoing = 0 THEN Bears(tree, window[i].nodes, window[i].wrote)
           ELSE /\ undoing = i
                /\ window[i].nodes # NoTree => Replants(tree, window[i].nodes, window[i].wrote)
        /\ Returns(window[i].sets, people, Fits(window[i]))

Undoable == Alone /\ Untouched

\* A capture that could be put right: all of it that may come back is there.
LEMMA RestoredSetIs ==
  ASSUME NEW w, Fine(w), NEW s \in Sets, RestoreSet(w, s).ok
  PROVE  LET v == RestoreSet(w, s) IN
         /\ w.ok /\ v.people = w.people \cup {s.who} /\ w.bonds \subseteq v.bonds
         /\ \A b \in s.bonds : b \subseteq v.people => b \in v.bonds
         /\ v.mentions = w.mentions \cup Standing(s.mentions, tree)
  <1>1. CASE ~w.ok \/ s.who \in w.people \/ NameOf(s.who) \in {NameOf(q) : q \in w.people}
    <2>1. RestoreSet(w, s) = [w EXCEPT !.ok = FALSE]  BY <1>1 DEF RestoreSet
    <2>2. [w EXCEPT !.ok = FALSE].ok = FALSE  BY DEF Fine, World
    <2> QED  BY <2>1, <2>2
  <1>2. CASE ~(~w.ok \/ s.who \in w.people \/ NameOf(s.who) \in {NameOf(q) : q \in w.people})
    BY <1>2 DEF RestoreSet
  <1> QED  BY <1>1, <1>2

\* What a batch deleted comes back, all of it, if all of it may.
LEMMA AllReturn ==
  ASSUME Records, IsTree(tree), NEW sets \in Seq(Sets), Recorded(sets, met),
         Returns(sets, people, DOMAIN tree), PutRight(sets).ok
  PROVE  LET w == PutRight(sets) IN
         \A j \in DOMAIN sets : /\ sets[j].who \in w.people /\ sets[j].bonds \subseteq w.bonds
                                /\ sets[j].mentions \subseteq w.mentions
  <1> DEFINE n == Len(sets)
  <1>0. n \in Nat /\ DOMAIN sets = 1..n /\ \A j \in 1..n : sets[j] \in Sets  OBVIOUS
  <1>1. PICK back :
           /\ back[0] = [ok |-> TRUE, people |-> people, bonds |-> bonds, mentions |-> mentions]
           /\ \A i \in 1..n : back[i] = RestoreSet(back[i - 1], sets[n + 1 - i])
           /\ \A i \in 0..n : Fine(back[i])
           /\ PutRight(sets) = back[n]
    BY PutRightSteps
  <1> HIDE DEF n
  <1> DEFINE Home(j, w) == /\ sets[j].who \in w.people /\ sets[j].bonds \subseteq w.bonds
                           /\ sets[j].mentions \subseteq w.mentions
             Done(k) == back[k].ok => /\ people \subseteq back[k].people
                                      /\ \A j \in (n + 1 - k)..n : Home(j, back[k])
             Bad == {k \in 0..n : ~Done(k)}
  <1>2. ASSUME NEW k \in 1..n, Done(k - 1), back[k].ok
        PROVE  people \subseteq back[k].people /\ \A j \in (n + 1 - k)..n : Home(j, back[k])
    <2>1. n + 1 - k \in 1..n /\ k - 1 \in 0..n  BY <1>0
    <2> DEFINE s == sets[n + 1 - k]
    <2>2. s \in Sets /\ Fine(back[k - 1]) /\ back[k] = RestoreSet(back[k - 1], s)
      BY <1>0, <1>1, <2>1
    <2>3. /\ back[k - 1].ok /\ back[k].people = back[k - 1].people \cup {s.who}
          /\ back[k - 1].bonds \subseteq back[k].bonds
          /\ \A b \in s.bonds : b \subseteq back[k].people => b \in back[k].bonds
          /\ back[k].mentions = back[k - 1].mentions \cup Standing(s.mentions, tree)
      BY <1>2, <2>2, RestoredSetIs
    <2>4. /\ people \subseteq back[k - 1].people
          /\ \A j \in (n + 1 - (k - 1))..n : Home(j, back[k - 1])
      BY <1>2, <2>3
    <2>5. \A j \in (n + 1 - (k - 1))..n : Home(j, back[k])  BY <2>3, <2>4
    <2>6. Home(n + 1 - k, back[k])
      <3>1. s.bonds \subseteq back[k].bonds
        <4> SUFFICES ASSUME NEW b \in s.bonds, NEW q \in b PROVE q \in back[k].people
          BY <2>3
        <4>1. q \in people \/ \E i \in DOMAIN sets : i >= n + 1 - k /\ sets[i].who = q
          BY <1>0, <2>1 DEF Returns
        <4>2. ASSUME NEW i \in DOMAIN sets, i >= n + 1 - k, sets[i].who = q
              PROVE  q \in back[k].people
          <5>1. i = n + 1 - k \/ i \in (n + 1 - (k - 1))..n  BY <1>0, <4>2
          <5> QED  BY <2>3, <2>5, <4>2, <5>1
        <4> QED  BY <2>3, <2>4, <4>1, <4>2
      <3>2. Standing(s.mentions, tree) = s.mentions
        <4>1. \A m \in s.mentions : m[2] \in DOMAIN tree  BY <1>0, <2>1 DEF Returns
        <4> QED  BY <4>1 DEF Standing
      <3> QED  BY <2>3, <3>1, <3>2
    <2>7. \A j \in (n + 1 - k)..n : j = n + 1 - k \/ j \in (n + 1 - (k - 1))..n  BY <1>0
    <2> QED  BY <2>3, <2>4, <2>5, <2>6, <2>7
  <1>3. Done(0)
    <2>1. (n + 1 - 0)..n = {}  BY <1>0
    <2> QED  BY <1>1, <2>1
  <1>4. Bad = {}
    <2> SUFFICES ASSUME Bad # {} PROVE FALSE  OBVIOUS
    <2>1. PICK k \in Bad : \A j \in Bad : k <= j  BY <1>0, LeastExists
    <2>2. k # 0  BY <1>3
    <2>3. k - 1 \in 0..n /\ k - 1 \notin Bad /\ k \in 1..n  BY <1>0, <2>1, <2>2
    <2>4. Done(k - 1)  BY <2>3
    <2> QED  BY <1>2, <2>1, <2>3, <2>4
  <1>5. Done(n)  BY <1>0, <1>4
  <1>6. \A j \in DOMAIN sets : j \in (n + 1 - n)..n  BY <1>0
  <1> QED  BY <1>1, <1>5, <1>6

\* The operators on trees carry every row's kind and words over.
LEMMA CarriedOn ==
  ASSUME NEW t, NEW u, NEW v, DOMAIN u = DOMAIN t, Carries(t, u), Carries(u, v)
  PROVE  Carries(t, v)
  BY DEF Carries

LEMMA ShiftsCarry ==
  ASSUME NEW t, IsTree(t), NEW p, NEW o, NEW n
  PROVE  /\ Carries(t, Push(t, p, o)) /\ DOMAIN Push(t, p, o) = DOMAIN t
         /\ Carries(t, Pull(t, n)) /\ DOMAIN Pull(t, n) = DOMAIN t
  <1>1. ASSUME NEW m \in DOMAIN t, NEW d
        PROVE  [t[m] EXCEPT !.ord = d].kind = t[m].kind /\ [t[m] EXCEPT !.ord = d].words = t[m].words
    BY RowOf DEF Row
  <1>2. Carries(t, Push(t, p, o)) /\ DOMAIN Push(t, p, o) = DOMAIN t  BY <1>1 DEF Carries, Push
  <1>3. Carries(t, Pull(t, n)) /\ DOMAIN Pull(t, n) = DOMAIN t  BY <1>1 DEF Carries, Pull
  <1> QED  BY <1>2, <1>3

LEMMA PutCarries ==
  ASSUME NEW t, IsTree(t), NEW n \in DOMAIN t, NEW p, NEW o
  PROVE  Carries(t, Put(t, n, p, o)) /\ DOMAIN Put(t, n, p, o) = DOMAIN t
  <1> DEFINE row == [[t[n] EXCEPT !.parent = p] EXCEPT !.ord = o]
  <1>1. row.kind = t[n].kind /\ row.words = t[n].words
    <2>1. t[n] \in Row  BY RowOf
    <2> QED  BY <2>1 DEF Row
  <1>2. Put(t, n, p, o) = [t EXCEPT ![n] = row]  BY DEF Put, IsTree
  <1> HIDE DEF row
  <1> QED  BY <1>1, <1>2 DEF Carries

LEMMA SwappedCarries ==
  ASSUME NEW t, IsTree(t), NEW n \in DOMAIN t, NEW m
  PROVE  Carries(t, Swapped(t, n, m)) /\ DOMAIN Swapped(t, n, m) = DOMAIN t
  <1> DEFINE v == [t EXCEPT ![n].ord = t[m].ord]
             u == [v EXCEPT ![m].ord = t[n].ord]
  <1>1. Swapped(t, n, m) = u  BY DEF Swapped
  <1>2. \A k \in DOMAIN t : t[k] \in Row  BY RowOf
  <1>3. DOMAIN v = DOMAIN t /\ DOMAIN u = DOMAIN t  OBVIOUS
  <1>4. \A k \in DOMAIN t : v[k] = IF k = n THEN [t[k] EXCEPT !.ord = t[m].ord] ELSE t[k]
    OBVIOUS
  <1>5. \A k \in DOMAIN t : u[k] = IF k = m THEN [v[k] EXCEPT !.ord = t[n].ord] ELSE v[k]
    BY <1>3
  <1> HIDE DEF u, v
  <1>6. \A r \in Row : \A o : LET q == [r EXCEPT !.ord = o] IN
          /\ q = [parent |-> r.parent, ord |-> o, kind |-> r.kind, label |-> r.label, words |-> r.words]
    BY DEF Row
  <1>7. \A k \in DOMAIN t : u[k].kind = t[k].kind /\ u[k].words = t[k].words
    <2> SUFFICES ASSUME NEW k \in DOMAIN t PROVE u[k].kind = t[k].kind /\ u[k].words = t[k].words
      OBVIOUS
    <2>1. \E o : v[k] = [parent |-> t[k].parent, ord |-> o, kind |-> t[k].kind,
                         label |-> t[k].label, words |-> t[k].words]
      BY <1>2, <1>4, <1>6 DEF Row
    <2>2. PICK o : v[k] = [parent |-> t[k].parent, ord |-> o, kind |-> t[k].kind,
                           label |-> t[k].label, words |-> t[k].words]
      BY <2>1
    <2>3. v[k].kind = t[k].kind /\ v[k].words = t[k].words  BY <2>2
    <2>4. CASE k = m
      <3>1. u[k] = [v[k] EXCEPT !.ord = t[n].ord]  BY <1>5, <2>4
      <3>2. u[k] = [parent |-> t[k].parent, ord |-> t[n].ord, kind |-> t[k].kind,
                    label |-> t[k].label, words |-> t[k].words]
        <4>1. \A a, e, c, d, w, z : [[parent |-> a, ord |-> e, kind |-> c, label |-> d, words |-> w]
                                       EXCEPT !.ord = z]
                                   = [parent |-> a, ord |-> z, kind |-> c, label |-> d, words |-> w]
          OBVIOUS
        <4> QED  BY <2>2, <3>1, <4>1
      <3> QED  BY <3>2
    <2>5. CASE k # m  BY <1>5, <2>3, <2>5
    <2> QED  BY <2>4, <2>5
  <1> QED  BY <1>1, <1>3, <1>7 DEF Carries

\* No op of a batch changes what a row is or says: it places rows, labels them,
\* adds one under a new number or takes some away.
LEMMA CreateCarries ==
  ASSUME NEW t, IsTree(t), NEW n, n \notin DOMAIN t, NEW ref, NEW p, NEW kind, NEW label
  PROVE  Carries(t, AfterSibling(t, n, ref, kind, label)) /\ Carries(t, AsLast(t, n, p, kind, label))
  <1> DEFINE v == Push(t, t[ref].parent, t[ref].ord + 1)
  <1>1. Carries(t, v) /\ DOMAIN v = DOMAIN t  BY ShiftsCarry
  <1> HIDE DEF v
  <1>2. ASSUME NEW w, DOMAIN w = DOMAIN t, NEW row PROVE Carries(w, With(w, n, row))
    BY <1>2 DEF Carries, With
  <1>3. Carries(t, AsLast(t, n, p, kind, label))  BY <1>2 DEF AsLast
  <1>4. Carries(t, AfterSibling(t, n, ref, kind, label))
    <2>1. AfterSibling(t, n, ref, kind, label) = With(v, n, NewRow(t[ref].parent, t[ref].ord + 1, kind, label))
      BY DEF AfterSibling, v
    <2> QED  BY <1>1, <1>2, <2>1, CarriedOn
  <1> QED  BY <1>3, <1>4

LEMMA RearrangeCarries ==
  ASSUME NEW t, Good(t), NEW n \in DOMAIN t, NEW p, NEW label
  PROVE  /\ Carries(t, MovedUp(t, n)) /\ Carries(t, MovedDown(t, n)) /\ Carries(t, MovedUnder(t, n, p))
         /\ Carries(t, Without(t, n)) /\ Carries(t, [t EXCEPT ![n].label = label])
  <1>0. Carries(t, t) /\ IsTree(t)  BY DEF Carries, Good
  <1>1. Carries(t, MovedUp(t, n)) /\ Carries(t, MovedDown(t, n))
    BY <1>0, SwappedCarries DEF MovedUp, MovedDown
  <1>2. Carries(t, MovedUnder(t, n, p))
    <2> DEFINE v == Pull(t, n)
    <2>1. Carries(t, v) /\ DOMAIN v = DOMAIN t  BY <1>0, ShiftsCarry
    <2>2. IsTree(v)  BY PullIs
    <2> HIDE DEF v
    <2>3. ASSUME NEW o PROVE Carries(v, Put(v, n, p, o))  BY <2>1, <2>2, PutCarries
    <2> QED  BY <1>0, <2>1, <2>3, CarriedOn DEF MovedUnder, v
  <1>3. Carries(t, Without(t, n))  BY DEF Carries, Without
  <1>4. Carries(t, [t EXCEPT ![n].label = label])
    <2> DEFINE row == [t[n] EXCEPT !.label = label]
    <2>1. row.kind = t[n].kind /\ row.words = t[n].words
      <3>1. t[n] \in Row  BY <1>0, RowOf
      <3> QED  BY <3>1 DEF Row
    <2> HIDE DEF row
    <2>2. [t EXCEPT ![n].label = label] = [t EXCEPT ![n] = row]  BY DEF row
    <2> QED  BY <2>1, <2>2 DEF Carries
  <1> QED  BY <1>1, <1>2, <1>3, <1>4

LEMMA ReturnsMore ==
  ASSUME NEW sets, NEW here, NEW there, NEW scenes, NEW places, Returns(sets, here, scenes),
         here \subseteq there, scenes \subseteq places
  PROVE  Returns(sets, there, places)
  BY DEF Returns

LEMMA SinceMarks ==
  ASSUME NEW w \in Seq(Change)
  PROVE  \A i \in DOMAIN Since(w) : ~Since(w)[i].untouched
  <1>1. \A i \in DOMAIN w : w[i] \in Change  OBVIOUS
  <1>2. \A c \in Change : [c EXCEPT !.untouched = FALSE].untouched = FALSE  BY DEF Change
  <1> QED  BY <1>1, <1>2 DEF Since

\* Something came between: there is nothing to keep.
LEMMA Disturbed ==
  ASSUME Inv, \/ window' = Since(window)
              \/ \E i \in DOMAIN window : Forget(i)
              \/ window' = <<>>,
         batch'.pc # "open" \/ ~batch'.alone
  PROVE  Undoable'
  <1>1. window \in Seq(Change) /\ Len(window) \in Nat /\ DOMAIN window = 1..Len(window)
    BY DEF Inv, Shape
  <1>2. \A i \in DOMAIN window' : ~window'[i].untouched
    <2>1. ASSUME NEW i \in DOMAIN window, Forget(i)
          PROVE  \A j \in DOMAIN window' : ~window'[j].untouched
      <3> DEFINE k == Len(window) - 1
                 left == [j \in 1..k |-> IF j < i THEN window[j] ELSE window[j + 1]]
      <3>1. k \in Nat /\ \A j \in 1..k : j \in 1..Len(window) /\ j + 1 \in 1..Len(window)
        BY <1>1
      <3>2. left \in [1..k -> Change]  BY <1>1, <3>1
      <3>3. left \in Seq(Change)  BY <3>1, <3>2
      <3>4. window' = Since(left)  BY <2>1 DEF Forget
      <3> QED  BY <3>3, <3>4, SinceMarks
    <2> QED  BY <1>1, <2>1, SinceMarks
  <1> QED  BY <1>2 DEF Undoable, Alone, Untouched

LEMMA WriterDisturbs ==
  ASSUME Inv, Writer
  PROVE  Undoable'
  <1>1. Touched
    BY DEF Writer, CreateSibling, CreateChild, Rename, Delete, MoveUp, MoveDown, MoveTo, MoveUnder,
       Convert, Write, AddPerson, Bind, RemovePerson, StartRepair, UndoRepair, EditTree, Edit
  <1>2. batch \in Batch  BY DEF Inv, Shape
  <1>3. \A b \in Batch : [b EXCEPT !.alone = FALSE].alone = FALSE  BY DEF Batch
  <1>4. window' = Since(window) /\ ~batch'.alone  BY <1>1, <1>2, <1>3 DEF Touched
  <1> QED  BY <1>4, Disturbed

\* A batch that has just begun has changed nothing yet.
LEMMA BeginUndoable ==
  ASSUME Inv, Undoable, NEW structural \in BOOLEAN, BeginBatch(structural)
  PROVE  Undoable'
  <1> DEFINE before == IF structural THEN tree ELSE NoTree
  <1>1. /\ batch' = [NoBatch EXCEPT !.pc = "open", !.structural = structural, !.before = before]
        /\ window' = window /\ undoing' = undoing /\ tree' = tree
        /\ people' = people /\ mentions' = mentions
    BY DEF BeginBatch, world
  <1> HIDE DEF before
  <1>2. /\ batch'.structural = structural /\ batch'.before = before /\ batch'.sets = <<>>
        /\ batch'.wrote = {}
    <2>1. \A st, t : LET b == [NoBatch EXCEPT !.pc = "open", !.structural = st, !.before = t] IN
             b.structural = st /\ b.before = t /\ b.sets = <<>> /\ b.wrote = {}
      BY DEF NoBatch
    <2> QED  BY <1>1, <2>1
  <1>3. before = IF structural THEN tree ELSE NoTree  BY DEF before
  <1>4. Bears(tree, before, {})  BY <1>3, NothingIsGood DEF Bears
  <1>5. Stood' = DOMAIN tree  BY <1>1, <1>2, <1>3 DEF Stood
  <1>6. \A m \in mentions : m[2] \in DOMAIN tree  BY DEF Inv, Records
  <1>7. Returns(<<>>, people, Stood')  BY DEF Returns
  <1>8. Alone'  BY <1>1, <1>2, <1>3, <1>4, <1>5, <1>6, <1>7 DEF Alone
  <1>9. Untouched'  BY <1>1 DEF Undoable, Untouched, Fits
  <1> QED  BY <1>8, <1>9 DEF Undoable

\* An op on the outline: the rows that stood and are there still say what they said.
LEMMA OpCarries ==
  ASSUME Inv, OpCreateScene \/ OpCreateNode \/ OpRename \/ OpDelete \/ OpMove
  PROVE  /\ Restructure(tree') /\ Carries(tree, tree')
         /\ \A n \in DOMAIN tree' : n \in DOMAIN tree \/ n \notin 1..made
  <1>1. Good(tree) /\ IsTree(tree) /\ made \in Nat  BY DEF Inv, Rows, Good
  <1>2. \E t : /\ Restructure(t) /\ Carries(tree, t)
               /\ \A n \in DOMAIN t : n \in DOMAIN tree \/ n \notin 1..made
    <2>1. made + 1 \notin 1..made /\ made + 1 \notin DOMAIN tree  BY <1>1 DEF Inv, Rows
    <2>2. \A ref, p, kind, label :
             /\ Carries(tree, AfterSibling(tree, made + 1, ref, kind, label))
             /\ Carries(tree, AsLast(tree, made + 1, p, kind, label))
             /\ DOMAIN AfterSibling(tree, made + 1, ref, kind, label) = DOMAIN tree \cup {made + 1}
             /\ DOMAIN AsLast(tree, made + 1, p, kind, label) = DOMAIN tree \cup {made + 1}
      <3>1. \A t, n, row : DOMAIN With(t, n, row) = DOMAIN t \cup {n}  BY DEF With
      <3>2. \A p, o : DOMAIN Push(tree, p, o) = DOMAIN tree  BY DEF Push
      <3>3. \A ref, p, kind, label :
               /\ DOMAIN AfterSibling(tree, made + 1, ref, kind, label) = DOMAIN tree \cup {made + 1}
               /\ DOMAIN AsLast(tree, made + 1, p, kind, label) = DOMAIN tree \cup {made + 1}
        <4> SUFFICES ASSUME NEW ref, NEW p, NEW kind, NEW label
                     PROVE  /\ DOMAIN AfterSibling(tree, made + 1, ref, kind, label) = DOMAIN tree \cup {made + 1}
                            /\ DOMAIN AsLast(tree, made + 1, p, kind, label) = DOMAIN tree \cup {made + 1}
          OBVIOUS
        <4>1. DOMAIN AsLast(tree, made + 1, p, kind, label) = DOMAIN tree \cup {made + 1}
          BY <3>1, Zenon DEF AsLast
        <4>2. DOMAIN AfterSibling(tree, made + 1, ref, kind, label)
                = DOMAIN Push(tree, tree[ref].parent, tree[ref].ord + 1) \cup {made + 1}
          BY <3>1, Zenon DEF AfterSibling
        <4> QED  BY <3>2, <4>1, <4>2
      <3> QED  BY <1>1, <2>1, <3>3, CreateCarries
    <2>3. Carries(tree, tree)  BY DEF Carries
    <2>4. CASE OpCreateScene  BY <2>1, <2>2, <2>4 DEF OpCreateScene
    <2>5. CASE OpCreateNode  BY <2>1, <2>2, <2>3, <2>5 DEF OpCreateNode
    <2>6. \A n \in DOMAIN tree : \A p, label :
             /\ Carries(tree, MovedUp(tree, n)) /\ Carries(tree, MovedDown(tree, n))
             /\ Carries(tree, MovedUnder(tree, n, p)) /\ Carries(tree, Without(tree, n))
             /\ Carries(tree, [tree EXCEPT ![n].label = label])
      BY <1>1, RearrangeCarries
    <2>7. CASE OpRename  BY <2>6, <2>7 DEF OpRename
    <2>8. CASE OpDelete
      <3>1. \A n \in DOMAIN tree : DOMAIN Without(tree, n) \subseteq DOMAIN tree  BY DEF Without
      <3> QED  BY <2>6, <2>8, <3>1 DEF OpDelete
    <2>9. CASE OpMove
      <3>1. \A n \in DOMAIN tree, p \in DOMAIN tree :
               /\ DOMAIN MovedUp(tree, n) = DOMAIN tree /\ DOMAIN MovedDown(tree, n) = DOMAIN tree
               /\ CanHold(tree, n, p) => DOMAIN MovedUnder(tree, n, p) = DOMAIN tree
        BY <1>1, MovedUpIs, MovedDownIs, MovedUnderIs DEF Moves
      <3> QED  BY <2>6, <2>9, <3>1 DEF OpMove
    <2> QED  BY <2>4, <2>5, <2>7, <2>8, <2>9
  <1> QED  BY <1>2 DEF Restructure, Plant

LEMMA RestructureUndoable ==
  ASSUME Inv, Undoable, OpCreateScene \/ OpCreateNode \/ OpRename \/ OpDelete \/ OpMove
  PROVE  Undoable'
  <1>1. /\ Restructure(tree') /\ Carries(tree, tree')
        /\ \A n \in DOMAIN tree' : n \in DOMAIN tree \/ n \notin 1..made
    BY OpCarries
  <1>2. /\ batch.pc = "open" /\ batch.structural /\ people' = people
        /\ mentions' = Standing(mentions, tree')
        /\ batch' = [batch EXCEPT !.tried = TRUE, !.any = TRUE] /\ window' = Since(window)
    BY <1>1 DEF Restructure, AnOp, Plant
  <1>3. \A b \in Batch : LET c == [b EXCEPT !.tried = TRUE, !.any = TRUE] IN
          /\ c.pc = b.pc /\ c.structural = b.structural /\ c.before = b.before /\ c.sets = b.sets
          /\ c.wrote = b.wrote /\ c.alone = b.alone
    BY DEF Batch
  <1>4. /\ batch'.structural = batch.structural /\ batch'.before = batch.before
        /\ batch'.sets = batch.sets /\ batch'.wrote = batch.wrote /\ batch'.alone = batch.alone
    BY <1>2, <1>3 DEF Inv, Shape
  <1>5. ASSUME batch.alone PROVE Alone'
    <2>1. /\ Bears(tree, batch.before, batch.wrote)
          /\ \A m \in mentions : m[2] \in Stood
          /\ Returns(batch.sets, people, Stood)
      BY <1>2, <1>5 DEF Undoable, Alone
    <2>2. DOMAIN batch.before \subseteq 1..made  BY DEF Inv, Rows, Snaps
    <2>3. Bears(tree', batch.before, batch.wrote)  BY <1>1, <2>1, <2>2 DEF Bears, Carries
    <2>4. Stood' = Stood  BY <1>2, <1>4 DEF Stood
    <2>5. \A m \in mentions' : m[2] \in Stood  BY <1>2, <2>1 DEF Standing
    <2> QED  BY <1>2, <1>4, <2>1, <2>3, <2>4, <2>5 DEF Alone
  <1>6. Alone'
    <2>1. CASE ~batch.alone  BY <1>4, <2>1 DEF Alone
    <2> QED  BY <1>5, <2>1
  <1>7. Untouched'
    <2>1. window \in Seq(Change)  BY DEF Inv, Shape
    <2>2. \A i \in DOMAIN window' : ~window'[i].untouched  BY <1>2, <2>1, SinceMarks
    <2> QED  BY <2>2 DEF Untouched
  <1> QED  BY <1>6, <1>7 DEF Undoable

\* An op that leaves the outline alone.
LEMMA ApplyUndoable ==
  ASSUME Inv, Undoable, NEW sets \in Seq(Sets), NEW wrote \in SUBSET Nodes, Apply(sets, wrote),
         DOMAIN tree' = DOMAIN tree,
         \A n \in DOMAIN tree : /\ tree'[n].kind = tree[n].kind
                                /\ n \notin wrote => tree'[n].words = tree[n].words,
         mentions' \subseteq mentions,
         \A q \in people : q \in people' \/ \E k \in DOMAIN sets : sets[k].who = q,
         Returns(sets, people', {m[2] : m \in mentions})
  PROVE  Undoable'
  <1>1. /\ batch.pc = "open" /\ window' = Since(window)
        /\ batch' = [batch EXCEPT !.sets = @ \o sets, !.wrote = @ \cup wrote, !.any = TRUE]
    BY DEF Apply, AnOp
  <1>2. /\ batch'.structural = batch.structural /\ batch'.before = batch.before
        /\ batch'.sets = batch.sets \o sets /\ batch'.wrote = batch.wrote \cup wrote
        /\ batch'.alone = batch.alone
    <2>1. \A b \in Batch : \A ss, ww : LET c == [b EXCEPT !.sets = ss, !.wrote = ww, !.any = TRUE] IN
            /\ c.structural = b.structural /\ c.before = b.before /\ c.sets = ss
            /\ c.wrote = ww /\ c.alone = b.alone
      BY DEF Batch
    <2>2. batch' = [batch EXCEPT !.sets = batch.sets \o sets, !.wrote = batch.wrote \cup wrote,
                                 !.any = TRUE]
      BY <1>1
    <2> QED  BY <2>1, <2>2 DEF Inv, Shape
  <1>3. ASSUME batch.alone PROVE Alone'
    <2>1. /\ ~batch.structural => batch.before = NoTree
          /\ Bears(tree, batch.before, batch.wrote)
          /\ \A m \in mentions : m[2] \in Stood
          /\ Returns(batch.sets, people, Stood)
      BY <1>1, <1>3 DEF Undoable, Alone
    <2>2. Stood' = Stood  BY <1>2 DEF Stood
    <2>3. Bears(tree', batch.before, batch.wrote \cup wrote)  BY <2>1 DEF Bears
    <2>4. \A m \in mentions' : m[2] \in Stood  BY <2>1
    <2>5. batch.sets \in Seq(Sets)  BY DEF Inv, Shape, Batch
    <2> DEFINE all == batch.sets \o sets
               n == Len(batch.sets)
    <2>6. /\ n \in Nat /\ DOMAIN batch.sets = 1..n
          /\ \A j \in 1..n : j \in DOMAIN all /\ all[j] = batch.sets[j]
          /\ \A j \in DOMAIN sets : n + j \in DOMAIN all /\ all[n + j] = sets[j]
          /\ \A j \in DOMAIN all : j \in 1..n \/ \E i \in DOMAIN sets : j = n + i
          /\ DOMAIN sets \subseteq Nat
      <3>1. Len(sets) \in Nat /\ DOMAIN sets = 1..Len(sets) /\ n \in Nat /\ DOMAIN batch.sets = 1..n
        BY <2>5
      <3>2. DOMAIN all = 1..(n + Len(sets))  BY <2>5, <3>1
      <3>3. \A j \in 1..(n + Len(sets)) : all[j] = IF j <= n THEN batch.sets[j] ELSE sets[j - n]
        BY <2>5
      <3>4. \A j \in DOMAIN all : j \in 1..n \/ (j - n \in DOMAIN sets /\ j = n + (j - n))
        BY <3>1, <3>2
      <3>5. \A j \in DOMAIN sets : n + j \in DOMAIN all /\ all[n + j] = sets[j]
        BY <3>1, <3>2, <3>3
      <3>6. \A j \in 1..n : j \in DOMAIN all /\ all[j] = batch.sets[j]
        BY <3>1, <3>2, <3>3
      <3> QED  BY <3>1, <3>4, <3>5, <3>6
    <2> HIDE DEF all, n
    <2>7. Returns(all, people', Stood)
      <3> SUFFICES ASSUME NEW j \in DOMAIN all
                   PROVE  /\ \A b \in all[j].bonds : \A q \in b :
                                q \in people' \/ \E k \in DOMAIN all : k >= j /\ all[k].who = q
                          /\ \A m \in all[j].mentions : m[2] \in Stood
        BY DEF Returns
      <3>1. CASE j \in 1..n
        <4>1. all[j] = batch.sets[j] /\ j \in DOMAIN batch.sets  BY <2>6, <3>1
        <4>2. \A m \in all[j].mentions : m[2] \in Stood  BY <2>1, <4>1 DEF Returns
        <4>3. ASSUME NEW b \in all[j].bonds, NEW q \in b
              PROVE  q \in people' \/ \E k \in DOMAIN all : k >= j /\ all[k].who = q
          <5>1. q \in people \/ \E k \in 1..n : k >= j /\ batch.sets[k].who = q
            BY <2>1, <2>6, <4>1 DEF Returns
          <5>2. CASE q \in people
            <6>1. q \in people' \/ \E k \in DOMAIN sets : sets[k].who = q  BY <5>2
            <6>2. \A k \in DOMAIN sets : n + k \in DOMAIN all /\ n + k >= j /\ all[n + k] = sets[k]
              BY <2>6, <3>1
            <6> QED  BY <6>1, <6>2
          <5> QED  BY <2>6, <5>1, <5>2
        <4> QED  BY <4>2, <4>3
      <3>2. CASE j \notin 1..n
        <4>1. PICK i \in DOMAIN sets : j = n + i  BY <2>6, <3>2
        <4>2. all[j] = sets[i]  BY <2>6, <4>1
        <4>3. \A m \in all[j].mentions : m[2] \in Stood  BY <2>1, <4>2 DEF Returns
        <4>4. ASSUME NEW b \in all[j].bonds, NEW q \in b
              PROVE  q \in people' \/ \E k \in DOMAIN all : k >= j /\ all[k].who = q
          <5>1. q \in people' \/ \E k \in DOMAIN sets : k >= i /\ sets[k].who = q
            BY <4>2 DEF Returns
          <5>2. \A k \in DOMAIN sets : k >= i =>
                   n + k \in DOMAIN all /\ n + k >= j /\ all[n + k] = sets[k]
            BY <2>6, <4>1
          <5> QED  BY <5>1, <5>2
        <4> QED  BY <4>3, <4>4
      <3> QED  BY <3>1, <3>2
    <2> QED  BY <1>2, <2>1, <2>2, <2>3, <2>4, <2>7 DEF Alone, all
  <1>4. Alone'
    <2>1. CASE ~batch.alone  BY <1>2, <2>1 DEF Alone
    <2> QED  BY <1>3, <2>1
  <1>5. Untouched'
    <2>1. window \in Seq(Change)  BY DEF Inv, Shape
    <2>2. \A i \in DOMAIN window' : ~window'[i].untouched  BY <1>1, <2>1, SinceMarks
    <2> QED  BY <2>2 DEF Untouched
  <1> QED  BY <1>4, <1>5 DEF Undoable

LEMMA ApplyOpsUndoable ==
  ASSUME Inv, Undoable, OpSetText \/ OpCreatePerson \/ OpDeletePerson
  PROVE  Undoable'
  <1>1. Good(tree) /\ IsTree(tree)  BY DEF Inv, Rows, Good
  <1>2. <<>> \in Seq(Sets) /\ {} \in SUBSET Nodes /\ \A there, scenes : Returns(<<>>, there, scenes)
    BY DEF Returns
  <1>3. CASE OpSetText
    <2>1. PICK n \in DOMAIN tree :
            tree' = [tree EXCEPT ![n].words = @ + 1] /\ Apply(<<>>, {n})
      BY <1>3 DEF OpSetText
    <2>2. people' = people /\ mentions' = mentions  BY <1>3 DEF OpSetText, world
    <2>3. {n} \in SUBSET Nodes  BY <1>1, <2>1, RowOf
    <2>4. DOMAIN tree' = DOMAIN tree  BY <2>1
    <2>5. \A m \in DOMAIN tree : /\ tree'[m].kind = tree[m].kind
                                 /\ m \notin {n} => tree'[m].words = tree[m].words
      <3>1. tree[n] \in Row  BY <1>1, RowOf
      <3>2. \A row \in Row : \A w : [row EXCEPT !.words = w].kind = row.kind  BY DEF Row
      <3>3. tree' = [tree EXCEPT ![n] = [tree[n] EXCEPT !.words = tree[n].words + 1]]  BY <2>1
      <3>4. tree'[n].kind = tree[n].kind  BY <3>1, <3>2, <3>3
      <3> QED  BY <3>3, <3>4
    <2> QED  BY <1>2, <2>1, <2>2, <2>3, <2>4, <2>5, ApplyUndoable
  <1>4. CASE OpCreatePerson
    <2>1. Apply(<<>>, {}) /\ tree' = tree /\ mentions' = mentions /\ people \subseteq people'
      BY <1>4 DEF OpCreatePerson, NewPerson
    <2> QED  BY <1>2, <2>1, ApplyUndoable
  <1>5. CASE OpDeletePerson
    <2>1. PICK p \in people : DropPerson(p) /\ Apply(<<Capture(p)>>, {})
      BY <1>5 DEF OpDeletePerson
    <2>2. tree' = tree  BY <1>5 DEF OpDeletePerson
    <2>3. people' = people \ {p} /\ mentions' \subseteq mentions  BY <2>1 DEF DropPerson
    <2> DEFINE s == Capture(p)
    <2>4. s.who = p /\ s.bonds = Friends(p) /\ s.mentions = Scenes(p)  BY DEF Capture
    <2>5. s \in Sets
      <3>1. Friends(p) \in SUBSET SUBSET People  BY DEF Friends, Inv, Records
      <3>2. mentions \subseteq People \X Nodes  BY DEF Inv, Records, Rows, Good, IsTree
      <3>3. Scenes(p) \in SUBSET (People \X Nodes)  BY <3>2 DEF Scenes
      <3>4. p \in People  BY DEF Inv, Records
      <3> QED  BY <3>1, <3>3, <3>4 DEF Capture, Sets
    <2>6. \A b \in s.bonds : b \subseteq people  BY <2>4 DEF Friends, Inv, Records
    <2>7. s.mentions \subseteq mentions  BY <2>4 DEF Scenes
    <2>8. Apply(<<s>>, {})  BY <2>1
    <2> HIDE DEF s
    <2>9. <<s>> \in Seq(Sets) /\ DOMAIN <<s>> = {1} /\ <<s>>[1] = s  BY <2>5
    <2>10. Returns(<<s>>, people', {m[2] : m \in mentions})
      BY <2>3, <2>4, <2>6, <2>7, <2>9 DEF Returns
    <2>11. \A q \in people : q \in people' \/ \E k \in DOMAIN <<s>> : <<s>>[k].who = q
      BY <2>3, <2>4, <2>9
    <2> QED  BY <1>2, <2>2, <2>3, <2>8, <2>9, <2>10, <2>11, ApplyUndoable
  <1> QED  BY <1>3, <1>4, <1>5

LEMMA OpFailsUndoable ==
  ASSUME Inv, Undoable, OpFails
  PROVE  Undoable'
  <1>1. /\ batch' = [batch EXCEPT !.failed = TRUE, !.tried = batch.structural, !.any = TRUE]
        /\ tree' = tree /\ people' = people /\ mentions' = mentions
        /\ window' = window /\ undoing' = undoing
    BY DEF OpFails, world
  <1>2. \A b \in Batch : \A t :
          LET c == [b EXCEPT !.failed = TRUE, !.tried = t, !.any = TRUE] IN
          /\ c.pc = b.pc /\ c.structural = b.structural /\ c.before = b.before /\ c.sets = b.sets
          /\ c.wrote = b.wrote /\ c.alone = b.alone
    BY DEF Batch
  <1>3. /\ batch'.pc = batch.pc /\ batch'.structural = batch.structural
        /\ batch'.before = batch.before /\ batch'.sets = batch.sets
        /\ batch'.wrote = batch.wrote /\ batch'.alone = batch.alone
    BY <1>1, <1>2 DEF Inv, Shape
  <1> QED  BY <1>1, <1>3 DEF Undoable, Alone, Untouched, Stood, Fits

\* What is remembered of a batch is what the batch was to keep.
LEMMA RememberUndoable ==
  ASSUME Inv, Undoable, batch.pc = "open", NEW nodes, nodes = batch.before, Remember(nodes),
         tree' = tree, people' = people, undoing' = undoing, batch' = NoBatch
  PROVE  Undoable'
  <1> DEFINE entry == [nodes |-> nodes, sets |-> batch.sets, wrote |-> batch.wrote,
                       untouched |-> batch.alone]
             old   == Since(window)
             grown == Append(old, entry)
  <1>1. window' = (IF Len(grown) > Window THEN Tail(grown) ELSE grown) /\ undoing = 0
    BY DEF Remember
  <1>2. old \in Seq(Change) /\ \A i \in DOMAIN old : ~old[i].untouched
    BY SinceIs, SinceMarks DEF Inv, Shape
  <1>3. entry \in Change  BY DEF Inv, Shape, Batch, Change
  <1>4. /\ entry.nodes = batch.before /\ entry.sets = batch.sets /\ entry.wrote = batch.wrote
        /\ entry.untouched = batch.alone
    OBVIOUS
  <1> HIDE DEF entry, old
  <1>5. \A i \in DOMAIN window' : ~window'[i].untouched \/ window'[i] = entry
    <2>1. /\ grown \in Seq(Change) /\ Len(grown) = Len(old) + 1 /\ Len(old) \in Nat
          /\ \A i \in 1..Len(grown) : (i \in DOMAIN old /\ grown[i] = old[i]) \/ grown[i] = entry
      BY <1>2, <1>3
    <2> HIDE DEF grown
    <2>2. \A i \in DOMAIN grown : ~grown[i].untouched \/ grown[i] = entry  BY <1>2, <2>1
    <2>3. \A i \in DOMAIN Tail(grown) : i + 1 \in DOMAIN grown /\ Tail(grown)[i] = grown[i + 1]
      BY <2>1
    <2> QED  BY <1>1, <2>2, <2>3
  <1>6. ASSUME batch.alone
        PROVE  /\ Bears(tree, batch.before, batch.wrote)
               /\ Returns(batch.sets, people, Fits(entry))
    <2>1. /\ ~batch.structural => batch.before = NoTree
          /\ Bears(tree, batch.before, batch.wrote)
          /\ Returns(batch.sets, people, Stood)
      BY <1>6 DEF Undoable, Alone
    <2>2. Stood \subseteq Fits(entry)  BY <1>4, <2>1, NothingIsGood DEF Stood, Fits
    <2> QED  BY <2>1, <2>2, ReturnsMore
  <1>7. Untouched'
    <2> SUFFICES ASSUME NEW i \in DOMAIN window', window'[i].untouched
                 PROVE  /\ Bears(tree, window'[i].nodes, window'[i].wrote)
                        /\ Returns(window'[i].sets, people, Fits(window'[i]))
      BY <1>1 DEF Untouched, Fits
    <2>1. window'[i] = entry  BY <1>5
    <2> QED  BY <1>4, <1>6, <2>1
  <1>8. Alone'  BY DEF Alone, NoBatch
  <1> QED  BY <1>7, <1>8 DEF Undoable

LEMMA EndUndoable ==
  ASSUME Inv, Undoable, EndBatch
  PROVE  Undoable'
  <1>1. batch.pc = "open" /\ people' = people /\ undoing' = undoing  BY DEF EndBatch
  <1>2. NoBatch.pc = "idle"  BY DEF NoBatch
  <1>3. CASE /\ window' = Since(window)
             /\ batch' = IF batch.sets = <<>> THEN NoBatch ELSE [batch EXCEPT !.pc = "putback"]
    <2>1. \A b \in Batch : [b EXCEPT !.pc = "putback"].pc = "putback"  BY DEF Batch
    <2>2. batch \in Batch  BY DEF Inv, Shape
    <2>3. batch'.pc # "open"  BY <1>2, <1>3, <2>1, <2>2
    <2> QED  BY <1>3, <2>3, Disturbed
  <1>4. CASE /\ Remember(batch.before) \/ window' = window
             /\ batch' = NoBatch /\ tree' = tree /\ mentions' = mentions
    <2>1. CASE Remember(batch.before)  BY <1>1, <1>4, <2>1, RememberUndoable
    <2>2. CASE window' = window
      <3>1. Untouched'  BY <1>1, <1>4, <2>2 DEF Undoable, Untouched, Fits
      <3>2. Alone'  BY <1>2, <1>4 DEF Alone
      <3> QED  BY <3>1, <3>2 DEF Undoable
    <2> QED  BY <1>4, <2>1, <2>2
  <1> QED  BY <1>3, <1>4 DEF EndBatch

\* An outline that is put back is the one that was kept, but for the words of the
\* scenes that were set.
LEMMA RestoredReplants ==
  ASSUME NEW t, IsTree(t), NEW s, IsTree(s), NEW wrote, Bears(t, s, wrote)
  PROVE  Replants(Restored(t, s), s, wrote)
  <1> DEFINE u == Restored(t, s)
  <1>1. DOMAIN u = DOMAIN s  BY DEF Restored
  <1>2. ASSUME NEW n \in DOMAIN s
        PROVE  u[n] = IF n \in wrote THEN [s[n] EXCEPT !.words = u[n].words] ELSE s[n]
    <2>1. s[n] \in Row  BY RowOf
    <2>2. CASE n \in DOMAIN t
      <3>1. u[n] = [s[n] EXCEPT !.kind = t[n].kind, !.words = t[n].words]  BY <2>2 DEF Restored
      <3>2. t[n].kind = s[n].kind /\ (n \notin wrote => t[n].words = s[n].words)
        BY <2>2 DEF Bears
      <3>3. \A r \in Row : \A w : /\ [r EXCEPT !.kind = r.kind, !.words = w] = [r EXCEPT !.words = w]
                               /\ [r EXCEPT !.words = w].words = w
                               /\ [r EXCEPT !.words = r.words] = r
        BY DEF Row
      <3>4. u[n] = [s[n] EXCEPT !.words = t[n].words] /\ u[n].words = t[n].words
            /\ (t[n].words = s[n].words => u[n] = s[n])
        <4>1. u[n] = [s[n] EXCEPT !.kind = s[n].kind, !.words = t[n].words]  BY <3>1, <3>2
        <4> HIDE DEF u
        <4>2. u[n] = [s[n] EXCEPT !.words = t[n].words]  BY <2>1, <3>3, <4>1
        <4>3. u[n].words = t[n].words  BY <2>1, <4>2 DEF Row
        <4>4. t[n].words = s[n].words => u[n] = s[n]  BY <2>1, <3>3, <4>2
        <4> QED  BY <4>2, <4>3, <4>4
      <3> QED  BY <3>2, <3>4
    <2>3. CASE n \notin DOMAIN t
      <3>1. u[n] = s[n]  BY <2>3 DEF Restored
      <3>2. \A r \in Row : [r EXCEPT !.words = r.words] = r  BY DEF Row
      <3> QED  BY <2>1, <3>1, <3>2
    <2> QED  BY <2>2, <2>3
  <1> QED  BY <1>1, <1>2 DEF Replants

\* What is known when the outline of an untouched change has been put back.
LEMMA OutlineBack ==
  ASSUME Inv, Undoable, NEW i \in DOMAIN window, UndoOutline(i), window[i].untouched
  PROVE  /\ window[i].nodes # NoTree => Replants(tree', window[i].nodes, window[i].wrote)
         /\ Returns(window[i].sets, people, IF window[i].nodes = NoTree THEN DOMAIN tree'
                                            ELSE DOMAIN window[i].nodes)
  <1>1. /\ undoing = 0
        /\ window[i].nodes # NoTree => tree' = Restored(tree, window[i].nodes)
        /\ window[i].nodes = NoTree => tree' = tree
    BY DEF UndoOutline, Plant
  <1>2. /\ Bears(tree, window[i].nodes, window[i].wrote)
        /\ Returns(window[i].sets, people, Fits(window[i]))
    BY <1>1 DEF Undoable, Untouched
  <1>3. IsTree(tree) /\ IsTree(window[i].nodes)  BY DEF Inv, Rows, Good, Snaps
  <1>4. window[i].nodes # NoTree => Replants(tree', window[i].nodes, window[i].wrote)
    BY <1>1, <1>2, <1>3, RestoredReplants
  <1> QED  BY <1>1, <1>2, <1>4 DEF Fits

LEMMA UndoOutlineUndoable ==
  ASSUME Inv, Undoable, NEW i \in DOMAIN window, UndoOutline(i)
  PROVE  Undoable'
  <1>1. batch' = [batch EXCEPT !.alone = FALSE] /\ people' = people  BY DEF UndoOutline
  <1>2. ~batch'.alone
    <2>1. \A b \in Batch : [b EXCEPT !.alone = FALSE].alone = FALSE  BY DEF Batch
    <2> QED  BY <1>1, <2>1 DEF Inv, Shape
  <1>3. CASE Forget(i)  BY <1>2, <1>3, Disturbed
  <1>4. CASE /\ undoing' = i
             /\ window' = [j \in DOMAIN window |-> [window[j] EXCEPT !.untouched = @ /\ j = i]]
    <2>1. window \in Seq(Change) /\ DOMAIN window = 1..Len(window)  BY DEF Inv, Shape
    <2>2. \A c \in Change, x \in BOOLEAN :
            LET e == [c EXCEPT !.untouched = x] IN
            e.nodes = c.nodes /\ e.sets = c.sets /\ e.wrote = c.wrote /\ e.untouched = x
      BY DEF Change
    <2>3. DOMAIN window' = DOMAIN window  BY <1>4
    <2>4. ASSUME NEW j \in DOMAIN window
          PROVE  /\ window'[j].nodes = window[j].nodes /\ window'[j].sets = window[j].sets
                 /\ window'[j].wrote = window[j].wrote
                 /\ window'[j].untouched <=> (window[j].untouched /\ j = i)
      <3> DEFINE x == window[j].untouched /\ j = i
      <3>1. window[j] \in Change /\ x \in BOOLEAN  BY <2>1
      <3>2. window'[j] = [window[j] EXCEPT !.untouched = x]  BY <1>4
      <3> HIDE DEF x
      <3>3. /\ window'[j].nodes = window[j].nodes /\ window'[j].sets = window[j].sets
            /\ window'[j].wrote = window[j].wrote /\ window'[j].untouched = x
        BY <2>2, <3>1, <3>2
      <3> QED  BY <3>3 DEF x
    <2>5. undoing' # 0  BY <1>4, <2>1
    <2>6. Untouched'
      <3> SUFFICES ASSUME NEW j \in DOMAIN window', window'[j].untouched
                   PROVE  /\ undoing' = j
                          /\ window'[j].nodes # NoTree =>
                                Replants(tree', window'[j].nodes, window'[j].wrote)
                          /\ Returns(window'[j].sets, people', IF window'[j].nodes = NoTree
                                                               THEN DOMAIN tree'
                                                               ELSE DOMAIN window'[j].nodes)
        BY <2>5 DEF Untouched, Fits
      <3>1. j = i /\ window[i].untouched  BY <2>3, <2>4
      <3>2. /\ window[i].nodes # NoTree => Replants(tree', window[i].nodes, window[i].wrote)
            /\ Returns(window[i].sets, people, IF window[i].nodes = NoTree THEN DOMAIN tree'
                                               ELSE DOMAIN window[i].nodes)
        BY <3>1, OutlineBack
      <3> QED  BY <1>1, <1>4, <2>4, <3>1, <3>2 DEF Fits
    <2>7. Alone'  BY <1>2 DEF Alone
    <2> QED  BY <2>6, <2>7 DEF Undoable
  <1> QED  BY <1>3, <1>4 DEF UndoOutline

LEMMA UndoWorldUndoable ==
  ASSUME Inv, UndoWorld
  PROVE  Undoable'
  <1>1. /\ batch' = [batch EXCEPT !.alone = FALSE] /\ undoing # 0
        /\ Forget(undoing) \/ window' = Since(window)
    BY DEF UndoWorld
  <1>2. ~batch'.alone
    <2>1. \A b \in Batch : [b EXCEPT !.alone = FALSE].alone = FALSE  BY DEF Batch
    <2> QED  BY <1>1, <2>1 DEF Inv, Shape
  <1>3. undoing \in DOMAIN window
    <2>1. DOMAIN window = 1..Len(window) /\ Len(window) \in Nat  BY DEF Inv, Shape
    <2> QED  BY <1>1, <2>1 DEF Inv, Shape
  <1> QED  BY <1>1, <1>2, <1>3, Disturbed

LEMMA UndoableStays ==
  ASSUME Inv, Undoable, [Next]_vars
  PROVE  Undoable'
  <1>1. CASE Writer  BY <1>1, WriterDisturbs
  <1>2. CASE Crash
    <2>1. batch' = NoBatch /\ window' = <<>>  BY <1>2 DEF Crash
    <2>2. batch'.pc # "open"  BY <2>1 DEF NoBatch
    <2> QED  BY <2>1, <2>2, Disturbed
  <1>3. CASE Agent
    <2>1. ASSUME NEW structural \in BOOLEAN, BeginBatch(structural) PROVE Undoable'
      BY <2>1, BeginUndoable
    <2>2. ASSUME NEW i \in DOMAIN window, UndoOutline(i) PROVE Undoable'
      BY <2>2, UndoOutlineUndoable
    <2>3. CASE PutBack
      <3>1. batch' = NoBatch /\ window' = Since(window)  BY <2>3 DEF PutBack
      <3>2. batch'.pc # "open"  BY <3>1 DEF NoBatch
      <3> QED  BY <3>1, <3>2, Disturbed
    <2> QED
      BY <1>3, <2>1, <2>2, <2>3, RestructureUndoable, ApplyOpsUndoable, OpFailsUndoable, EndUndoable,
         UndoWorldUndoable DEF Agent
  <1>4. CASE UNCHANGED vars
    BY <1>4 DEF vars, Undoable, Alone, Untouched, Stood, Fits
  <1> QED  BY <1>1, <1>2, <1>3, <1>4 DEF Next

\* An undo of an untouched change does what it is to do.
LEMMA UndoneExactly ==
  ASSUME Inv, Undoable, [Next]_vars, NEW i \in DOMAIN window, window[i].untouched, Undoes(i)
  PROVE  Exact(i)
  <1>1. window \in Seq(Change) /\ Len(window) \in Nat /\ i \in 1..Len(window)
    BY DEF Inv, Shape
  <1>2. window[i].sets \in Seq(Sets) /\ Recorded(window[i].sets, met)
    <2>1. window[i] \in Change  BY <1>1
    <2> QED  BY <2>1 DEF Change, Inv, Captures
  <1>3. CASE UndoOutline(i) /\ undoing' = 0
    <2>1. window[i].sets = <<>>  BY <1>1, <1>3 DEF UndoOutline
    <2>2. window[i].nodes # NoTree => Replants(tree', window[i].nodes, window[i].wrote)
      BY <1>3, OutlineBack
    <2> QED  BY <2>1, <2>2 DEF Exact, Replants
  <1>4. CASE undoing = i /\ UndoWorld
    <2> DEFINE sets == window[i].sets
    <2>1. /\ tree' = tree
          /\ people' = PutRight(sets).people /\ bonds' = PutRight(sets).bonds
          /\ mentions' = PutRight(sets).mentions
          /\ IF PutRight(sets).ok THEN Forget(i) ELSE window' = Since(window)
      BY <1>4 DEF UndoWorld
    <2>2. PutRight(sets).ok
      <3>1. Len(Since(window)) = Len(window)  BY <1>1, SinceIs
      <3>2. Len(window') < Len(window)  BY DEF Undoes
      <3> QED  BY <1>1, <2>1, <3>1, <3>2
    <2>3. /\ window[i].nodes # NoTree => Replants(tree, window[i].nodes, window[i].wrote)
          /\ Returns(sets, people, Fits(window[i]))
      BY <1>1, <1>4 DEF Undoable, Untouched
    <2>4. Fits(window[i]) = DOMAIN tree  BY <2>3 DEF Fits, Replants
    <2>5. \A j \in DOMAIN sets : /\ sets[j].who \in people' /\ sets[j].bonds \subseteq bonds'
                                 /\ sets[j].mentions \subseteq mentions'
      <3>1. Records /\ IsTree(tree)  BY DEF Inv, Rows, Good
      <3> HIDE DEF sets
      <3>2. sets \in Seq(Sets) /\ Recorded(sets, met)  BY <1>2 DEF sets
      <3> QED  BY <2>1, <2>2, <2>3, <2>4, <3>1, <3>2, AllReturn
    <2> QED  BY <2>1, <2>3, <2>5 DEF Exact, Replants
  <1> QED  BY <1>3, <1>4 DEF Undoes

-----------------------------------------------------------------------------
(* The theorems.                                                           *)

\* Inv holds: the outline and every outline that is kept to go back to are whole
\* and of numbers that were given out, and every capture is of a person there was.
THEOREM Invariant == Spec => []Inv
  <1>1. Init => Inv  BY Starts
  <1>2. Inv /\ [Next]_vars => Inv'  BY Stays DEF Goes
  <1> QED  BY <1>1, <1>2, PTL DEF Spec

\* Every variable has its type (TypeOK): no row, mention or capture names what was
\* never made, whatever an undo brings back.
THEOREM Typed == Spec => []TypeOK
  <1>1. Inv => TypeOK  BY InvIsTyped
  <1> QED  BY <1>1, Invariant, PTL

\* The outline stays whole: every row under a row that is there, no ring, and no
\* two siblings with one ordinal, whatever the writer does between the ops of a
\* batch, and whatever batch or repair is taken back when.
THEOREM StaysWhole == Spec => []OutlineWhole
  <1>1. Inv => OutlineWhole  BY InvIsTyped
  <1> QED  BY <1>1, Invariant, PTL

\* Outline implements OutlineOrder: each request and op adds one row, takes a row
\* and what is below it away or puts one row elsewhere, and leaves the order of
\* the others; what a rollback or an undo plants is an outline that was kept.
THEOREM OrderKept == Spec => KeepsOrder
  <1>1. Init => Order!Init  BY Starts
  <1>2. Inv /\ [Next]_vars => [Order!Next]_(Order!vars)  BY Stays DEF Goes
  <1> QED  BY <1>1, <1>2, Invariant, PTL DEF Spec, KeepsOrder, Order!Spec

\* An undo of a batch that nothing came between or after is exact (UndoIsExact):
\* the outline stands as it stood before the batch, the words of deleted scenes
\* included, and every record that it deleted is there with all that hung off it,
\* though the two are put back in two steps.
THEOREM UndoneAsMeant == Spec => UndoIsExact
  <1>1. Init => Undoable
    BY DEF Init, Undoable, Alone, Untouched, NoBatch
  <1>2. Inv /\ Undoable /\ [Next]_vars => Undoable'  BY UndoableStays
  <1>3. Inv /\ Undoable /\ [Next]_vars =>
          [\A i \in DOMAIN window : window[i].untouched /\ Undoes(i) => Exact(i)]_vars
    BY UndoneExactly
  <1> QED  BY <1>1, <1>2, <1>3, Invariant, PTL DEF Spec, UndoIsExact
=============================================================================
