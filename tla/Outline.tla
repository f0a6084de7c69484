------------------------------- MODULE Outline -------------------------------
(***************************************************************************)
(* The outline of one work: its parts and scenes in a tree of numbered     *)
(* rows, the changes the writer makes to it, the batches of changes an     *)
(* agent applies (storyops), and taking such a batch back.                 *)
(*                                                                         *)
(* A row has a parent, an ordinal among its siblings, a kind and a label,  *)
(* and a scene has its words.  Around the tree stand the people of the     *)
(* story, the bonds between them and the scenes that mention them; they    *)
(* stand for every record a batch can delete (a person, a storyline, a     *)
(* beat, a fact, a relationship) with what hangs off it.                   *)
(*                                                                         *)
(* The engine has one database connection: a transaction is one step, and  *)
(* so is each op of a batch; a batch is no transaction, and what the       *)
(* writer does may come between two of its ops.                            *)
(***************************************************************************)
EXTENDS Integers, Sequences, FiniteSets

CONSTANTS
    MaxNodes,    \* bound: rows made in a behaviour; a row's id is its number
    Labels,
    Start,       \* the outline at first, a function from ids to rows
    People,      \* the people who may be in the story, each with one name
    NameOf(_),   \* that name: no two in one work may bear the same
    Cast,        \* who is in the story at first,
    Bonds,       \* their bonds
    Mentions,    \* and the scenes that mention them
    MaxWords,    \* bound: words in a scene
    MaxEvents,   \* bound: what the writer does and times the engine stops, together
    MaxBatches,  \* bound: batches
    MaxOps,      \* bound: ops in all batches
    MaxSteps,    \* bound: batches, ops and events, together
    Window       \* maxUndoBatches

Nodes == 1..MaxNodes
Root  == 0
Kinds == {"leaf", "container"}
Row   == [parent : Nodes \cup {Root}, ord : Nat, kind : Kinds, label : Labels,
          words : Nat]

VARIABLES
    tree,      \* nodes: the rows there are
    made,      \* how many ids were given out
    met,       \* the people there ever were: each has an id of its own
    people,    \* entities
    bonds,     \* relationships, each the set of its two ends
    mentions,  \* mentions, pairs of a person and a scene
    batch,     \* the batch under way
    window,    \* undoState: what can be taken back
    undoing,   \* the place in the window of the undo under way, or 0
    kept,      \* the outline the desktop keeps from before a repair
    spent      \* counters for the bounds

vars  == <<tree, made, met, people, bonds, mentions, batch, window, undoing, kept, spent>>
world == <<people, bonds, mentions>>
ids   == <<made, met>>

NoTree  == <<>>
NoBatch == [pc |-> "idle", structural |-> FALSE, before |-> NoTree, sets |-> <<>>,
            tried |-> FALSE, failed |-> FALSE, alone |-> TRUE, wrote |-> {}, any |-> FALSE]

-----------------------------------------------------------------------------
(* The tree of rows.  Every operator takes the tree t as it stands.        *)

IsTree(t) == DOMAIN t \in SUBSET Nodes /\ t \in [DOMAIN t -> Row]

\* The outline as its readers take it (ListByProject, the desktop's tree): every
\* row hangs under a row that is there, no rows hang under one another in a
\* ring, and no two siblings have one ordinal.
Whole(t) ==
    /\ \A n \in DOMAIN t : t[n].parent \in DOMAIN t \cup {Root}
    /\ \A S \in SUBSET DOMAIN t : (\A n \in S : t[n].parent \in S) => S = {}
    /\ \A m, n \in DOMAIN t : m # n /\ t[m].parent = t[n].parent => t[m].ord # t[n].ord

Kids(t, p) == {n \in DOMAIN t : t[n].parent = p}

\* nodeAndDescendantIDs: what no set closed under children leaves out.
Subtree(t, n) ==
    {m \in DOMAIN t :
        \A S \in SUBSET DOMAIN t :
            n \in S /\ (\A k \in DOMAIN t : t[k].parent \in S => k \in S) => m \in S}

\* ordinal = ordinal + 1 for the children of p from o on.
\* Mutant of Push: the row that stands at o is left where it is.
PushAfter(t, p, o) ==
    [n \in DOMAIN t |-> IF t[n].parent = p /\ t[n].ord > o
                        THEN [t[n] EXCEPT !.ord = @ + 1] ELSE t[n]]
Push(t, p, o) ==
    [n \in DOMAIN t |-> IF t[n].parent = p /\ t[n].ord >= o
                        THEN [t[n] EXCEPT !.ord = @ + 1] ELSE t[n]]

\* ordinal = ordinal - 1 for the siblings after n.
Pull(t, n) ==
    [m \in DOMAIN t |-> IF t[m].parent = t[n].parent /\ t[m].ord > t[n].ord
                        THEN [t[m] EXCEPT !.ord = @ - 1] ELSE t[m]]

Put(t, n, p, o) == [t EXCEPT ![n].parent = p, ![n].ord = o]

\* MAX(ordinal) + 1 among the children of p.
NextOrd(t, p) ==
    IF Kids(t, p) = {} THEN 0
    ELSE 1 + (CHOOSE o \in {t[n].ord : n \in Kids(t, p)} :
                 \A n \in Kids(t, p) : t[n].ord <= o)

With(t, n, row) == [m \in DOMAIN t \cup {n} |-> IF m = n THEN row ELSE t[m]]
NewRow(p, o, kind, label) ==
    [parent |-> p, ord |-> o, kind |-> kind, label |-> label, words |-> 0]

\* CreateSibling: right after ref, the later siblings one on.
AfterSibling(t, n, ref, kind, label) ==
    With(Push(t, t[ref].parent, t[ref].ord + 1), n,
         NewRow(t[ref].parent, t[ref].ord + 1, kind, label))

\* CreateChild, CreateRoot: at the end.
AsLast(t, n, p, kind, label) == With(t, n, NewRow(p, NextOrd(t, p), kind, label))

\* Delete: the rows below go by the foreign key; the gap stays.
Without(t, n) == [m \in DOMAIN t \ Subtree(t, n) |-> t[m]]

\* MoveTo's checks on the new parent.
CanHold(t, n, p) ==
    p = Root \/ (p \in DOMAIN t /\ t[p].kind = "container" /\ p \notin Subtree(t, n))

\* MoveTo: the old siblings close up, the ordinal is cut to the number of rows
\* under the new parent, and the rows from there on make room.
MovedTo(t, n, p, o) ==
    LET pulled == Pull(t, n)
        count  == Cardinality(Kids(pulled, p))
        at     == IF o > count THEN count ELSE o
    IN  Put(Push(pulled, p, at), n, p, at)

\* MoveToParent, MoveToRoot: to the end, unless it is there already.
MovedUnder(t, n, p) ==
    IF t[n].parent = p THEN t ELSE Put(Pull(t, n), n, p, NextOrd(t, p))

\* swap, with the nearest sibling before or after, if there is one.
Earlier(t, n) == {m \in Kids(t, t[n].parent) : t[m].ord < t[n].ord}
Later(t, n)   == {m \in Kids(t, t[n].parent) : t[m].ord > t[n].ord}
Swapped(t, n, m) == [t EXCEPT ![n].ord = t[m].ord, ![m].ord = t[n].ord]
\* Mutant of MovedUp: with the first of the siblings before it.
MovedUpFar(t, n) ==
    IF Earlier(t, n) = {} THEN t
    ELSE Swapped(t, n, CHOOSE m \in Earlier(t, n) :
                          \A k \in Earlier(t, n) : t[k].ord >= t[m].ord)
MovedUp(t, n) ==
    IF Earlier(t, n) = {} THEN t
    ELSE Swapped(t, n, CHOOSE m \in Earlier(t, n) :
                          \A k \in Earlier(t, n) : t[k].ord <= t[m].ord)
MovedDown(t, n) ==
    IF Later(t, n) = {} THEN t
    ELSE Swapped(t, n, CHOOSE m \in Later(t, n) :
                          \A k \in Later(t, n) : t[k].ord >= t[m].ord)

\* RestoreOutline: the rows that went come back as they were, those that stayed
\* keep their kind and their words, and those made since are deleted.
Restored(t, snap) ==
    [n \in DOMAIN snap |->
        IF n \in DOMAIN t
        THEN [snap[n] EXCEPT !.kind = t[n].kind, !.words = t[n].words]
        ELSE snap[n]]

-----------------------------------------------------------------------------
(* The records around it. *)

Friends(p) == {b \in bonds : p \in b}
Scenes(p)  == {m \in mentions : m[1] = p}

\* The rows of the tree that mentions point to may be gone: they go with them.
\* Mutant of Standing: they stay.
StandingAll(ms, t) == ms
Standing(ms, t) == {m \in ms : m[2] \in DOMAIN t}

\* entity.Removal: a record and what hangs off it, read before its delete.
Capture(p) == [who |-> p, bonds |-> Friends(p), mentions |-> Scenes(p)]

\* RowSet.Restore: the record must be free to come back; what hangs off it comes
\* if its other end is there.
RestoreSet(w, s) ==
    IF ~w.ok \/ s.who \in w.people \/ NameOf(s.who) \in {NameOf(q) : q \in w.people}
    THEN [w EXCEPT !.ok = FALSE]
    ELSE [ok |-> TRUE,
          people   |-> w.people \cup {s.who},
          bonds    |-> w.bonds \cup {b \in s.bonds : b \subseteq w.people \cup {s.who}},
          mentions |-> w.mentions \cup Standing(s.mentions, tree)]

\* removalLog.restorer: the deletes of a batch are put right last first, and a
\* refusal stops it there.
\* Mutant of PutRight: first first.
PutRightInOrder(sets) ==
    LET back[i \in 0..Len(sets)] ==
            IF i = 0
            THEN [ok |-> TRUE, people |-> people, bonds |-> bonds, mentions |-> mentions]
            ELSE RestoreSet(back[i - 1], sets[i])
    IN  back[Len(sets)]
PutRight(sets) ==
    LET back[i \in 0..Len(sets)] ==
            IF i = 0
            THEN [ok |-> TRUE, people |-> people, bonds |-> bonds, mentions |-> mentions]
            ELSE RestoreSet(back[i - 1], sets[Len(sets) + 1 - i])
    IN  back[Len(sets)]

-----------------------------------------------------------------------------
\* A work begins with a whole outline, of as many rows as ids were given out.
ASSUME StartAssumption ==
    /\ MaxNodes \in Nat /\ Window \in Nat
    /\ \E k \in 0..MaxNodes : Start \in [1..k -> Row]
    /\ Whole(Start)
    /\ Cast \subseteq People /\ Bonds \subseteq SUBSET Cast
    /\ Mentions \subseteq Cast \X (DOMAIN Start)

Init ==
    /\ tree = Start /\ made = Cardinality(DOMAIN Start)
    /\ met = Cast /\ people = Cast /\ bonds = Bonds /\ mentions = Mentions
    /\ batch = NoBatch /\ window = <<>> /\ undoing = 0 /\ kept = NoTree
    /\ spent = [events |-> 0, batches |-> 0, ops |-> 0]

\* entities.Create: no two people in a work bear one name.
NewPerson ==
    \E p \in People \ met :
        /\ NameOf(p) \notin {NameOf(q) : q \in people}
        /\ people' = people \cup {p}
        /\ met' = met \cup {p}

\* The tree becomes t, and the mentions in scenes that go, go.
Plant(t) == tree' = t /\ mentions' = Standing(mentions, t)

StepsLeft == spent.events + spent.batches + spent.ops < MaxSteps

\* Something has changed since the changes in the window.
Since(w) == [i \in DOMAIN w |-> [w[i] EXCEPT !.untouched = FALSE]]

-----------------------------------------------------------------------------
(* What the writer does in the outline, one request each. *)

Touched ==
    /\ batch' = [batch EXCEPT !.alone = FALSE]
    /\ window' = Since(window)
    /\ UNCHANGED undoing

Edit ==
    /\ spent.events < MaxEvents /\ StepsLeft
    /\ spent' = [spent EXCEPT !.events = @ + 1]
    /\ Touched

EditTree(t) == Edit /\ Plant(t) /\ UNCHANGED <<met, people, bonds, kept>>

CreateSibling ==
    /\ made < MaxNodes /\ made' = made + 1
    /\ \E ref \in DOMAIN tree, kind \in Kinds, label \in Labels :
          EditTree(AfterSibling(tree, made + 1, ref, kind, label))

\* Under any row: only the desktop and a batch see that it is a container.
CreateChild ==
    /\ made < MaxNodes /\ made' = made + 1
    /\ \E p \in DOMAIN tree, kind \in Kinds, label \in Labels :
          EditTree(AsLast(tree, made + 1, p, kind, label))

Rename ==
    /\ \E n \in DOMAIN tree, label \in Labels :
          EditTree([tree EXCEPT ![n].label = label])
    /\ UNCHANGED made

Delete ==
    /\ \E n \in DOMAIN tree : EditTree(Without(tree, n))
    /\ UNCHANGED made

MoveUp   == (\E n \in DOMAIN tree : EditTree(MovedUp(tree, n))) /\ UNCHANGED made
MoveDown == (\E n \in DOMAIN tree : EditTree(MovedDown(tree, n))) /\ UNCHANGED made

\* MoveTo, for a drag: the desktop gives the row's new place among its siblings
\* as it is to be counted from the first (planNodeMove).
MoveTo ==
    /\ \E n \in DOMAIN tree, p \in DOMAIN tree \cup {Root} :
          /\ CanHold(tree, n, p)
          /\ \E place \in 0..Cardinality(Kids(tree, p) \ {n}) :
                EditTree(MovedTo(tree, n, p, place))
    /\ UNCHANGED made

\* MoveToParent and MoveToRoot, which the repair of an outline uses.
MoveUnder ==
    /\ \E n \in DOMAIN tree, p \in DOMAIN tree \cup {Root} :
          CanHold(tree, n, p) /\ EditTree(MovedUnder(tree, n, p))
    /\ UNCHANGED made

\* ConvertLeafToContainer: an empty scene only.
Convert ==
    /\ \E n \in DOMAIN tree :
          /\ tree[n].kind = "leaf" /\ tree[n].words = 0
          /\ EditTree([tree EXCEPT ![n].kind = "container"])
    /\ UNCHANGED made

\* A scene is written on; its mentions are read from its text again.
Write ==
    /\ \E n \in DOMAIN tree, named \in SUBSET people :
          /\ tree[n].kind = "leaf" /\ tree[n].words < MaxWords
          /\ tree' = [tree EXCEPT ![n].words = @ + 1]
          /\ mentions' = {m \in mentions : m[2] # n} \cup {<<p, n>> : p \in named}
    /\ Edit
    /\ UNCHANGED <<ids, people, bonds, kept>>

\* People come in, go, and are bound to one another.
AddPerson ==
    /\ NewPerson
    /\ Edit
    /\ UNCHANGED <<tree, made, bonds, mentions, kept>>

Bind ==
    /\ \E p, q \in people :
          p # q /\ {p, q} \notin bonds /\ bonds' = bonds \cup {{p, q}}
    /\ Edit
    /\ UNCHANGED <<tree, ids, people, mentions, kept>>

DropPerson(p) ==
    /\ people' = people \ {p}
    /\ bonds' = bonds \ Friends(p)
    /\ mentions' = mentions \ Scenes(p)

RemovePerson ==
    /\ \E p \in people : DropPerson(p)
    /\ Edit
    /\ UNCHANGED <<tree, ids, kept>>

\* handleRepairOutline keeps the outline on screen, then moves rows about with
\* the requests above; handleUndoRepairOutline sends it back (restore_outline).
StartRepair ==
    /\ kept = NoTree /\ tree # NoTree
    /\ kept' = tree
    /\ Edit
    /\ UNCHANGED <<tree, ids, world>>

UndoRepair ==
    /\ kept # NoTree
    /\ kept' = NoTree
    /\ Plant(Restored(tree, kept))
    /\ Touched
    /\ UNCHANGED <<ids, people, bonds, spent>>

-----------------------------------------------------------------------------
(* A batch: ApplyOpsWithRefs. *)

\* The outline is captured first if an op of the batch changes it.
BeginBatch(structural) ==
    /\ batch.pc = "idle" /\ spent.batches < MaxBatches /\ StepsLeft
    /\ spent' = [spent EXCEPT !.batches = @ + 1]
    /\ batch' = [NoBatch EXCEPT !.pc = "open", !.structural = structural,
                                !.before = IF structural THEN tree ELSE NoTree]
    /\ UNCHANGED <<tree, ids, world, window, undoing, kept>>

AnOp == /\ batch.pc = "open" /\ spent.ops < MaxOps /\ StepsLeft
        /\ spent' = [spent EXCEPT !.ops = @ + 1]

\* An op that leaves the outline alone: what it deletes goes into sets, the
\* scenes whose text it sets are in wrote.
Apply(sets, wrote) ==
    /\ AnOp
    /\ batch' = [batch EXCEPT !.sets = @ \o sets, !.wrote = @ \cup wrote, !.any = TRUE]
    /\ window' = Since(window)
    /\ UNCHANGED <<made, undoing, kept>>

\* An op that changes the outline.
Restructure(t) ==
    /\ AnOp /\ batch.structural
    /\ Plant(t)
    /\ batch' = [batch EXCEPT !.tried = TRUE, !.any = TRUE]
    /\ window' = Since(window)
    /\ UNCHANGED <<met, people, bonds, undoing, kept>>

\* create_scene: under a part, or after the scene it names.
OpCreateScene ==
    /\ made < MaxNodes /\ made' = made + 1
    /\ \E label \in Labels :
          \/ \E ref \in DOMAIN tree :
                Restructure(AfterSibling(tree, made + 1, ref, "leaf", label))
          \/ \E p \in DOMAIN tree :
                /\ tree[p].kind = "container"
                /\ Restructure(AsLast(tree, made + 1, p, "leaf", label))

\* findMatchingOutlineNode: a row of that kind and label under that parent.
Matches(p, kind, label) ==
    {n \in Kids(tree, p) : tree[n].kind = kind /\ tree[n].label = label}

\* create_outline_node: as a scene, or last of all; a row that matches will do.
OpCreateNode ==
    \E kind \in Kinds, label \in Labels, p \in DOMAIN tree \cup {Root} :
        /\ p # Root => tree[p].kind = "container"
        /\ IF Matches(p, kind, label) # {}
           THEN Restructure(tree) /\ UNCHANGED made
           ELSE /\ made < MaxNodes /\ made' = made + 1
                /\ \/ Restructure(AsLast(tree, made + 1, p, kind, label))
                   \/ \E ref \in Kids(tree, p) :
                         Restructure(AfterSibling(tree, made + 1, ref, kind, label))

OpRename ==
    /\ \E n \in DOMAIN tree, label \in Labels :
          Restructure([tree EXCEPT ![n].label = label])
    /\ UNCHANGED made

OpDelete ==
    /\ \E n \in DOMAIN tree : Restructure(Without(tree, n))
    /\ UNCHANGED made

OpMove ==
    /\ \E n \in DOMAIN tree :
          \/ Restructure(MovedUp(tree, n))
          \/ Restructure(MovedDown(tree, n))
          \/ \E p \in DOMAIN tree :
                CanHold(tree, n, p) /\ Restructure(MovedUnder(tree, n, p))
    /\ UNCHANGED made

\* set_scene_text: the text as it stood is kept as a snapshot of the scene.
OpSetText ==
    /\ \E n \in DOMAIN tree :
          /\ tree[n].kind = "leaf" /\ tree[n].words < MaxWords
          /\ tree' = [tree EXCEPT ![n].words = @ + 1]
          /\ Apply(<<>>, {n})
    /\ UNCHANGED <<met, world>>

OpCreatePerson ==
    /\ NewPerson
    /\ Apply(<<>>, {})
    /\ UNCHANGED <<tree, bonds, mentions>>

\* delete_entity, and the deletes that are like it.
OpDeletePerson ==
    /\ \E p \in people : DropPerson(p) /\ Apply(<<Capture(p)>>, {})
    /\ UNCHANGED <<tree, met>>

\* An op that names what is not there, or cannot be done: the batch goes on.
OpFails ==
    /\ AnOp
    /\ batch' = [batch EXCEPT !.failed = TRUE, !.tried = batch.structural, !.any = TRUE]
    /\ UNCHANGED <<tree, ids, world, window, undoing, kept>>

\* rememberChange: the oldest falls out of a full window.
Remember(nodes) ==
    /\ undoing = 0
    /\ LET entry == [nodes |-> nodes, sets |-> batch.sets, wrote |-> batch.wrote,
                     untouched |-> batch.alone]
           grown == Append(Since(window), entry)
       IN  window' = IF Len(grown) > Window THEN Tail(grown) ELSE grown

\* The last op is done.  A failed batch that changes the outline is rolled back,
\* its deletes in a step of its own; what can be undone is remembered.
EndBatch ==
    /\ batch.pc = "open" /\ batch.any /\ batch.tried = batch.structural
    /\ \/ /\ batch.before # NoTree /\ batch.failed
          /\ Plant(Restored(tree, batch.before))
          /\ batch' = IF batch.sets = <<>> THEN NoBatch
                      ELSE [batch EXCEPT !.pc = "putback"]
          /\ window' = Since(window)
       \/ /\ batch.before # NoTree /\ ~batch.failed
          /\ Remember(batch.before)
          /\ batch' = NoBatch /\ UNCHANGED <<tree, mentions>>
       \/ /\ batch.before = NoTree
          /\ IF batch.sets # <<>> THEN Remember(NoTree) ELSE UNCHANGED window
          /\ batch' = NoBatch /\ UNCHANGED <<tree, mentions>>
    /\ UNCHANGED <<ids, people, bonds, undoing, kept, spent>>

PutBack ==
    /\ batch.pc = "putback"
    /\ LET w == PutRight(batch.sets) IN
          people' = w.people /\ bonds' = w.bonds /\ mentions' = w.mentions
    /\ batch' = NoBatch
    /\ window' = Since(window)
    /\ UNCHANGED <<tree, ids, undoing, kept, spent>>

-----------------------------------------------------------------------------
(* Taking a batch back: UndoApply. *)

Forget(i) == window' = Since([j \in 1..Len(window) - 1 |->
                                 IF j < i THEN window[j] ELSE window[j + 1]])

\* The outline first: a mention that comes back needs its scene.
UndoOutline(i) ==
    /\ undoing = 0
    /\ IF window[i].nodes # NoTree
       THEN Plant(Restored(tree, window[i].nodes)) ELSE UNCHANGED <<tree, mentions>>
    /\ IF window[i].sets = <<>>
       THEN Forget(i) /\ UNCHANGED undoing
       ELSE /\ undoing' = i
            /\ window' = [j \in DOMAIN window |->
                             [window[j] EXCEPT !.untouched = @ /\ j = i]]
    /\ batch' = [batch EXCEPT !.alone = FALSE]
    /\ UNCHANGED <<ids, people, bonds, kept, spent>>

\* Then the deletes.  If one is refused the change stays in the window.
UndoWorld ==
    /\ undoing # 0
    /\ LET w == PutRight(window[undoing].sets) IN
          /\ people' = w.people /\ bonds' = w.bonds /\ mentions' = w.mentions
          /\ IF w.ok THEN Forget(undoing) ELSE window' = Since(window)
    /\ undoing' = 0
    /\ batch' = [batch EXCEPT !.alone = FALSE]
    /\ UNCHANGED <<tree, ids, kept, spent>>

\* The engine stops: what is under way ends there, and the window is gone.
Crash ==
    /\ spent.events < MaxEvents /\ StepsLeft
    /\ spent' = [spent EXCEPT !.events = @ + 1]
    /\ batch' = NoBatch /\ window' = <<>> /\ undoing' = 0
    /\ UNCHANGED <<tree, ids, world, kept>>

Writer ==
    \/ CreateSibling \/ CreateChild \/ Rename \/ Delete \/ MoveUp \/ MoveDown
    \/ MoveTo \/ MoveUnder \/ Convert \/ Write
    \/ AddPerson \/ Bind \/ RemovePerson \/ StartRepair \/ UndoRepair

Agent ==
    \/ \E structural \in BOOLEAN : BeginBatch(structural)
    \/ OpCreateScene \/ OpCreateNode \/ OpRename \/ OpDelete \/ OpMove
    \/ OpSetText \/ OpCreatePerson \/ OpDeletePerson \/ OpFails
    \/ EndBatch \/ PutBack
    \/ \E i \in DOMAIN window : UndoOutline(i)
    \/ UndoWorld

Next == Writer \/ Agent \/ Crash

Spec == Init /\ [][Next]_vars

-----------------------------------------------------------------------------
(* Properties *)

Sets == [who : People, bonds : SUBSET SUBSET People, mentions : SUBSET (People \X Nodes)]

\* Every variable has its type.
TypeOK ==
    /\ IsTree(tree) /\ made \in 0..MaxNodes /\ DOMAIN tree \subseteq 1..made
    /\ met \subseteq People /\ people \subseteq met /\ bonds \subseteq SUBSET people
    /\ mentions \subseteq people \X (DOMAIN tree)
    /\ batch.pc \in {"idle", "open", "putback"}
    /\ batch.sets \in Seq(Sets) /\ IsTree(batch.before)
    /\ \A i \in DOMAIN window : IsTree(window[i].nodes) /\ window[i].sets \in Seq(Sets)
    /\ undoing \in 0..Len(window) /\ Len(window) <= Window
    /\ IsTree(kept)

\* The outline stays whole, whatever comes between the ops of a batch and an undo.
OutlineWhole == Whole(tree)

\* An undo of a batch that nothing came between or after puts the outline back as
\* it stood before the batch, the words of deleted scenes included (a text the
\* batch set may stay), and brings back every record the batch deleted with all
\* that hung off it.
Exact(i) ==
    /\ window[i].nodes # NoTree =>
          /\ DOMAIN tree' = DOMAIN window[i].nodes
          /\ \A n \in DOMAIN tree' :
                LET row == window[i].nodes[n] IN
                tree'[n] = IF n \in window[i].wrote
                           THEN [row EXCEPT !.words = tree'[n].words] ELSE row
    /\ \A j \in DOMAIN window[i].sets :
          LET s == window[i].sets[j] IN
          s.who \in people' /\ s.bonds \subseteq bonds' /\ s.mentions \subseteq mentions'
Undoes(i) == /\ \/ undoing = i /\ UndoWorld
                \/ UndoOutline(i) /\ undoing' = 0
             /\ Len(window') < Len(window)
UndoIsExact == [][\A i \in DOMAIN window : window[i].untouched /\ Undoes(i) => Exact(i)]_vars

\* apply.go: a failed batch is reported "against an unchanged project".  When nothing
\* came between, the records that it deleted are there again.
RollsBack == batch.pc # "idle" /\ batch.failed /\ batch.before # NoTree /\ (EndBatch \/ PutBack)
RollbackBringsBack ==
    [][RollsBack /\ batch'.pc = "idle" /\ batch.alone =>
         \A j \in DOMAIN batch.sets : batch.sets[j].who \in people']_vars

\* The rows with their ordinals do what OutlineOrder promises: whatever ordinals
\* an operation hands out, the nodes it does not name keep their order, and what
\* is brought back is an outline that was kept.
Under(t) == [n \in DOMAIN t |-> t[n].parent]
Ahead(t) == {x \in (DOMAIN t) \X (DOMAIN t) :
                t[x[1]].parent = t[x[2]].parent /\ t[x[1]].ord < t[x[2]].ord}
Keptback == ({batch.before, kept} \cup {window[i].nodes : i \in DOMAIN window}) \ {NoTree}
Order == INSTANCE OutlineOrder WITH
    parent <- Under(tree), ahead <- Ahead(tree),
    past <- {<<Under(t), Ahead(t)>> : t \in Keptback}
KeepsOrder == Order!Spec
=============================================================================
