------------------------------ MODULE WorkCopy ------------------------------
(* A work's rows as they travel: out of the library into a bundle and back in  *)
(* over another device's rows (internal/vaultbundle/bundle.go), and copied     *)
(* under new ids next to the original (internal/restore/restore.go, for a      *)
(* backup, a duplicate and the copy a conflict keeps). Each is one transaction *)
(* with foreign keys on: rows of another table go, or lose what they name, as  *)
(* what they name is deleted.                                                  *)
(*                                                                             *)
(* A table stands for those that behave like it: scenes for the tree, people   *)
(* for records with a unique name, mentions for what goes with both, facts for *)
(* what names another row of its table, talk for a category that may be left   *)
(* out, sheets for what stays on its device.                                   *)
EXTENDS Naturals, FiniteSets

CONSTANTS
    Devices,
    Numbers,        \* ids
    Names,
    MaxEdits,       \* bound: edits there ever are
    MaxCopies       \* bound: copies there ever are

Works == {"work", "copy"}
Ids(w) == {w} \X Numbers
None == <<"none", 0>>
NoRows == [scene |-> {}, person |-> {}, mention |-> {}, fact |-> {}, talk |-> {}, sheet |-> {}, opened |-> None]
Left == [left |-> "out"]

VARIABLES
    lib,        \* the rows of each work on each device
    head,       \* what the vault has, and its number
    seen,       \* number of the head each device has, and what it had then
    omit,       \* conversations are left out
    edits,
    copies,
    refused     \* a pull that failed

vars == <<lib, head, seen, omit, edits, copies, refused>>

IdsOf(rows) == {x.id : x \in rows}
NamedBy(rows, gone) == {[x EXCEPT !.at = IF @ \in gone THEN None ELSE @] : x \in rows}
First(ids) == CHOOSE i \in ids : \A j \in ids : i[2] <= j[2]

-----------------------------------------------------------------------------
(* What the schema does when scenes or people are deleted.                     *)
Below(r, id) ==
    LET under[n \in Nat] == IF n = 0 THEN {id}
                            ELSE under[n - 1] \cup {x.id : x \in {y \in r.scene : y.parent \in under[n - 1]}}
    IN under[Cardinality(r.scene)]

NoScenes(r, ids) ==
    LET gone == UNION {Below(r, i) : i \in ids}
    IN [r EXCEPT !.scene = {x \in @ : x.id \notin gone},
                 !.mention = {m \in @ : m.scene \notin gone},
                 !.fact = NamedBy(@, gone), !.talk = NamedBy(@, gone)]

NoPeople(r, gone) ==
    [r EXCEPT !.person = {x \in @ : x.id \notin gone},
              !.mention = {m \in @ : m.person \notin gone}, !.sheet = @ \ gone]

NoFact(r, f) ==
    [r EXCEPT !.fact = {[x EXCEPT !.about = IF @ = f.id THEN None ELSE @] : x \in @ \ {f}}]

(* The edits a writer and the agents make, one row at a time.                  *)
EditScenes(r, w) ==
    LET free == Ids(w) \ IdsOf(r.scene) IN
    {[r EXCEPT !.scene = @ \cup {[id |-> First(free), parent |-> p]}] :
        p \in IF free = {} THEN {} ELSE IdsOf(r.scene) \cup {None}}
    \cup {[r EXCEPT !.scene = (@ \ {x[1]}) \cup {[x[1] EXCEPT !.parent = x[2]]}] :
            x \in {y \in r.scene \X (IdsOf(r.scene) \cup {None}) : y[2] \notin Below(r, y[1].id)}}
    \cup {NoScenes(r, {x.id}) : x \in r.scene}

EditPeople(r, w) ==
    LET free == Ids(w) \ IdsOf(r.person)
        names == Names \ {x.name : x \in r.person}
    IN {[r EXCEPT !.person = @ \cup {[id |-> First(free), name |-> n]}] : n \in IF free = {} THEN {} ELSE names}
       \cup {[r EXCEPT !.person = (@ \ {x[1]}) \cup {[x[1] EXCEPT !.name = x[2]]}] : x \in r.person \X names}
       \cup {NoPeople(r, {x.id}) : x \in r.person}
       \cup {[r EXCEPT !.mention = @ \cup {[scene |-> s, person |-> p]}] : s \in IdsOf(r.scene), p \in IdsOf(r.person)}

(* Only a fact about a question names another, and a question names none.      *)
EditFacts(r, w) ==
    LET free == Ids(w) \ IdsOf(r.fact)
        questions == {x.id : x \in {y \in r.fact : y.question}}
    IN (IF free = {} THEN {} ELSE
        {[r EXCEPT !.fact = @ \cup {[id |-> i, at |-> s, about |-> q, question |-> FALSE]}] :
            i \in free, s \in IdsOf(r.scene), q \in questions}
        \cup {[r EXCEPT !.fact = @ \cup {[id |-> i, at |-> None, about |-> None, question |-> TRUE]}] : i \in free})
       \cup {NoFact(r, f) : f \in r.fact}

EditTalk(r, w, d) ==
    {[r EXCEPT !.talk = @ \cup {[id |-> <<d, 1>>, at |-> s]}] :
        s \in IF \E x \in r.talk : x.id = <<d, 1>> THEN {} ELSE IdsOf(r.scene)}

EditHere(r) ==
    {[r EXCEPT !.sheet = @ \cup {p}] : p \in IdsOf(r.person)}
    \cup {[r EXCEPT !.opened = s] : s \in IdsOf(r.scene)}

-----------------------------------------------------------------------------
(* Export: what stays on its device is not in it, nor what was left out.       *)
Export(r, without) ==
    [scene |-> r.scene, person |-> r.person, mention |-> r.mention, fact |-> r.fact,
     talk |-> IF without THEN Left ELSE [left |-> "in", rows |-> r.talk]]

Carries(b) == b.talk # Left

Cleared(r, b, merge) ==
    [r EXCEPT !.mention = {}, !.fact = {}, !.talk = IF Carries(b) /\ ~merge THEN {} ELSE @]

AsideNot(people) == people

(* Kept rows step out of the way: their id is a name no other row has.         *)
Aside(people) == {[x EXCEPT !.name = x.id] : x \in people}

(* A row upserted while another still has its name.                            *)
Clash(old, new) ==
    \E x \in new, y \in old : x.id # y.id /\ x.name = y.name /\ x.id[2] < y.id[2]

ApplyPeople(r, b) ==
    LET kept == NoPeople(r, IdsOf(r.person) \ IdsOf(b.person))
    IN [rows |-> [kept EXCEPT !.person = b.person], ok |-> ~Clash(Aside(kept.person), b.person)]

ScenesFirstGone(r, b) == [NoScenes(r, IdsOf(r.scene) \ IdsOf(b.scene)) EXCEPT !.scene = b.scene]

(* What is wanted is put in place first, then the rest goes: a scene that left *)
(* a parent is not deleted with it.                                            *)
ApplyScenes(r, b) ==
    NoScenes([r EXCEPT !.scene = {x \in @ : x.id \notin IdsOf(b.scene)} \cup b.scene], IdsOf(r.scene) \ IdsOf(b.scene))

AsSorted(f, g) == f.id[2] < g.id[2]

(* referencedFirst: the rows that point at none come before all that do.       *)
ComesFirst(f, g) == f.about = None /\ (g.about # None \/ AsSorted(f, g))

InsertFacts(r, b) ==
    [rows |-> [r EXCEPT !.fact = b.fact],
     ok |-> \A g \in b.fact : g.about # None => \E f \in b.fact : f.id = g.about /\ ComesFirst(f, g)]

(* insert, or merge by id for a category this device has only begun to carry.  *)
InsertTalk(r, b, merge) ==
    IF ~Carries(b) THEN r
    ELSE [r EXCEPT !.talk = b.talk.rows \cup {x \in @ : merge /\ x.id \notin IdsOf(b.talk.rows)}]

PlaceOpened(r) ==
    IF r.opened \in IdsOf(r.scene) THEN r
    ELSE [r EXCEPT !.opened = IF r.scene = {} THEN None ELSE First(IdsOf(r.scene))]

ApplyWith(r, b, merge) ==
    LET people == ApplyPeople(Cleared(r, b, merge), b)
        facts  == InsertFacts([ApplyScenes(people.rows, b) EXCEPT !.mention = b.mention], b)
    IN [rows |-> PlaceOpened(InsertTalk(facts.rows, b, merge)), ok |-> people.ok /\ facts.ok]

-----------------------------------------------------------------------------
FreshKept(id) == id

(* MergeProject: a new id for each row of the work.                            *)
Fresh(id) == IF id = None THEN None ELSE <<"copy", id[2]>>

CopyScenes(r) == {[id |-> Fresh(x.id), parent |-> Fresh(x.parent)] : x \in r.scene}
CopyPeople(r) == {[x EXCEPT !.id = Fresh(x.id)] : x \in r.person}
CopyMentions(r) == {[scene |-> Fresh(m.scene), person |-> Fresh(m.person)] : m \in r.mention}

(* about is set once every row has its new id.                                 *)
CopyFacts(r) ==
    {[x EXCEPT !.id = Fresh(x.id), !.about = Fresh(x.about),
               !.at = IF @ \in IdsOf(r.scene) THEN Fresh(@) ELSE None] : x \in r.fact}

(* Conversations and what was published stay with the original.                *)
MergeProject(r) ==
    [scene |-> CopyScenes(r), person |-> CopyPeople(r), mention |-> CopyMentions(r), fact |-> CopyFacts(r),
     talk |-> {}, sheet |-> {}, opened |-> IF r.opened \in IdsOf(r.scene) THEN Fresh(r.opened) ELSE None]

-----------------------------------------------------------------------------
Begun ==
    LET s(n) == <<"work", n>> IN
    [NoRows EXCEPT
        !.scene = {[id |-> s(1), parent |-> None], [id |-> s(2), parent |-> s(1)]},
        !.person = {[id |-> s(1), name |-> CHOOSE n \in Names : TRUE],
                    [id |-> s(2), name |-> CHOOSE n \in Names : n # CHOOSE m \in Names : TRUE]},
        !.mention = {[scene |-> s(2), person |-> s(1)]}, !.opened = s(1)]

(* A work on all devices and in the vault, from before conversations travelled *)
(* or after.                                                                   *)
Init ==
    /\ omit \in BOOLEAN
    /\ lib = [d \in Devices |-> [w \in Works |-> IF w = "work" THEN Begun ELSE NoRows]]
    /\ \E without \in {omit, TRUE} :
        /\ head = [number |-> 0, bundle |-> Export(Begun, without)]
        /\ seen = [d \in Devices |-> head]
    /\ edits = 0 /\ copies = 0 /\ refused = FALSE

EditWork(d, w) ==
    /\ edits < MaxEdits /\ edits' = edits + 1
    /\ lib[d][w] # NoRows
    /\ \E r \in EditScenes(lib[d][w], w) \cup EditPeople(lib[d][w], w) \cup EditFacts(lib[d][w], w)
                \cup EditTalk(lib[d][w], w, d) \cup EditHere(lib[d][w]) :
        lib' = [lib EXCEPT ![d][w] = r]
    /\ UNCHANGED <<head, seen, omit, copies, refused>>

Now(d) == Export(lib[d]["work"], omit)

Push(d) ==
    /\ seen[d].number = head.number /\ Now(d) # seen[d].bundle
    /\ head' = [number |-> head.number + 1, bundle |-> Now(d)]
    /\ seen' = [seen EXCEPT ![d] = head']
    /\ UNCHANGED <<lib, omit, edits, copies, refused>>

(* onlyNewlyCarried: without conversations the work is what was last synced.   *)
Merges(d) == Now(d) # seen[d].bundle /\ Export(lib[d]["work"], TRUE) = seen[d].bundle

Pull(d) ==
    LET merge == Merges(d)
        after == ApplyWith(lib[d]["work"], head.bundle, merge)
    IN /\ seen[d].number # head.number
       /\ Now(d) = seen[d].bundle \/ merge
       /\ lib' = IF after.ok THEN [lib EXCEPT ![d]["work"] = after.rows] ELSE lib
       /\ refused' = (refused \/ ~after.ok)
       /\ seen' = IF ~after.ok THEN seen
                  ELSE [seen EXCEPT ![d] = [number |-> head.number,
                        bundle |-> IF merge THEN head.bundle ELSE Export(after.rows, omit)]]
       /\ UNCHANGED <<head, omit, edits, copies>>

Copy(d) ==
    /\ copies < MaxCopies /\ copies' = copies + 1
    /\ lib[d]["copy"] = NoRows
    /\ lib' = [lib EXCEPT ![d]["copy"] = MergeProject(lib[d]["work"])]
    /\ UNCHANGED <<head, seen, omit, edits, refused>>

Next ==
    \E d \in Devices : (\E w \in Works : EditWork(d, w)) \/ Push(d) \/ Pull(d) \/ Copy(d)

Spec == Init /\ [][Next]_vars

-----------------------------------------------------------------------------
(* A bundle any device made can be applied on any other that has not changed:  *)
(* no order of its rows trips a key or a unique name.                          *)
Lands == ~refused

(* No row of a work names a row of another: what is done to a work leaves its  *)
(* copy alone, the other way round too.                                        *)
Closed ==
    \A d \in Devices, w \in Works : LET r == lib[d][w] IN
        /\ {x.parent : x \in r.scene} \subseteq IdsOf(r.scene) \cup {None}
        /\ \A m \in r.mention : m.scene \in IdsOf(r.scene) /\ m.person \in IdsOf(r.person)
        /\ \A f \in r.fact : f.at \in IdsOf(r.scene) \cup {None} /\ f.about \in IdsOf(r.fact) \cup {None}
        /\ {t.at : t \in r.talk} \subseteq IdsOf(r.scene) \cup {None}
        /\ IdsOf(r.scene) \cup IdsOf(r.person) \cup IdsOf(r.fact) \cup r.sheet \subseteq Ids(w)

Pulled(d) == seen'[d].number # seen[d].number /\ head' = head

(* A work that was just pulled is what the vault has, so it does not look      *)
(* changed here and goes up again for nothing.                                 *)
Exact ==
    \A d \in Devices : Pulled(d) /\ ~Merges(d) /\ (Carries(head.bundle) \/ omit) =>
        Export(lib'[d]["work"], omit) = head.bundle

(* A pull leaves what is this device's own: what was published, where the      *)
(* writer was, and conversations it does not carry or carries for the first    *)
(* time - less only what stands on a person or a scene that is gone.           *)
OwnStays ==
    \A d \in Devices : Pulled(d) =>
        LET r == lib[d]["work"]  s == lib'[d]["work"] IN
        /\ s.sheet = r.sheet \cap IdsOf(s.person)
        /\ r.opened \in IdsOf(s.scene) => s.opened = r.opened
        /\ Merges(d) => IdsOf(r.talk) \subseteq IdsOf(s.talk)
        /\ ~Carries(head.bundle) => s.talk = NamedBy(r.talk, IdsOf(r.scene) \ IdsOf(s.scene))

Travels == [](Lands /\ Closed) /\ [][Exact /\ OwnStays]_vars

=============================================================================
