------------------------------- MODULE Brief -------------------------------
(* What an agent is told before it writes a scene                              *)
(* (internal/storycontext/builder.go, render.go, internal/ledger/brief.go,     *)
(* asof.go, internal/mcphost/tools_read.go): the scenes around it, others like *)
(* it, who is in it, what the ledger holds. Each section has a room of its     *)
(* own, counted in runes; what does not fit is counted or named, and the whole *)
(* is then cut from the back to fit a tool's result. A work changes between    *)
(* briefs, and the invariants are about the brief of every scene as it stands. *)
(*                                                                             *)
(* Left out: the accounts of parts and of the whole work, which are of all of  *)
(* it, the plot, the writer's notes and references, and what words a scene     *)
(* shares with a subject, which moves that subject or entry to the front.      *)
EXTENDS Naturals, FiniteSets, SequencesExt

CONSTANTS
    Scenes,          \* 1 .. n, in story order
    Part, Arc,       \* the part and the arc each scene is in
    Elements,        \* 1 .. m, in the order they appear and were last edited
    Core,            \* elements of the story's skeleton
    CoreLimit, CoreCandidates,
    CoreScenes,      \* scenes back that count as recent
    Card,            \* runes of each element's card
    Notes,           \* runes of a fact card: of a scene, the work's own, general
    Entries,         \* what may be recorded in the ledger
    NearbyRoom, CardRoom, RecentRoom, RecentLimit, FactRoom, PinnedRoom, StateRoom, OwedRoom, SettledRoom, BriefRoom,
    DueHorizon, UpcomingPlans, RelatedLimit,
    Whole,           \* a number each count of scenes divides
    MaxEdits         \* bound: changes to the work there ever are

Plan == 2
Summary == 1
Label == 1
Opening == 3

VARIABLES
    written,         \* scenes with a body
    planned,         \* scenes with a plan
    told,            \* scenes with a summary someone wrote
    cast,            \* elements named in each scene
    facts,           \* fact cards, by kind
    open,            \* the ledger's entries, in the order they were added
    over,            \* entries another took the place of
    edits

vars == <<written, planned, told, cast, facts, open, over, edits>>

InOrder(set) == SetToSortSeq(set, <)
Backwards(set) == SetToSortSeq(set, >)
Before(s) == {r \in Scenes : r < s}
Runes(seq, cost) == FoldLeft(LAMBDA sum, x : sum + cost[x], 0, seq)

Leading(seq, n) == SubSeq(seq, 1, IF Len(seq) < n THEN Len(seq) ELSE n)

(* Each in turn, if what is left has room for it.                              *)
Fill(seq, room, cost) ==
    FoldLeft(LAMBDA f, x : IF cost[x] <= f.room THEN [f EXCEPT !.room = @ - cost[x], !.in = Append(@, x)]
                           ELSE [f EXCEPT !.out = Append(@, x)],
             [room |-> room, in |-> <<>>, out |-> <<>>], seq)

-----------------------------------------------------------------------------
(* The scenes around: the one before, the one after, and unwritten ones next.  *)
Says(r) == IF r \in planned \ written THEN Plan
           ELSE IF r \in told THEN Summary ELSE IF r \in written THEN Opening ELSE 0

Upcoming(s) == {r \in Scenes : r \in (s + 2) .. (s + 1 + UpcomingPlans) /\ ((s + 2) .. r) \cap written = {}}

SceneLine == [r \in Scenes |-> Says(r) + Label]

TrimToBudget(seq) ==
    LET most == {n \in 1 .. Len(seq) : Runes(SubSeq(seq, 1, n), SceneLine) <= NearbyRoom}
    IN IF seq = <<>> THEN seq ELSE SubSeq(seq, 1, IF most = {} THEN 1 ELSE CHOOSE n \in most : \A k \in most : k <= n)

Nearby(s) ==
    TrimToBudget(SelectSeq(InOrder({s - 1, s + 1} \cap Scenes) \o InOrder(Upcoming(s)), LAMBDA r : Says(r) > 0))

(* Scenes that share two elements with it, by how rare these are.              *)
In(e) == {r \in Scenes : e \in cast[r]}
Rarity(s, r) == FoldSet(LAMBDA e, sum : sum + Whole \div Cardinality(In(e)), 0, cast[s] \cap cast[r])
CoMentions(s) ==
    SetToSortSeq({r \in told \ {s} : Cardinality(cast[s] \cap cast[r]) >= 2},
                 LAMBDA q, r : Rarity(s, q) > Rarity(s, r) \/ (Rarity(s, q) = Rarity(s, r) /\ q > r))

AllAlike(s) == CoMentions(s)

Reached(s) == SelectSeq(CoMentions(s), LAMBDA r : r < s)

Related(s) ==
    LET new == SelectSeq(Reached(s), LAMBDA r : r \notin Range(Nearby(s)))
    IN Leading(new, RelatedLimit)

-----------------------------------------------------------------------------
(* The elements: the scene's own, then those of the core the story is using.   *)
RecentCore(s) ==
    LET core == Leading(InOrder(Core), CoreCandidates)
        Seen(e) == Cardinality(In(e) \cap Before(s) \cap (s - CoreScenes .. s - 1))
    IN IF Len(core) <= CoreLimit THEN core
       ELSE Leading(SetToSortSeq(Range(core), LAMBDA e, f : Seen(e) > Seen(f) \/ (Seen(e) = Seen(f) /\ e < f)), CoreLimit)

Cards(s) ==
    Fill(InOrder(cast[s]) \o SelectSeq(RecentCore(s), LAMBDA e : e \notin cast[s]), CardRoom, Card)

(* Lines back into the story, nearest first: a scene's summary under the first *)
(* element it concerns, its label alone under the others.                      *)
Dossier(s) ==
    LET Scene(d, e, r) ==
            LET cost == IF r \in d.told THEN Label ELSE Label + Summary
            IN IF d.full \/ cost > d.room THEN [d EXCEPT !.full = TRUE]
               ELSE [d EXCEPT !.room = @ - cost, !.told = @ \cup {r}, !.lines = Append(@, <<e, r, r \notin d.told>>)]
        Some(e) == LET of == Backwards((In(e) \cap Before(s) \cap told) \ (Range(Nearby(s)) \cup Range(Related(s))))
                   IN Leading(of, RecentLimit)
        Element(d, e) == FoldLeft(LAMBDA c, r : Scene(c, e, r), [d EXCEPT !.full = FALSE], Some(e))
        left == IF Cards(s).room < RecentRoom THEN Cards(s).room ELSE RecentRoom
    IN FoldLeft(Element, [room |-> left, told |-> {}, lines |-> <<>>, full |-> FALSE], Cards(s).in)

BudgetFacts == Fill(InOrder(facts), FactRoom, Notes)

-----------------------------------------------------------------------------
(* The ledger. Entry [kind, about, as, at, due, to, reach, pinned, cost]: 0 is *)
(* no scene, and kind "fact" one that says what its subject is as to something;*)
(* what a person knows piles up, of the rest the latest holds.                 *)
Lines == [e \in Range(open) |-> e.cost]
Standing == SelectSeq(open, LAMBDA e : e \notin over)
After(e, s) == e.at > s
HoldsAt(e, s) == e.kind = "fact" /\ ~After(e, s) /\ ~(e.to # 0 /\ e.to <= s)

Current(s) ==
    LET true == SelectSeq(Standing, LAMBDA e : HoldsAt(e, s))
        Rivals(j) == {k \in DOMAIN true : true[k].about = true[j].about /\ true[k].as = true[j].as}
        Latest(j) == \A k \in Rivals(j) : true[k].at < true[j].at \/ (true[k].at = true[j].at /\ k <= j)
    IN {true[i] : i \in {j \in DOMAIN true : true[j].as = "knows" \/ Latest(j)}}

(* One line for each subject, with all of its values.                          *)
Values(s) == {e \in Current(s) : ~e.pinned}
Subjects(s) == {e.about : e \in Values(s)}
StateLine(s) == [x \in Subjects(s) |-> FoldSet(LAMBDA e, sum : sum + e.cost, 0, {e \in Values(s) : e.about = x})]
State(s) == Fill(InOrder(Subjects(s)), StateRoom, StateLine(s))

Due(e, s) == e.due # 0 /\ e.due <= s + DueHorizon
InReach(e, s) ==
    e.reach = "work" \/ e.at = 0 \/ (IF e.reach = "volume" THEN Part[e.at] = Part[s] ELSE Arc[e.at] = Arc[s])

Shown(s) == SelectSeq(Standing, LAMBDA e : ~After(e, s) /\ e.kind # "cut_plan")
Pinned(s) == Fill(SelectSeq(Shown(s), LAMBDA e : e.pinned), PinnedRoom, Lines)

(* What is owed goes first, with what is due at its head; then what is         *)
(* settled, with what that left; then what was left out of the former again.   *)
Tracked(s) == SelectSeq(Shown(s), LAMBDA e : ~e.pinned /\ e.kind = "promise")
Settled(s) == SelectSeq(Shown(s), LAMBDA e : ~e.pinned /\ e.kind \notin {"promise", "fact"})
Owing(s) == SelectSeq(Tracked(s), LAMBDA e : Due(e, s)) \o
            SelectSeq(Tracked(s), LAMBDA e : ~Due(e, s) /\ InReach(e, s))

OneRoom(s) ==
    LET owed == Fill(Owing(s), OwedRoom + SettledRoom, Lines)
    IN [owed |-> owed, settled |-> Fill(Settled(s), owed.room, Lines), again |-> Fill(owed.out, 0, Lines)]

ContextLedger(s) ==
    LET owed == Fill(Owing(s), OwedRoom, Lines)
        settled == Fill(Reverse(Settled(s)), owed.room + SettledRoom, Lines)
    IN [owed |-> owed, settled |-> settled, again |-> Fill(owed.out, settled.room, Lines)]

Omitted(s) ==
    Len(State(s).out) + Len(Pinned(s).out) + (Len(Tracked(s)) - Len(Owing(s)))
    + Len(ContextLedger(s).settled.out) + Len(ContextLedger(s).again.out)

-----------------------------------------------------------------------------
(* The whole, and what may go from its back.                                   *)
BuildFull(s) ==
    [facts |-> BudgetFacts.in, related |-> Related(s), cards |-> Cards(s).in, dossier |-> Dossier(s).lines,
     stays |-> Runes(Nearby(s), SceneLine)]

Length(b) ==
    b.stays + Runes(b.facts, Notes) + Len(b.related) * (Label + Summary)
    + Runes(b.cards, Card) + Runes(b.dossier, [l \in Range(b.dossier) |-> IF l[3] THEN Label + Summary ELSE Label])

(* Facts go first, then scenes like it, then the dossier, then card by card.   *)
Cuts == <<"facts", "related", "dossier">> \o [e \in 1 .. Cardinality(Elements) |-> "cards"]

Cut(kept, section) ==
    IF Length(kept.brief) <= BriefRoom THEN kept
    ELSE [brief |-> [kept.brief EXCEPT ![section] = IF section = "cards" THEN SubSeq(@, 1, Len(@) - 1) ELSE <<>>],
          omitted |-> kept.omitted \cup (IF section = "dossier" THEN {"cards", "dossier"} ELSE {section})]

FitBrief(b) == FoldLeft(Cut, [brief |-> b, omitted |-> {}], Cuts)

(* What the tool answers: the elements left out are named apart, from the      *)
(* brief before the cut.                                                       *)
Unlisted(s) == Elements \ Range(Cards(s).in)

ContextBrief(s) ==
    [scene |-> s, nearby |-> Nearby(s), full |-> BuildFull(s), fit |-> FitBrief(BuildFull(s)), others |-> Unlisted(s),
     ledger |-> ContextLedger(s), state |-> State(s), pinned |-> Pinned(s), omitted |-> Omitted(s)]

Briefs == {ContextBrief(s) : s \in Scenes}

-----------------------------------------------------------------------------
Init ==
    /\ \E begun \in {{}, Scenes} : written = begun /\ told = begun
    /\ planned = {}
    /\ \E e \in {0, 1} : cast = [s \in Scenes |-> {e} \cap Elements]
    /\ facts = {} /\ open = <<>> /\ over = {} /\ edits = 0

Change == edits < MaxEdits /\ edits' = edits + 1

Write(s) ==
    /\ Change
    /\ written' = written \cup {s}
    /\ \E found \in SUBSET Elements : cast' = [cast EXCEPT ![s] = found]
    /\ UNCHANGED <<planned, told, facts, open, over>>

Outline(s) ==
    /\ Change
    /\ \/ planned' = planned \cup {s} /\ UNCHANGED told
       \/ told' = told \cup {s} /\ UNCHANGED planned
    /\ UNCHANGED <<written, cast, facts, open, over>>

Look == Change /\ \E k \in DOMAIN Notes : facts' = facts \cup {k} /\ UNCHANGED <<written, planned, told, cast, open, over>>

Add(e) ==
    /\ Change
    /\ e \notin Range(open)
    /\ open' = Append(open, e)
    /\ over' \in {over} \cup {over \cup {f} : f \in {g \in Range(open) \ over : e.kind = "fact" /\ g.kind = "fact" /\ g.about = e.about /\ g.as = e.as}}
    /\ UNCHANGED <<written, planned, told, cast, facts>>

(* A promise paid or dropped is no longer open.                                *)
Pay(e) ==
    /\ Change
    /\ e \in Range(open) /\ e.kind = "promise"
    /\ open' = SelectSeq(open, LAMBDA f : f # e)
    /\ UNCHANGED <<written, planned, told, cast, facts, over>>

Next ==
    \/ \E s \in Scenes : Write(s) \/ Outline(s)
    \/ Look
    \/ \E e \in Entries : Add(e) \/ Pay(e)

Spec == Init /\ [][Next]_vars

-----------------------------------------------------------------------------
Entered(b) == UNION {Range(f.in) : f \in {b.ledger.owed, b.ledger.settled, b.ledger.again, b.pinned}}
Stated(b) == {e \in Values(b.scene) : e.about \in Range(b.state.in)}

(* A brief reads no further than its scene, but for what is next to it: of     *)
(* later scenes it has the one that follows, as far as that is told or begun,  *)
(* and unwritten ones. It has nothing the ledger only learns later, and of     *)
(* each thing that changes one value.                                          *)
ReadsNoFurther(b) ==
    /\ \A r \in Range(b.nearby) : r <= b.scene + 1 \/ r \notin written
    /\ \A r \in Range(b.full.related) \cup {l[2] : l \in Range(b.full.dossier)} : r < b.scene
    /\ \A e \in Entered(b) \cup Stated(b) : e.at <= b.scene
    /\ \A e, f \in Stated(b) : e.about = f.about /\ e.as = f.as /\ e.as # "knows" => e = f

(* No scene's summary is in it twice.                                          *)
ToldOnce(b) ==
    LET again == {i \in DOMAIN b.full.dossier : b.full.dossier[i][3]} IN
    /\ Range(b.nearby) \cap Range(b.full.related) = {}
    /\ \A i, j \in again : b.full.dossier[i][2] = b.full.dossier[j][2] => i = j
    /\ \A i \in again : b.full.dossier[i][2] \notin Range(b.nearby) \cup Range(b.full.related)

(* What an agent is not told, it is told of: each element is in the brief, in  *)
(* the list of the others, or its section is named as cut; each fact card,     *)
(* each subject with a value now, and each other entry that is of use at this  *)
(* scene, is there or counted. A subject whose line is left out counts once,   *)
(* however many values it has.                                                 *)
NothingUnsaid(b) ==
    LET ofUse == {e \in Range(Standing) : ~After(e, b.scene) /\ e.kind # "cut_plan" /\ (e.kind = "fact" => e.pinned)}
    IN /\ Elements \subseteq Range(b.fit.brief.cards) \cup b.others \cup {e \in Elements : "cards" \in b.fit.omitted}
       /\ Range(b.full.facts) = Range(b.fit.brief.facts) \/ "facts" \in b.fit.omitted
       /\ Cardinality(facts) = Len(BudgetFacts.in) + Len(BudgetFacts.out)
       /\ Cardinality(ofUse) + Cardinality(Subjects(b.scene)) =
            Cardinality(Entered(b)) + Len(b.state.in) + b.omitted

(* It fits, unless all that may go is gone; what is owed never takes the room  *)
(* of what is settled, nor the other way round.                                *)
FairShares(b) ==
    LET Took(f, g) == Runes(f.in \o g.in, Lines)
    IN /\ Length(b.fit.brief) <= BriefRoom \/ b.fit.brief.facts \o b.fit.brief.related \o b.fit.brief.cards = <<>>
       /\ Took(b.ledger.owed, b.ledger.settled) + Runes(b.ledger.again.in, Lines) <= OwedRoom + SettledRoom
       /\ \A e \in Range(b.ledger.settled.out) : Runes(b.ledger.settled.in, Lines) + e.cost > SettledRoom
       /\ \A e \in Range(b.ledger.owed.out) \ Range(b.ledger.again.in) :
             Took(b.ledger.owed, b.ledger.again) + e.cost > OwedRoom

Sound == \A b \in Briefs : ReadsNoFurther(b) /\ ToldOnce(b) /\ NothingUnsaid(b) /\ FairShares(b)

=============================================================================
