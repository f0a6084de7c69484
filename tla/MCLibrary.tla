----------------------------- MODULE MCLibrary -----------------------------
(* What leaves a work or a device, each on a small instance: the library item  *)
(* that carries the profile and the skills between devices (LibraryItem), the  *)
(* bundle of a work (WorkCopy), the brief of a scene (Brief), an export that   *)
(* is read again (Transfer), and the text in it (Markdown). They share no      *)
(* state: a behaviour is of one of them, which `part` names; v1, v2, ... are   *)
(* the variables of the last four in the order their modules declare them.     *)
EXTENDS MCItem, Sequences, FiniteSets, TLC

CONSTANTS d1, d2, profile, skill, x, y, z

MCStamp == <<1, 2>>
MCStart == (profile :> 1) @@ (skill :> 0)
MCChoices == {{}, {skill, "work"}}

VARIABLES part, v1, v2, v3, v4, v5, v6, v7, v8, v9, v10

others == <<v1, v2, v3, v4, v5, v6, v7, v8, v9, v10>>
itemOwn == <<files, selection, base, op, head, revision, work, spent, told>>
everything == <<itemOwn, part, others>>

Copied == INSTANCE WorkCopy WITH
    Devices <- {"d", "e"}, Numbers <- {1, 2}, Names <- {x, y, z}, MaxEdits <- 2, MaxCopies <- 1,
    lib <- v1, head <- v2, seen <- v3, omit <- v4, edits <- v5, copies <- v6, refused <- v7

Fact == [kind |-> "fact", about |-> 1, as |-> "place", at |-> 0, due |-> 0, to |-> 0, reach |-> "work", pinned |-> FALSE, cost |-> 1]
SomeEntries ==
    {[Fact EXCEPT !.at = a, !.to = t] : a \in {0, 2}, t \in {0, 3}}
    \cup {[Fact EXCEPT !.about = 2, !.cost = 2], [Fact EXCEPT !.pinned = TRUE, !.cost = 2]}
    \cup {[Fact EXCEPT !.as = "knows", !.at = a, !.cost = 2] : a \in {0, 2}} \cup {[Fact EXCEPT !.kind = "cut_plan"]}
    \cup {[Fact EXCEPT !.kind = "promise", !.at = 1, !.due = u, !.reach = h, !.cost = 2] : u \in {0, 3}, h \in {"work", "arc"}}
    \cup {[Fact EXCEPT !.kind = "decision", !.at = a, !.cost = c] : a \in {1, 3}, c \in {1, 2}}

Context == INSTANCE Brief WITH
    Scenes <- 1 .. 4, Part <- <<1, 1, 2, 2>>, Arc <- <<1, 1, 2, 2>>, Elements <- 1 .. 3, Core <- 1 .. 3,
    CoreLimit <- 1, CoreCandidates <- 2, CoreScenes <- 2, Card <- <<1, 2, 2>>, Notes <- <<1, 2, 2>>, Entries <- SomeEntries,
    NearbyRoom <- 5, CardRoom <- 5, RecentRoom <- 3, RecentLimit <- 2, FactRoom <- 3, PinnedRoom <- 2, StateRoom <- 2,
    OwedRoom <- 1, SettledRoom <- 2, BriefRoom <- 9, DueHorizon <- 1, UpcomingPlans <- 2,
    RelatedLimit <- 2, Whole <- 12, MaxEdits <- 2,
    written <- v1, planned <- v2, told <- v3, cast <- v4, facts <- v5, open <- v6, over <- v7, edits <- v8

Ada == [id |-> 1, name |-> 1]
Bo == [id |-> 2, name |-> 1]
Tie(a, b, n) == [from |-> a, to |-> b, pair |-> n]
Mutual == {Tie(1, 2, 1), Tie(2, 1, 1)}

Exported == INSTANCE Transfer WITH
    Labels <- {"part", "cast", "scene 1"}, Synth <- "scene 1", Cast <- "cast", Inner <- "inner",
    InnerLevels <- {2, 3}, MaxNodes <- 3, MaxDepth <- 2, People <- <<Ada, Bo>>,
    Ties <- {{}, Mutual, {Tie(1, 2, 0)}},
    stage <- v1, work <- v2, ties <- v3, file <- v4, read <- v5, rows <- v6, tied <- v7,
    cursor <- v8, at <- v9, home <- v10

Text == INSTANCE Markdown WITH
    TextLines <- {"w", "-", "#"}, CodeLines <- {"c", "", "#", "fence"},
    Marks <- <<"link", "bold", "italic", "strike">>,
    stage <- v1, doc <- v2, lines <- v3, scene <- v4, closed <- v5, runs <- v6, tokens <- v7, spans <- v8

-----------------------------------------------------------------------------
(* Bounds: the item sees two edits and a stop, or a choice and one of these;    *)
(* and works of three nodes have one set of ties, as no step looks at both, and *)
(* one scene with a heading in it.                                              *)
Bounds ==
    /\ spent.edits + 2 * spent.choices + spent.faults <= 3
    /\ part = "export" /\ Len(v2) = 3 =>
          v3 = Mutual /\ Cardinality({i \in 1 .. 3 : Len(v2[i].body) = 3}) <= 1

Begins ==
    /\ Item!Init
    /\ \/ part = "item" /\ v1 = "off" /\ v2 = "off" /\ v3 = "off" /\ v4 = "off" /\ v5 = "off" /\ v6 = "off" /\ v7 = "off"
          /\ v8 = "off" /\ v9 = "off" /\ v10 = "off"
       \/ part = "bundle" /\ Copied!Init /\ v8 = "off" /\ v9 = "off" /\ v10 = "off"
       \/ part = "brief" /\ Context!Init /\ v9 = "off" /\ v10 = "off"
       \/ part = "export" /\ Exported!Init
       \/ part = "text" /\ Text!Init /\ v9 = "off" /\ v10 = "off"

Of(name, A) == part = name /\ A /\ UNCHANGED <<part, itemOwn>>

Moves ==
    \/ part = "item" /\ Item!Next /\ UNCHANGED <<part, others>>
    \/ Of("bundle", Copied!Next) /\ UNCHANGED <<v8, v9, v10>>
    \/ Of("brief", Context!Next) /\ UNCHANGED <<v9, v10>>
    \/ Of("export", Exported!Next)
    \/ Of("text", Text!Next) /\ UNCHANGED <<v9, v10>>

(* The fairness of LibraryItem!FairSpec, in its own behaviours.                *)
Fair == \A d \in Devices : /\ WF_itemOwn(part = "item" /\ Item!Look(d, TRUE))
                           /\ WF_itemOwn(part = "item" /\ Item!Step(d))

Together == Begins /\ [][Moves]_everything /\ Fair

(* A bundle lands on every device that has not changed, whole and without what *)
(* is the device's own (WorkCopy).                                             *)
Travels ==
    /\ []((part = "bundle") => Copied!Lands /\ Copied!Closed)
    /\ [][part = "bundle" => Copied!Exact /\ Copied!OwnStays]_everything

(* What a scene's brief says: of later scenes what is next to it alone, nothing *)
(* twice, nothing that is of use left out uncounted or unnamed, and no section  *)
(* at another's expense (Brief).                                                *)
BriefSound == part = "brief" => Context!Sound

(* A work comes back from its own export: scenes, notes and ties (Transfer),   *)
(* blocks and marks (Markdown).                                                *)
ComesBack ==
    /\ part = "export" => Exported!Returns
    /\ part = "text" => Text!ReadsAsWritten
=============================================================================
