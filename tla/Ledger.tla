------------------------------- MODULE Ledger -------------------------------
(* The ledger of facts of one work (internal/ledger/repo.go, conflict.go), for *)
(* facts about one thing. The writer's window and the agents' turns edit it at *)
(* once: an edit reads a row and writes it back, a pin writes its own column,  *)
(* and a fact that replaces another is added first and recorded on the old one *)
(* after (internal/mcphost/tools_ledger.go). Nothing of this is a transaction. *)
(*                                                                             *)
(* Left out: promises and questions, arcs, and the checks of a row's quotes    *)
(* against the prose.                                                          *)
EXTENDS Naturals, FiniteSets

CONSTANTS
    Windows,     \* callers that are the writer's
    Agents,      \* callers that are agents' turns, or other programs
    Scenes,      \* 1 .. n, the story's order
    Texts,
    MaxRows,     \* bound: rows there ever are
    MaxCalls,    \* bound: calls there ever are
    MaxDeletions \* bound: scenes deleted

Users == Windows \cup Agents
Ids == 1 .. MaxRows         \* in the order of created_at
None == 0                   \* no scene; no superseded_by
Gone == [body |-> "gone"]

VARIABLES
    row,        \* story_ledger
    made,       \* rows ever added
    scenes,     \* that still stand
    call,
    calls,
    held        \* for the properties: rows pinned for as long as the call has run

vars == <<row, made, scenes, call, calls, held>>

Idle == [at |-> "idle"]

Init ==
    /\ row = [i \in Ids |-> Gone] /\ made = 0
    /\ scenes = Scenes /\ calls = 0
    /\ call = [c \in Users |-> Idle]
    /\ held = [c \in Users |-> {}]

There(i) == row[i] # Gone
Standing == {i \in Ids : There(i)}

Step(c, next) == call' = [call EXCEPT ![c] = next]
Ends(c) == Step(c, Idle)

(* A row the writer lets go of, or deletes, is no longer held for anyone.      *)
LetsGo(i) == held' = [c \in Users |-> held[c] \ {i}]

-----------------------------------------------------------------------------
(* A call of a handler or a tool. Only the writer's may pin (ledger.pin has no *)
(* tool), only an agent's may replace.                                         *)
Asks(c, what, i, text, at) ==
    /\ call[c] = Idle /\ calls < MaxCalls
    /\ calls' = calls + 1
    /\ Step(c, [at |-> IF c \in Agents /\ i # None THEN "asked" ELSE "looked",
                what |-> what, id |-> i, body |-> text, scene |-> at])
    /\ held' = [held EXCEPT ![c] = {j \in Standing : row[j].pinned}]
    /\ UNCHANGED <<row, made, scenes>>

NeverBarred(c, i) == FALSE

(* editLedger: an agent is refused what the writer has pinned.                 *)
Barred(c, i) == c \in Agents /\ row[i].pinned

Looks(c) ==
    LET i == call[c].id IN
    /\ call[c].at = "asked"
    /\ IF ~There(i) \/ Barred(c, i) THEN Ends(c)
       ELSE Step(c, [call[c] EXCEPT !.at = "looked"])
    /\ UNCHANGED <<row, made, scenes, calls, held>>

(* Add: the scene it names has to be there (validate).                         *)
Adds(c) ==
    /\ call[c].at = "looked" /\ call[c].what \in {"add", "replace"}
    /\ IF call[c].scene \notin scenes \cup {None} \/ made = MaxRows
       THEN Ends(c) /\ UNCHANGED <<row, made>>
       ELSE /\ made' = made + 1
            /\ row' = [row EXCEPT ![made'] =
                    [body |-> call[c].body, at |-> call[c].scene, to |-> None, pinned |-> FALSE, by |-> None]]
            /\ IF call[c].what = "add" THEN Ends(c)
               ELSE Step(c, [at |-> "added", id |-> call[c].id, new |-> made', scene |-> call[c].scene])
    /\ UNCHANGED <<scenes, calls, held>>

(* Update and Supersede read the row first.                                    *)
Gets(c) ==
    LET i == call[c].id IN
    /\ \/ call[c].at = "looked" /\ call[c].what \in {"edit", "pin", "unpin"}
       \/ call[c].at = "added"
    /\ IF ~There(i) THEN Ends(c)
       ELSE IF call[c].at = "added"
       THEN IF Barred(c, i) THEN Ends(c) ELSE Step(c, [call[c] EXCEPT !.at = "replacing"])
       ELSE IF call[c].what \in {"pin", "unpin"}
       THEN Step(c, [at |-> "pinning", id |-> i, pinned |-> call[c].what = "pin"])
       ELSE Step(c, [at |-> "editing", id |-> i, row |-> [row[i] EXCEPT !.body = call[c].body]])
    /\ UNCHANGED <<row, made, scenes, calls, held>>

AllColumns(old, new) == new

(* What UPDATE sets: not what is pinned, and not what replaced it. A scene it  *)
(* would set that is no longer there fails it whole.                           *)
Columns(old, new) == [new EXCEPT !.pinned = old.pinned, !.by = old.by]

Writes(c) ==
    LET i == call[c].id IN
    /\ call[c].at = "editing"
    /\ row' = IF There(i) /\ {call[c].row.at, call[c].row.to} \subseteq scenes \cup {None}
              THEN [row EXCEPT ![i] = Columns(@, call[c].row)] ELSE row
    /\ Ends(c)
    /\ UNCHANGED <<made, scenes, calls, held>>

Pins(c) ==
    LET i == call[c].id IN
    /\ call[c].at = "pinning"
    /\ row' = IF There(i) THEN [row EXCEPT ![i].pinned = call[c].pinned] ELSE row
    /\ IF call[c].pinned THEN UNCHANGED held ELSE LetsGo(i)
    /\ Ends(c)
    /\ UNCHANGED <<made, scenes, calls>>

(* The old fact ends where the new one starts.                                 *)
Replaces(c) ==
    LET i == call[c].id IN
    /\ call[c].at = "replacing"
    /\ row' = IF ~There(i) \/ call[c].scene \notin scenes \cup {None} THEN row
              ELSE [row EXCEPT ![i].by = call[c].new,
                               ![i].to = IF call[c].scene = None THEN @ ELSE call[c].scene]
    /\ Ends(c)
    /\ UNCHANGED <<made, scenes, calls, held>>

Deletes(c) ==
    LET i == call[c].id IN
    /\ call[c].at = "looked" /\ call[c].what = "delete"
    /\ row' = [row EXCEPT ![i] = Gone]
    /\ LetsGo(i) /\ Ends(c)
    /\ UNCHANGED <<made, scenes, calls>>

(* A scene is deleted: the references to it are set null.                      *)
SceneGone(s) ==
    /\ s \in scenes /\ Cardinality(Scenes \ scenes) < MaxDeletions
    /\ scenes' = scenes \ {s}
    /\ row' = [i \in Ids |->
            IF ~There(i) THEN Gone
            ELSE [row[i] EXCEPT !.at = IF @ = s THEN None ELSE @, !.to = IF @ = s THEN None ELSE @]]
    /\ UNCHANGED <<made, call, calls, held>>

-----------------------------------------------------------------------------
Next ==
    \/ \E s \in Scenes : SceneGone(s)
    \/ \E c \in Users, text \in Texts :
        \/ \E at \in Scenes : Asks(c, "add", None, text, at)
        \/ \E i \in 1 .. made :
            \/ \E what \in {"edit", "delete"} : Asks(c, what, i, text, None)
            \/ c \in Windows /\ \E what \in {"pin", "unpin"} : Asks(c, what, i, text, None)
            \/ c \in Agents /\ \E at \in Scenes \cup {None} : Asks(c, "replace", i, text, at)
    \/ \E c \in Users :
        Looks(c) \/ Adds(c) \/ Gets(c) \/ Writes(c) \/ Pins(c) \/ Replaces(c) \/ Deletes(c)

Spec == Init /\ [][Next]_vars

-----------------------------------------------------------------------------
(* No agent's call changes or removes a fact that was pinned when the call     *)
(* began and has been since, whatever else goes on between its steps. A pin    *)
(* that lands between an agent's look and its write does not hold it.          *)
PinsHold == \A c \in Agents : call'[c] # call[c] => \A i \in held[c] : row'[i] = row[i]

(* A slow edit undoes neither of the two things that are not the edit's: what  *)
(* the writer has pinned meanwhile stays pinned until the writer unpins it,    *)
(* and a fact that was replaced meanwhile does not come back as true.          *)
NotTheEdits ==
    \A i \in Ids : There(i) /\ row'[i] # Gone =>
        /\ row[i].by # None => row'[i].by # None
        /\ row[i].pinned /\ ~row'[i].pinned =>
            \E c \in Windows : call[c].at = "pinning" /\ call[c].id = i

(* A fact is put aside only for one that was recorded after it, so no chain of *)
(* replacements comes round to itself and leaves nothing true.                 *)
PutAsideForLater == \A i \in Standing : row[i].by # None => row[i].by \in i + 1 .. made

Facts == []PutAsideForLater /\ [][PinsHold /\ NotTheEdits]_vars

=============================================================================
