------------------------------ MODULE Forecasts ------------------------------
(* Forecasts (internal/forecast, mcphost/tools_forecast.go, handlers/forecast.go): *)
(* an agent saves branches drawn from the canon, with a hash of each group of  *)
(* it; a list compares the hashes with the canon of now, and the writer        *)
(* chooses one branch of a work, or deletes a forecast, by ids a window may    *)
(* have kept from another work. The canon is edited while any of them runs.    *)
(*                                                                             *)
(* The groups that are one hash are one value here, and those that keep a hash *)
(* for each row one set of rows; a hash is what it is taken of. A work has no  *)
(* more than the hundred facts one reading takes.                              *)
EXTENDS Naturals

CONSTANTS
    Works,
    Rows,         \* ids of elements, facts, relationships and episodes
    Values,
    Callers,
    MaxForecasts, \* bound: forecasts there ever are
    MaxEdits      \* bound: changes of a canon

Ids == 1 .. MaxForecasts
Branches == {1, 2}
None == 0
Gone == [work |-> None]

VARIABLES
    canon,        \* of each work: its plain groups, and its rows
    forecast,     \* forecasts
    made,
    call,
    edits

vars == <<canon, forecast, made, call, edits>>

Idle == [at |-> "idle"]
NoRow == 0
CONSTANT First    \* the value of a row there is from the start

Init ==
    /\ canon = [w \in Works |-> [plain |-> First, rows |-> [r \in Rows |-> IF r = 1 THEN First ELSE NoRow]]]
    /\ forecast = [i \in Ids |-> Gone] /\ made = 0 /\ edits = 0
    /\ call = [c \in Callers |-> Idle]

Step(c, next) == call' = [call EXCEPT ![c] = next]
Ends(c) == Step(c, Idle)
There(i) == forecast[i] # Gone

(* A call that reads the canon of w is one an edit of it overtakes.            *)
Overtaken(w) ==
    call' = [c \in Callers |->
        IF call[c].at \in {"drawn", "half", "read"} /\ call[c].work = w
        THEN [call[c] EXCEPT !.still = FALSE]
        ELSE IF call[c].at = "listed" /\ call[c].work = w THEN Idle ELSE call[c]]

EditsPlain(w, v) ==
    /\ edits < MaxEdits /\ edits' = edits + 1
    /\ canon' = [canon EXCEPT ![w].plain = v]
    /\ Overtaken(w)
    /\ UNCHANGED <<forecast, made>>

EditsRow(w, r, v) ==
    /\ edits < MaxEdits /\ edits' = edits + 1
    /\ canon' = [canon EXCEPT ![w].rows[r] = v]
    /\ Overtaken(w)
    /\ UNCHANGED <<forecast, made>>

-----------------------------------------------------------------------------
(* Save: every element a branch names is of this work; one problem stores      *)
(* nothing.                                                                    *)
Validate(w, names) == \A r \in names : canon[w].rows[r] # NoRow

Asks(c, what, w, listed) ==
    Step(c, [at |-> "drawn", what |-> what, work |-> w, listed |-> listed, still |-> TRUE,
             plain |-> NoRow, rows |-> [r \in Rows |-> NoRow]])

SaveForecast(c, w, names) ==
    /\ call[c] = Idle /\ Validate(w, names)
    /\ Asks(c, "save", w, {})
    /\ UNCHANGED <<canon, forecast, made, edits>>

(* Inputs reads one group after another.                                       *)
Inputs(c) ==
    /\ \/ /\ call[c].at = "drawn"
          /\ Step(c, [call[c] EXCEPT !.at = "half", !.plain = canon[call[c].work].plain])
       \/ /\ call[c].at = "half"
          /\ Step(c, [call[c] EXCEPT !.at = "read", !.rows = canon[call[c].work].rows])
    /\ UNCHANGED <<canon, forecast, made, edits>>

Insert(c) ==
    /\ call[c].at = "read" /\ call[c].what = "save" /\ made < MaxForecasts
    /\ made' = made + 1
    /\ forecast' = [forecast EXCEPT ![made'] =
            [work |-> call[c].work, plain |-> call[c].plain, rows |-> call[c].rows,
             chosen |-> None, true |-> call[c].still]]
    /\ Ends(c)
    /\ UNCHANGED <<canon, edits>>

-----------------------------------------------------------------------------
OldRows(old, now) == {r \in Rows : old[r] # NoRow /\ now[r] # old[r]}
(* Rows that were added, and rows that went, have changed too.                 *)
ChangedRowIDs(old, now) ==
    {r \in Rows : old[r] # NoRow /\ now[r] # old[r]} \cup {r \in Rows : now[r] # NoRow /\ now[r] # old[r]}

Diff(f, plain, rows) == f.plain # plain \/ ChangedRowIDs(f.rows, rows) # {}

(* List takes the rows first, and the canon of now after.                      *)
ListForecasts(c, w) ==
    /\ call[c] = Idle
    /\ Asks(c, "list", w, {i \in Ids : forecast[i].work = w})
    /\ UNCHANGED <<canon, forecast, made, edits>>

Listed(c) ==
    /\ call[c].at = "read" /\ call[c].what = "list"
    /\ IF call[c].still
       THEN Step(c, [at |-> "listed", work |-> call[c].work, stale |->
                {i \in call[c].listed : There(i) /\ Diff(forecast[i], call[c].plain, call[c].rows)}])
       ELSE Ends(c)
    /\ UNCHANGED <<canon, forecast, made, edits>>

Answered(c) ==
    /\ call[c].at = "listed" /\ Ends(c)
    /\ UNCHANGED <<canon, forecast, made, edits>>

-----------------------------------------------------------------------------
AnyWork(w, i) == TRUE
(* The id has to be of the work the window is in.                              *)
OfThisWork(w, i) == forecast[i].work = w

SelectForecast(c, w, i, b) ==
    /\ call[c] = Idle /\ There(i) /\ OfThisWork(w, i)
    /\ Step(c, [at |-> "choosing", work |-> forecast[i].work, id |-> i, branch |-> b])
    /\ UNCHANGED <<canon, forecast, made, edits>>

OnlyThis(f, w) == f
(* One selection in a work.                                                    *)
Unchosen(f, w) == IF f.work = w THEN [f EXCEPT !.chosen = None] ELSE f

(* One transaction; a forecast deleted since it was looked at is not chosen.   *)
Select(c) ==
    LET i == call[c].id IN
    /\ call[c].at = "choosing"
    /\ forecast' = [j \in Ids |-> IF j = i /\ There(i) THEN [forecast[i] EXCEPT !.chosen = call[c].branch]
                                  ELSE Unchosen(forecast[j], call[c].work)]
    /\ Ends(c)
    /\ UNCHANGED <<canon, made, edits>>

ClearSelection(w) ==
    /\ \E i \in Ids : OfThisWork(w, i) /\ forecast[i].chosen # None
    /\ forecast' = [i \in Ids |-> Unchosen(forecast[i], w)]
    /\ UNCHANGED <<canon, made, call, edits>>

Delete(w, i) ==
    /\ There(i) /\ OfThisWork(w, i)
    /\ forecast' = [forecast EXCEPT ![i] = Gone]
    /\ UNCHANGED <<canon, made, call, edits>>

-----------------------------------------------------------------------------
Next ==
    \/ \E w \in Works, v \in Values : EditsPlain(w, v)
    \/ \E w \in Works, r \in Rows, v \in Values \cup {NoRow} : EditsRow(w, r, v)
    \/ \E w \in Works, i \in Ids : Delete(w, i)
    \/ \E w \in Works : ClearSelection(w)
    \/ \E c \in Callers :
        \/ \E w \in Works, names \in SUBSET Rows : SaveForecast(c, w, names)
        \/ Inputs(c)
        \/ Insert(c)
        \/ \E w \in Works : ListForecasts(c, w)
        \/ Listed(c)
        \/ Answered(c)
        \/ \E w \in Works, i \in Ids, b \in Branches : SelectForecast(c, w, i, b)
        \/ Select(c)

Spec == Init /\ [][Next]_vars

-----------------------------------------------------------------------------
(* Where no edit came between, a list calls a forecast stale just when the     *)
(* canon is not the one it was saved with: a row added or gone counts, and     *)
(* what was changed and changed back does not.                                 *)
StaleIsTrue ==
    \A c \in Callers : call[c].at = "listed" =>
        \A i \in Ids : (There(i) /\ forecast[i].work = call[c].work /\ forecast[i].true) =>
            LET now == canon[call[c].work] IN
            i \in call[c].stale <=> [plain |-> forecast[i].plain, rows |-> forecast[i].rows] # now

(* A work has one chosen branch at most, whichever windows chose at once.      *)
OneChosen ==
    \A i, j \in Ids : (There(i) /\ There(j) /\ forecast[i].work = forecast[j].work
        /\ forecast[i].chosen # None /\ forecast[j].chosen # None) => i = j

Told == StaleIsTrue /\ OneChosen
=============================================================================
