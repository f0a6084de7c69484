----------------------------- MODULE Continuity -----------------------------
(* Continuity checks of one work (internal/continuity, with the tools of       *)
(* mcphost/tools_continuity.go and the handlers of rpc/handlers/continuity.go). *)
(* An agent reads a scene and reports what clashes with the record; the engine *)
(* tests the report against the scene it loads, then stores it. The writer     *)
(* edits scenes and settles observations meanwhile.                            *)
(*                                                                             *)
(* A scene's text is the set of sentences in it. Left out: what else an        *)
(* observation refers to, paragraph numbers, lengths and wording, deleted      *)
(* scenes, and a pull, which brings versions of its own.                       *)
EXTENDS Naturals, FiniteSets

CONSTANTS
    Scenes,
    Sentences,
    Callers,      \* handlers and tools under way at once
    MaxEdits,     \* bound: edits of the prose
    MaxChecks,    \* bound: reports recorded
    MaxFound      \* bound: observations in one report

VARIABLES
    scene,        \* nodes: the version and the sentences of each
    checks,       \* continuity_checks, by number
    made,         \* of them ever
    obs,          \* continuity_observations of each check
    call,
    edits

vars == <<scene, checks, made, obs, call, edits>>

Numbers == 1 .. MaxChecks
NoCheck == [scene |-> 0]
NoObs == [status |-> "none"]
Idle == [at |-> "idle"]
Settled == {"dismissed", "resolved"}

Init ==
    /\ scene = [s \in Scenes |-> [version |-> 1, says |-> Sentences]]
    /\ edits = 0
    /\ checks = [k \in Numbers |-> NoCheck]
    /\ obs = [k \in Numbers |-> [j \in 1 .. MaxFound |-> NoObs]]
    /\ call = [c \in Callers |-> Idle]
    /\ made = 0

Step(c, next) == call' = [call EXCEPT ![c] = next]
Ends(c) == Step(c, Idle)
Found(k) == {j \in 1 .. MaxFound : obs[k][j] # NoObs}
Status(o) == obs[o[1]][o[2]].status
There(o) == Status(o) # "none"

Edits(s, says) ==
    /\ edits < MaxEdits /\ edits' = edits + 1
    /\ says # scene[s].says
    /\ scene' = [scene EXCEPT ![s] = [version |-> @.version + 1, says |-> says]]
    /\ UNCHANGED <<checks, made, obs, call>>

-----------------------------------------------------------------------------
(* linetta_report_continuity.                                                  *)
Reads(c, s) ==
    /\ call[c] = Idle
    /\ Step(c, [at |-> "read", scene |-> s, version |-> scene[s].version])
    /\ UNCHANGED <<scene, checks, made, obs, edits>>

(* Validate: the quote is in the text it is said to be in.                     *)
Validate(quote, s) == quote \in scene[s].says

CurrentVersion(c) == call[c].version = scene[call[c].scene].version

(* The scene is loaded once, and the version read and every finding are held   *)
(* against it; one problem refuses the whole report.                           *)
Tests(c, findings) ==
    LET s == call[c].scene IN
    /\ call[c].at = "read"
    /\ IF CurrentVersion(c) /\ \A f \in findings : Validate(f, s)
       THEN Step(c, [at |-> "tested", scene |-> s, version |-> call[c].version, findings |-> findings])
       ELSE Ends(c)
    /\ UNCHANGED <<scene, checks, made, obs, edits>>

AllReplaced(o) == There(o)
(* What a new check takes the place of: what is still open.                    *)
Superseded(o) == Status(o) = "open"

VersionNow(c) == scene[call[c].scene].version
VersionTested(c) == call[c].version

(* Record: one transaction.                                                    *)
Records(c) ==
    LET s == call[c].scene
        found == call[c].findings IN
    /\ call[c].at = "tested" /\ made < MaxChecks
    /\ made' = made + 1
    /\ checks' = [checks EXCEPT ![made'] =
            [scene |-> s, version |-> VersionTested(c), found |-> Cardinality(found)]]
    /\ \E place \in [found -> 1 .. MaxFound] :
        /\ \A f, g \in found : f # g => place[f] # place[g]
        /\ obs' = [k \in Numbers |-> [j \in 1 .. MaxFound |->
              IF k = made'
              THEN IF \E f \in found : place[f] = j
                   THEN [status |-> "open", quote |-> CHOOSE f \in found : place[f] = j] ELSE NoObs
              ELSE IF checks[k].scene = s /\ Superseded(<<k, j>>)
                   THEN [obs[k][j] EXCEPT !.status = "replaced"] ELSE obs[k][j]]]
    /\ Ends(c)
    /\ UNCHANGED <<scene, edits>>

-----------------------------------------------------------------------------
Set(chosen, status) ==
    obs' = [k \in Numbers |-> [j \in 1 .. MaxFound |->
        IF <<k, j>> \in chosen THEN [obs[k][j] EXCEPT !.status = status] ELSE obs[k][j]]]

(* continuity.set_status, continuity.delete: the writer's, of one observation. *)
Looks(c, o, what) ==
    /\ call[c] = Idle /\ There(o) /\ Status(o) # "replaced"
    /\ Step(c, [at |-> "looked", id |-> o, what |-> what])
    /\ UNCHANGED <<scene, checks, made, obs, edits>>

AnyThere(o) == There(o)
(* The statement tests it again: a check may have replaced it meanwhile.       *)
Movable(o) == There(o) /\ Status(o) # "replaced"

SetStatus(c) ==
    /\ call[c].at = "looked" /\ call[c].what # "delete"
    /\ Set({o \in {call[c].id} : Movable(o)}, call[c].what)
    /\ Ends(c)
    /\ UNCHANGED <<scene, checks, made, edits>>

ChecksStay(left) == checks
(* A check all of whose observations went goes with them.                      *)
EmptiedGo(left) ==
    [k \in Numbers |-> IF left[k] # obs[k] /\ \A j \in 1 .. MaxFound : left[k][j] = NoObs
                       THEN NoCheck ELSE checks[k]]

DeleteMany(chosen) ==
    LET left == [k \in Numbers |-> [j \in 1 .. MaxFound |->
                    IF <<k, j>> \in chosen /\ Movable(<<k, j>>) THEN NoObs ELSE obs[k][j]]]
    IN obs' = left /\ checks' = EmptiedGo(left)

Delete(c) ==
    /\ call[c].at = "looked" /\ call[c].what = "delete"
    /\ DeleteMany({call[c].id})
    /\ Ends(c)
    /\ UNCHANGED <<scene, made, edits>>

(* linetta_update_continuity, of a whole check: dismiss and resolve take its   *)
(* open observations, reopen its settled ones. One transaction.                *)
SelectObservations(k, what) ==
    {o \in {k} \X (1 .. MaxFound) :
        CASE what = "delete" -> Movable(o)
          [] what = "open"   -> Status(o) \in Settled
          [] OTHER           -> Status(o) = "open"}

UpdateContinuity(k, what) ==
    /\ SelectObservations(k, what) # {}
    /\ IF what = "delete" THEN DeleteMany(SelectObservations(k, what))
       ELSE Set(SelectObservations(k, what), what) /\ UNCHANGED checks
    /\ UNCHANGED <<scene, made, call, edits>>

-----------------------------------------------------------------------------
(* The list shows a check as stale once the scene's version moved on.          *)
Stale(k) == checks[k].version # scene[checks[k].scene].version

Decisions == {"dismissed", "resolved", "open"}

Next ==
    \/ \E s \in Scenes, says \in SUBSET Sentences : Edits(s, says)
    \/ \E c \in Callers :
        \/ \E s \in Scenes : Reads(c, s)
        \/ \E found \in SUBSET Sentences :
              Cardinality(found) <= MaxFound /\ Tests(c, found)
        \/ Records(c)
        \/ \E o \in Numbers \X (1 .. MaxFound), what \in Decisions \cup {"delete"} : Looks(c, o, what)
        \/ SetStatus(c)
        \/ Delete(c)
    \/ \E k \in Numbers, what \in Decisions \cup {"delete"} : UpdateContinuity(k, what)

Spec == Init /\ [][Next]_vars

-----------------------------------------------------------------------------
(* An observation whose check is not shown as stale quotes what is in the      *)
(* scene now, however long the report was under way.                           *)
QuotesStand ==
    \A k \in Numbers : (checks[k] # NoCheck /\ ~Stale(k))
        => \A j \in Found(k) : obs[k][j].quote \in scene[checks[k].scene].says

(* A check with nothing under it found nothing: it is not what is left after   *)
(* its observations were deleted.                                              *)
CleanWasClean == \A k \in Numbers : (checks[k] # NoCheck /\ Found(k) = {}) => checks[k].found = 0

Sound == QuotesStand /\ CleanWasClean

(* What the writer settled stays as it is when checks of the scene are made    *)
(* again, and what a later check replaced is not brought back, settled or      *)
(* deleted by a decision that was under way.                                   *)
DecisionsStand ==
    \A o \in Numbers \X (1 .. MaxFound) :
        (Status(o) = "replaced" \/ (Status(o) \in Settled /\ made' # made))
            => obs'[o[1]][o[2]] = obs[o[1]][o[2]]

DecidedStays == [][DecisionsStand]_vars
=============================================================================
