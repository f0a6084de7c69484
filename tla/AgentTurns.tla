----------------------------- MODULE AgentTurns -----------------------------
(* The built-in agent (internal/agent): turns that run on their own goroutine  *)
(* after agent.run has answered, the passes that follow them unattended, the   *)
(* tool session they share, the writer's stop, and Close.                      *)
(*                                                                             *)
(* Four pieces of bookkeeping hold this together, under three locks: the run   *)
(* registry (who holds a work, whose context can be cancelled), the wait group *)
(* Close waits on, the cached tool session, and each session's own reference   *)
(* count. One action is one critical section or one step between two of them.  *)
(*                                                                             *)
(* Left out: what a message, a tool or a reply says; the history window. A     *)
(* turn on a command-line provider runs its own tool loop: its Chat is taken   *)
(* not to return while one of its calls is still out.                          *)
EXTENDS Naturals, FiniteSets

CONSTANTS
    Turns,          \* the agent.run calls of one run of the engine
    Samples,        \* calls of StartSampleCheck: passes with no turn before them
    CommandLine,    \* the turns whose provider runs its own tool loop
    Reviewed,       \* the turns that did enough to be followed by passes
    Works,
    WorkOf,         \* which work each caller is about
    Budgets,        \* what the writer's tool switches can say
    Budget,         \* what they say when each caller reads them, which it does once
    MaxCallers,     \* bound: callers there ever are
    MaxCalls,       \* Deps.MaxToolCalls: tool calls in one turn
    None

Callers == Turns \cup Samples
Passes == Callers \X {"self", "after"}
Jobs == Callers \cup Passes

ASSUME Sets ==
    /\ CommandLine \subseteq Turns /\ Reviewed \subseteq Turns
    /\ WorkOf \in [Callers -> Works] /\ Budget \in [Callers -> Budgets]
    /\ MaxCallers \in Nat /\ MaxCalls \in Nat \ {0}
    /\ None \notin Callers \cup Budgets /\ Turns \cap Samples = {}
    /\ Callers \cap Passes = {}

VARIABLES
    closed,         \* Service.closed
    tools,          \* Service.tools: the cached session, named by who built it
    session,        \* toolSession: what it was built for, references, fate
    byProject,      \* runRegistry.byProject
    cancels,        \* runRegistry.cancels
    stopped,        \* the jobs whose context has been cancelled
    wg,             \* Service.wg: the jobs that entered and have not left
    pc,             \* where each job is
    holds,          \* the session each job has a reference to
    calls,          \* tool calls each turn has run
    closing         \* how far Close has come, and the session it took

registry == <<byProject, cancels>>
vars == <<closed, tools, session, registry, stopped, wg, pc, holds, calls, closing>>

-----------------------------------------------------------------------------
(* The tool session.                                                           *)

Unmade == [groups |-> None, refs |-> 0, retired |-> FALSE, closed |-> FALSE]

Acquired(s) == [s EXCEPT !.refs = @ + 1]

ReleasedOnly(s) == [s EXCEPT !.refs = IF @ = 0 THEN 0 ELSE @ - 1]

(* The last holder of a retired session closes it; an extra release is an      *)
(* error and leaves the count at zero.                                         *)
Released(s) ==
    IF s.refs = 0 THEN s
    ELSE [s EXCEPT !.refs = @ - 1, !.closed = @ \/ (s.retired /\ s.refs = 1)]

RetiredAtOnce(s) == [s EXCEPT !.retired = TRUE, !.closed = TRUE]

Retired(s) == [s EXCEPT !.retired = TRUE, !.closed = @ \/ s.refs = 0]

-----------------------------------------------------------------------------
Init ==
    /\ closed = FALSE /\ tools = None
    /\ session = [c \in Callers |-> Unmade]
    /\ byProject = [w \in Works |-> None] /\ cancels = {} /\ stopped = {}
    /\ wg = {}
    /\ pc = [j \in Jobs |-> "idle"]
    /\ holds = [j \in Jobs |-> None]
    /\ calls = [t \in Turns |-> 0]
    /\ closing = [at |-> "open", tools |-> None]

Goes(j, from, to) == pc[j] = from /\ pc' = [pc EXCEPT ![j] = to]

(* releaseSession: a job gives its reference back.                              *)
LetsGo(j) ==
    /\ session' = [session EXCEPT ![holds[j]] = Released(@)]
    /\ holds' = [holds EXCEPT ![j] = None]

(* A sample check is refused while a turn holds the work, and only then.       *)
Check(c) ==
    /\ Goes(c, "idle", IF byProject[WorkOf[c]] = None THEN "checked" ELSE "over")
    /\ UNCHANGED <<closed, tools, session, registry, stopped, wg, holds, calls, closing>>

Asks(c) == IF c \in Samples THEN "checked" ELSE "idle"

(* Service.session. A cached session built for other switches is retired       *)
(* before its successor is connected, and a connection that fails leaves       *)
(* nothing cached. A closed service refuses.                                   *)
Refused(c) ==
    /\ closed /\ Goes(c, Asks(c), "over")
    /\ UNCHANGED <<closed, tools, session, registry, stopped, wg, holds, calls, closing>>

Reuse(c) ==
    /\ ~closed /\ tools # None /\ session[tools].groups = Budget[c]
    /\ Goes(c, Asks(c), "connected")
    /\ session' = [session EXCEPT ![tools] = Acquired(@)]
    /\ holds' = [holds EXCEPT ![c] = tools]
    /\ UNCHANGED <<closed, tools, registry, stopped, wg, calls, closing>>

Superseded ==
    IF tools = None THEN session ELSE [session EXCEPT ![tools] = Retired(@)]

Connect(c) ==
    /\ ~closed /\ (tools # None => session[tools].groups # Budget[c])
    /\ \/ /\ Goes(c, Asks(c), "connected")
          /\ session' = [Superseded EXCEPT ![c] = Acquired([Unmade EXCEPT !.groups = Budget[c]])]
          /\ holds' = [holds EXCEPT ![c] = c] /\ tools' = c
       \/ /\ Goes(c, Asks(c), "over")
          /\ session' = Superseded /\ tools' = None /\ UNCHANGED holds
    /\ UNCHANGED <<closed, registry, stopped, wg, calls, closing>>

(* The caller lists the tools before anything else; a list that cannot be read,*)
(* or a work another turn holds, sends it away with the session given back.    *)
NotStarted(c) ==
    /\ Goes(c, "connected", "over") /\ LetsGo(c)
    /\ UNCHANGED <<closed, tools, registry, stopped, wg, calls, closing>>

(* Run, up to the goroutine. The cancel func is in the registry before the     *)
(* turn enters the wait group.                                                 *)
Start(t) ==
    /\ byProject[WorkOf[t]] = None
    /\ Goes(t, "connected", "claimed")
    /\ byProject' = [byProject EXCEPT ![WorkOf[t]] = t]
    /\ cancels' = cancels \cup {t}
    /\ UNCHANGED <<closed, tools, session, stopped, wg, holds, calls, closing>>

Enter(t) ==
    /\ ~closed /\ Goes(t, "claimed", "entered")
    /\ wg' = wg \cup {t}
    /\ UNCHANGED <<closed, tools, session, registry, stopped, holds, calls, closing>>

UnclaimedAny(t) == [byProject EXCEPT ![WorkOf[t]] = None]

(* runs.finish: the run is checked against the holder, so a late teardown      *)
(* cannot evict the turn that came after it.                                   *)
Unclaimed(t) ==
    [w \in Works |-> IF w = WorkOf[t] /\ byProject[w] = t THEN None ELSE byProject[w]]

Finish(t) == byProject' = Unclaimed(t) /\ cancels' = cancels \ {t}

TurnedAway(t) ==
    /\ closed /\ Goes(t, "claimed", "refused") /\ Finish(t)
    /\ UNCHANGED <<closed, tools, session, stopped, wg, holds, calls, closing>>

(* The user's row could not be written: finish, leave, and the deferred release. *)
Unwritten(t) ==
    /\ Goes(t, "entered", "unwritten") /\ Finish(t)
    /\ UNCHANGED <<closed, tools, session, stopped, wg, holds, calls, closing>>

GivesUp(t) ==
    /\ \/ Goes(t, "refused", "over") /\ UNCHANGED wg
       \/ Goes(t, "unwritten", "refused") /\ wg' = wg \ {t}
    /\ IF pc[t] = "refused" THEN LetsGo(t) ELSE UNCHANGED <<session, holds>>
    /\ UNCHANGED <<closed, tools, registry, stopped, calls, closing>>

Begin(t) ==
    /\ Goes(t, "entered", "chat")
    /\ UNCHANGED <<closed, tools, session, registry, stopped, wg, holds, calls, closing>>

-----------------------------------------------------------------------------
(* The turn on its goroutine.                                                  *)

Loop(t, from, to) ==
    /\ Goes(t, from, to)
    /\ UNCHANGED <<closed, tools, session, registry, stopped, wg, holds, closing>>

(* A round trip. A provider that fails, or a writer who has stopped the turn,  *)
(* ends it; a last reply is told to the panel; otherwise it asks for tools.    *)
(* Reply covers the stop at a silent reply too, which is told the same way.    *)
ChatFails(t) == Loop(t, "chat", "winding") /\ UNCHANGED calls
Reply(t) == t \notin CommandLine /\ Loop(t, "chat", "replied") /\ UNCHANGED calls
AsksForTools(t) == t \notin CommandLine /\ Loop(t, "chat", "tools") /\ UNCHANGED calls

(* Before every call: has the writer stopped the turn, is the cap reached.     *)
RoomForOne(t) == calls[t] <= MaxCalls
Room(t) == calls[t] < MaxCalls

Tool(t) ==
    /\ t \notin stopped /\ Room(t)
    /\ \E to \in {"tools", "chat", "replied", "wall"} :
          /\ to = "chat" => calls[t] + 1 < MaxCalls
          /\ Loop(t, "tools", to)
    /\ calls' = [calls EXCEPT ![t] = @ + 1]

CutShort(t) ==
    /\ t \in stopped \/ ~Room(t)
    /\ Loop(t, "tools", IF t \in stopped THEN "winding" ELSE "wall")
    /\ UNCHANGED calls

(* One more round trip, tools forbidden, and the turn ends at the wall.        *)
WrapUp(t) ==
    /\ Loop(t, "wall", IF t \in stopped THEN "winding" ELSE "replied")
    /\ UNCHANGED calls

(* The provider's own loop: calls come over the bridge while Chat is out, and  *)
(* past the cap they are answered without being run.                           *)
BridgeCall(t) ==
    /\ t \in CommandLine /\ Room(t)
    /\ Loop(t, "chat", "chat")
    /\ calls' = [calls EXCEPT ![t] = @ + 1]

(* No passes follow a turn the wall, the writer or an empty reply ended.       *)
BridgeDone(t) ==
    /\ t \in CommandLine
    /\ \/ t \notin stopped /\ Loop(t, "chat", "replied")
       \/ Loop(t, "chat", "winding")
    /\ UNCHANGED calls

Panic(t) ==
    /\ \E from \in {"tools", "wall"} : Loop(t, from, "winding")
    /\ UNCHANGED calls

(* afterReply: the work is given up first, then the passes are started.        *)
Release(t) ==
    /\ Goes(t, "replied", "freed")
    /\ byProject' = Unclaimed(t)
    /\ UNCHANGED <<closed, tools, session, cancels, stopped, wg, holds, calls, closing>>

Launching(c) == \E k \in {"self", "after"} : pc[<<c, k>>] \in {"tracked", "admitted"}

NextPass(c) ==
    IF c \in Turns /\ pc[c] = "freed" THEN <<c, "self">> ELSE <<c, "after">>

Follows(c, to) ==
    /\ ~Launching(c)
    /\ \/ c \in Turns /\ pc[c] = "freed" /\ to = "reviewed"
       \/ c \in Turns /\ pc[c] = "reviewed" /\ to = "winding"
       \/ c \in Samples /\ pc[c] = "connected" /\ to = "winding"

(* startSelfReview and startPasses: the pass is tracked, not claimed, then     *)
(* entered, then given a reference of its own by a goroutine that still has    *)
(* one. The writer's switches decide whether there is a pass at all.           *)
Track(c) ==
    \E to \in {"reviewed", "winding"} :
        LET p == NextPass(c) IN
        /\ Follows(c, to)
        /\ c \in Turns => c \in Reviewed
        /\ p[2] = "self" => c \notin CommandLine
        /\ pc' = [pc EXCEPT ![c] = to, ![p] = "tracked"]
        /\ cancels' = cancels \cup {p}
        /\ UNCHANGED <<closed, tools, session, byProject, stopped, wg, holds, calls, closing>>

NoPass(t) ==
    /\ t \in Turns
    /\ \E to \in {"reviewed", "winding"} : Follows(t, to) /\ pc' = [pc EXCEPT ![t] = to]
    /\ UNCHANGED <<closed, tools, session, registry, stopped, wg, holds, calls, closing>>

Admit(p) ==
    /\ Goes(p, "tracked", IF closed THEN "over" ELSE "admitted")
    /\ IF closed THEN cancels' = cancels \ {p} /\ UNCHANGED wg
                 ELSE wg' = wg \cup {p} /\ UNCHANGED cancels
    /\ UNCHANGED <<closed, tools, session, byProject, stopped, holds, calls, closing>>

Launch(p) ==
    /\ Goes(p, "admitted", "running")
    /\ session' = [session EXCEPT ![holds[p[1]]] = Acquired(@)]
    /\ holds' = [holds EXCEPT ![p] = holds[p[1]]]
    /\ UNCHANGED <<closed, tools, registry, stopped, wg, calls, closing>>

PassEnds(p) ==
    /\ Goes(p, "running", "winding")
    /\ UNCHANGED <<closed, tools, session, registry, stopped, wg, holds, calls, closing>>

(* The deferred calls, in the order they run: the session is given back before *)
(* the wait group hears of it, and the work is given up last.                  *)
ReleaseSession(j) ==
    /\ j \in Callers => ~Launching(j)
    /\ Goes(j, "winding", IF j \in Samples THEN "over" ELSE "let")
    /\ LetsGo(j)
    /\ UNCHANGED <<closed, tools, registry, stopped, wg, calls, closing>>

Leave(j) ==
    /\ Goes(j, "let", "left") /\ wg' = wg \ {j}
    /\ UNCHANGED <<closed, tools, session, registry, stopped, holds, calls, closing>>

Over(j) ==
    /\ Goes(j, "left", "over")
    /\ IF j \in Turns THEN Finish(j)
                        ELSE cancels' = cancels \ {j} /\ UNCHANGED byProject
    /\ UNCHANGED <<closed, tools, session, stopped, wg, holds, calls, closing>>

-----------------------------------------------------------------------------
(* The writer's stop, and the engine's end.                                    *)

Cancel(t) ==
    /\ t \in cancels \ stopped /\ stopped' = stopped \cup {t}
    /\ UNCHANGED <<closed, tools, session, registry, wg, pc, holds, calls, closing>>

Closes(from, to) == closing.at = from /\ closing' = [closing EXCEPT !.at = to]

Close ==
    /\ closing.at = "open" /\ closed' = TRUE /\ tools' = None
    /\ closing' = [at |-> "closing", tools |-> tools]
    /\ UNCHANGED <<session, registry, stopped, wg, pc, holds, calls>>

(* The contexts registered now; one registered later is missed.                *)
ToldTurns == cancels \cap Turns
Told == cancels

CancelAll ==
    /\ Closes("closing", "waiting") /\ stopped' = stopped \cup Told
    /\ UNCHANGED <<closed, tools, session, registry, wg, pc, holds, calls>>

CloseReturns ==
    /\ wg = {} /\ Closes("waiting", "closed")
    /\ session' = IF closing.tools = None THEN session
                  ELSE [session EXCEPT ![closing.tools] = Retired(@)]
    /\ UNCHANGED <<closed, tools, registry, stopped, wg, pc, holds, calls>>

-----------------------------------------------------------------------------
(* What the provider, a tool or a slow pass takes is its own time, unless its  *)
(* context has been cancelled; everything else goes on.                        *)
Arrives(c) ==
    /\ Cardinality({d \in Callers \ {c} : pc[d] # "idle"}) < MaxCallers
    /\ \/ c \in Samples /\ Check(c)
       \/ Reuse(c) \/ Connect(c)

AtWork(t) ==
    \/ Reply(t) \/ AsksForTools(t) \/ Tool(t) \/ BridgeCall(t) \/ Panic(t)

Comes(t) == ChatFails(t) \/ CutShort(t) \/ WrapUp(t) \/ BridgeDone(t)

OwnStep(j) ==
    \/ j \in Callers /\ (Refused(j) \/ NotStarted(j) \/ Track(j) \/ NoPass(j))
    \/ j \in Turns /\ \/ Start(j) \/ Enter(j) \/ TurnedAway(j) \/ Unwritten(j)
                      \/ GivesUp(j) \/ Begin(j) \/ Release(j)
    \/ j \in Passes /\ (Admit(j) \/ Launch(j))
    \/ ReleaseSession(j) \/ Leave(j) \/ Over(j)

Next ==
    \/ \E c \in Callers : Arrives(c)
    \/ \E t \in Turns : AtWork(t) \/ Comes(t) \/ Cancel(t)
    \/ \E p \in Passes : PassEnds(p)
    \/ \E j \in Jobs : OwnStep(j)
    \/ Close \/ CancelAll \/ CloseReturns

Spec == Init /\ [][Next]_vars

(* A call that has been cancelled comes back.                                  *)
ComesBack(j) ==
    /\ j \in stopped
    /\ IF j \in Turns THEN Comes(j) ELSE j \in Passes /\ PassEnds(j)

Fairness ==
    /\ \A j \in Jobs : WF_vars(OwnStep(j)) /\ WF_vars(ComesBack(j))
    /\ WF_vars(CancelAll) /\ WF_vars(CloseReturns)

FairSpec == Spec /\ Fairness

-----------------------------------------------------------------------------
Phases == {"idle", "checked", "connected", "claimed", "entered", "refused",
           "unwritten", "chat", "tools", "wall", "replied", "freed", "reviewed",
           "tracked", "admitted", "running", "winding", "let", "left", "over"}

(* Every variable keeps its shape.                                             *)
TypeOK ==
    /\ closed \in BOOLEAN /\ tools \in Callers \cup {None}
    /\ session \in [Callers -> [groups : Budgets \cup {None}, refs : Nat,
                                 retired : BOOLEAN, closed : BOOLEAN]]
    /\ byProject \in [Works -> Turns \cup {None}]
    /\ cancels \subseteq Jobs /\ stopped \subseteq Jobs /\ wg \subseteq Jobs
    /\ pc \in [Jobs -> Phases] /\ holds \in [Jobs -> Callers \cup {None}]
    /\ calls \in [Turns -> 0 .. MaxCalls]
    /\ closing \in [at : {"open", "closing", "waiting", "closed"},
                    tools : Callers \cup {None}]

Holders(c) == {j \in Jobs : holds[j] = c}

Busy == {"connected", "claimed", "entered", "chat", "tools", "wall", "replied",
         "freed", "reviewed", "running", "winding"}

(* A flip of the writer's tool switches, a finished turn or Close never takes  *)
(* the session from under a turn or a pass that is still calling tools on it,  *)
(* and never leaves one behind: a superseded session nobody holds is closed,   *)
(* and after Close there is no other kind (toolSession.release and retire).    *)
SessionsServe ==
    /\ \A j \in Jobs : pc[j] \in Busy => holds[j] # None /\ ~session[holds[j]].closed
    /\ \A c \in Callers : session[c].groups # None =>
          /\ session[c].refs = Cardinality(Holders(c))
          /\ session[c].retired \/ c = tools \/ c = closing.tools
          /\ session[c].retired \/ closing.at # "closed"
          /\ session[c].closed <=> session[c].retired /\ Holders(c) = {}

Writing == {"claimed", "entered", "chat", "tools", "wall", "replied"}

(* A turn that may still write holds its work, so two never write one work at  *)
(* the same time, although a turn gives its work up long before its goroutine  *)
(* has torn down (runs.release, runs.finish, runs.track).                      *)
OneTurnAtAWork ==
    \A t \in Turns : pc[t] \in Writing => byProject[WorkOf[t]] = t

(* Close never waits on a turn or a pass that nobody told to stop (but for one *)
(* whose first row failed, with nothing left to do but leave), and once it     *)
(* has returned none is left to call the provider or write a transcript row:   *)
(* the caller is about to close the store (Service.Close, Run's comment on the *)
(* order of registering and entering).                                         *)
ClosedForGood ==
    /\ closing.at \in {"waiting", "closed"} =>
          \A j \in wg : j \in stopped \/ pc[j] = "unwritten"
    /\ closing.at = "closed" =>
          \A j \in Jobs : pc[j] \notin {"entered", "chat", "tools", "wall", "replied",
                             "admitted", "running"}

(* Two turns never write one work at the same time, and none writes or calls   *)
(* the provider once Close has returned.                                       *)
TurnsKeepToTheirWork == TypeOK /\ OneTurnAtAWork /\ ClosedForGood

Ended ==
    closed => /\ closing.at = "closed"
              /\ \A c \in Callers : session[c].groups # None => session[c].closed

(* Close returns, whatever it finds running, and every session there ever was  *)
(* ends up closed, and stays so.                                               *)
CloseEnds == <>[]Ended

=============================================================================
