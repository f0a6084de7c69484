----------------------------- MODULE SyncRunner -----------------------------
(***************************************************************************)
(* When a device syncs (engine/internal/syncauto/runner.go): the loop that *)
(* ticks and sleeps, the works on screen, the edits that have to settle,   *)
(* the works flagged to go up at once, the mirror, and the last upload as  *)
(* the engine shuts down.  What a run does to a work is module Vault's     *)
(* matter: here a work is sent, taken or passed over, in two steps, so     *)
(* that the writer may act between the question and the answer.            *)
(*                                                                         *)
(* Minutes are two ages of an edit: it has settled or it has not.  One     *)
(* target is two-way and one is a mirror; neither is Git, whose runs are   *)
(* the same on another timetable.                                          *)
(***************************************************************************)
EXTENDS Naturals

CONSTANTS
  Works,       \* the works of the library
  Agents,      \* the works an agent may write in
  Arrivals,    \* the works other devices may upload
  Leftover,    \* the works with text that the last session did not send
  MaxSetbacks, \* bound: failures, and manual operations in a run's way
  MaxMoves     \* bound: what the writer, agents and other devices do

VARIABLES
  pc,       \* where the loop is
  phase,    \* "up", "stopping" once stop is called, "flushing", "down"
  todo,     \* the works the run under way has not come to
  pushing, pulling, \* the work, if any, between its turn and its outcome
  service,  \* who holds the vault service's one operation
  active,   \* Runner.active
  opening,  \* works whose Open has had its run and not marked them yet
  edited,   \* Runner.edited: "no" entry, "fresh", or "old" once settled
  flushing, \* Runner.flushing
  closed,   \* Runner.closed
  woken,    \* Runner.woken
  canceled, \* the sleep under way has been cancelled by Runner.wake
  calling,  \* calls that have let go of the lock and not called RunNow yet
  enabled,  \* the setting
  busy,     \* the works an agent is writing in
  unsent,   \* works with text the two-way target has not been sent
  behind,   \* works another device uploaded since
  unmirrored, \* works with text the mirror has not been sent
  unseen,   \* history: works flagged since the loop last set out
  moves, setbacks

flags   == <<active, edited, flushing, closed>>
alarm   == <<woken, canceled, calling>>
run     == <<todo, pushing, pulling>>
content == <<unsent, behind, unmirrored>>
around  == <<enabled, busy, opening>>
bounds  == <<moves, setbacks>>
vars == <<pc, phase, run, service, flags, alarm, around, content, unseen,
          bounds>>

-----------------------------------------------------------------------------
Spots == {"tick", "run", "mirrors", "mirroring", "wait", "asleep", "off"}
Phases == {"up", "stopping", "flushing", "down"}
Ages == {"no", "fresh", "old"}

\* Mutant of Settled: a work on screen is held back however long ago it was
\* written in.
SettledOffScreen(w) ==
  w \in flushing \/ (edited[w] # "fresh" /\ w \notin active)

\* SyncPolicy.Settled
Settled(w) == w \in flushing \/ edited[w] # "fresh"

Edited == {w \in Works : edited[w] # "no"}

Move == phase = "up" /\ moves < MaxMoves /\ moves' = moves + 1
Setback == setbacks < MaxSetbacks /\ setbacks' = setbacks + 1

Changes(w) ==
  /\ unsent' = unsent \cup {w}
  /\ unmirrored' = unmirrored \cup {w}
  /\ UNCHANGED behind

\* RunNow: remember it, and cut the sleep short if there is one.
Wake ==
  woken' = TRUE /\ canceled' = IF pc = "asleep" THEN TRUE ELSE canceled

\* What Close, Flush and SetAuto do before they call RunNow, which takes the
\* lock again.
Calls(c) == calling' = calling \cup {c} /\ UNCHANGED <<woken, canceled>>

\* Close and Flush ask for a work to go up without settling.
Flag(w) ==
  /\ flushing' = flushing \cup {w}
  /\ unseen' = unseen \cup {w}
  /\ Calls(w)

Init ==
  /\ pc = "tick" /\ phase = "up"
  /\ todo = {} /\ pushing = {} /\ pulling = {}
  /\ service = "free"
  /\ active = {} /\ opening = {}
  /\ edited = [w \in Works |-> "no"]
  /\ flushing = {} /\ closed = FALSE
  /\ woken = FALSE /\ canceled = FALSE /\ calling = {}
  /\ enabled \in BOOLEAN
  /\ busy = {}
  /\ unsent = Leftover /\ unmirrored = Leftover /\ behind = {}
  /\ unseen = {}
  /\ moves = 0 /\ setbacks = 0

-----------------------------------------------------------------------------
(* The writer and the window, through the handlers of sync.*               *)

\* A scene is saved, and Touch records the edit: a call of its own that the
\* window makes right after, here one step with the save.
Write(w) ==
  /\ Move /\ w \in active
  /\ Changes(w)
  /\ edited' = [edited EXCEPT ![w] = "fresh"]
  /\ UNCHANGED <<pc, phase, run, service, active, flushing, closed, alarm,
                 around, unseen, setbacks>>

\* SettleAfter has passed since the last Touch.
Settle(w) ==
  /\ edited[w] = "fresh"
  /\ edited' = [edited EXCEPT ![w] = "old"]
  /\ UNCHANGED <<pc, phase, run, service, active, flushing, closed, alarm,
                 around, content, unseen, bounds>>

\* Open takes a newer version first, unless automatic sync is off or another
\* operation runs: then, and whatever becomes of its own, the work is opened.
BeginOpen(w) ==
  /\ Move /\ w \notin active \cup opening /\ service # w
  /\ IF enabled /\ service = "free"
       THEN service' = w /\ UNCHANGED opening
       ELSE opening' = opening \cup {w} /\ UNCHANGED service
  /\ UNCHANGED <<pc, phase, run, flags, alarm, enabled, busy, content, unseen,
                 setbacks>>

OpenSync(w) ==
  /\ service = w
  /\ service' = "free"
  /\ opening' = opening \cup {w}
  /\ \/ /\ w \in unsent \ (behind \cup busy) /\ Settled(w)
        /\ unsent' = unsent \ {w}
        /\ UNCHANGED <<behind, unmirrored>>
     \/ /\ w \in behind \ (unsent \cup busy \cup active)
        /\ behind' = behind \ {w}
        /\ unmirrored' = unmirrored \cup {w}
        /\ UNCHANGED unsent
     \/ UNCHANGED content  \* nothing to do, out of time, or failed
  /\ UNCHANGED <<pc, phase, run, flags, alarm, enabled, busy, unseen, bounds>>

MarkOpen(w) ==
  /\ w \in opening
  /\ opening' = opening \ {w}
  /\ active' = active \cup {w}
  /\ UNCHANGED <<pc, phase, run, service, edited, flushing, closed, alarm,
                 enabled, busy, content, unseen, bounds>>

Close(w) ==
  /\ phase = "up" /\ w \in active
  /\ active' = active \ {w}
  /\ closed' = TRUE
  /\ Flag(w)
  /\ UNCHANGED <<pc, phase, run, service, edited, around, content, bounds>>

\* The app goes to the background.
Flush(w) ==
  /\ Move /\ w \in active
  /\ Flag(w)
  /\ UNCHANGED <<pc, phase, run, service, active, edited, closed, around,
                 content, setbacks>>

\* The handler of sync.run_now.
RunNow ==
  /\ phase = "up" /\ ~woken
  /\ Wake
  /\ UNCHANGED <<pc, phase, run, service, flags, calling, around, content,
                 unseen, bounds>>

\* The last thing Close, Flush and SetAuto do.
CallsRunNow(c) ==
  /\ c \in calling
  /\ calling' = calling \ {c}
  /\ Wake
  /\ UNCHANGED <<pc, phase, run, service, flags, around, content, unseen,
                 bounds>>

SetAuto ==
  /\ phase = "up"
  /\ enabled' = ~enabled
  /\ IF ~enabled THEN Calls("auto") ELSE UNCHANGED alarm
  /\ UNCHANGED <<pc, phase, run, service, flags, busy, opening, content,
                 unseen, bounds>>

-----------------------------------------------------------------------------
(* Whoever else is there                                                   *)

\* A manual upload or download holds the service for as long as it takes.
ManualBegins ==
  /\ Setback /\ phase = "up" /\ service = "free"
  /\ service' = "manual"
  /\ UNCHANGED <<pc, phase, run, flags, alarm, around, content, unseen, moves>>

ManualEnds ==
  /\ service = "manual"
  /\ service' = "free"
  /\ UNCHANGED <<pc, phase, run, flags, alarm, around, content, unseen, bounds>>

AgentBegins(w) ==
  /\ Move /\ w \in Agents \ busy
  /\ busy' = busy \cup {w}
  /\ UNCHANGED <<pc, phase, run, service, flags, alarm, enabled, opening,
                 content, unseen, setbacks>>

\* An agent's writing touches nothing: no edit is recorded.
AgentWrites(w) ==
  /\ w \in busy /\ phase = "up"
  /\ Changes(w)
  /\ UNCHANGED <<pc, phase, run, service, flags, alarm, around, unseen, bounds>>

AgentEnds(w) ==
  /\ w \in busy
  /\ busy' = busy \ {w}
  /\ UNCHANGED <<pc, phase, run, service, flags, alarm, enabled, opening,
                 content, unseen, bounds>>

Arrive(w) ==
  /\ Move /\ w \in Arrivals \ behind
  /\ behind' = behind \cup {w}
  /\ UNCHANGED <<pc, phase, run, service, flags, alarm, around, unsent,
                 unmirrored, unseen, setbacks>>

-----------------------------------------------------------------------------
(* The loop                                                                *)

\* A run goes over the works; begin lets it in only when nobody else is.
SetOut ==
  IF service = "free"
    THEN pc' = "run" /\ service' = "loop" /\ todo' = Works
    ELSE pc' = "mirrors" /\ UNCHANGED <<service, todo>>

Tick ==
  /\ pc = "tick" /\ phase = "up"
  /\ unseen' = {}
  /\ IF enabled THEN SetOut
                ELSE pc' = "wait" /\ UNCHANGED <<service, todo>>
  /\ UNCHANGED <<phase, pushing, pulling, flags, alarm, around, content, bounds>>

\* A run goes on until its context is cancelled; the last one has its own.
Running == pc = "run" /\ phase # "stopping" /\ pushing = {} /\ pulling = {}

\* syncWork, as far as the policy's answers.
Turn(w) ==
  /\ Running /\ w \in todo
  /\ todo' = todo \ {w}
  /\ IF w \in unsent \ (behind \cup busy) /\ Settled(w)
       THEN pushing' = {w} /\ unsent' = unsent \ {w}
       ELSE UNCHANGED <<pushing, unsent>>
  /\ pulling' = IF w \in behind \ (unsent \cup busy \cup active)
                  THEN {w} ELSE {}
  /\ UNCHANGED <<pc, phase, service, flags, alarm, around, behind, unmirrored,
                 unseen, bounds>>

\* A problem of this work alone is noted and the run goes on.
Problem(w) ==
  /\ Running /\ w \in todo /\ Setback
  /\ todo' = todo \ {w}
  /\ UNCHANGED <<pc, phase, pushing, pulling, service, flags, alarm, around,
                 content, unseen, moves>>

\* The push lands, unless another device got in first.
PushLands(w) ==
  /\ w \in pushing
  /\ pushing' = {}
  /\ unsent' = IF w \in behind THEN unsent \cup {w} ELSE unsent
  /\ UNCHANGED <<pc, phase, todo, pulling, service, flags, alarm, around,
                 behind, unmirrored, unseen, bounds>>

\* The pull lands, unless the work was written in meanwhile.
PullLands(w) ==
  /\ w \in pulling
  /\ pulling' = {}
  /\ IF w \in unsent
       THEN UNCHANGED <<behind, unmirrored>>
       ELSE behind' = behind \ {w} /\ unmirrored' = unmirrored \cup {w}
  /\ UNCHANGED <<pc, phase, todo, pushing, service, flags, alarm, around,
                 unsent, unseen, bounds>>

\* finish of a run that failed or was cancelled: every flag stays.
RunFails ==
  /\ pc = "run"
  /\ IF phase = "stopping" THEN UNCHANGED setbacks ELSE Setback
  /\ pc' = "mirrors" /\ service' = "free"
  /\ todo' = {} /\ pushing' = {} /\ pulling' = {}
  /\ unsent' = unsent \cup pushing
  /\ UNCHANGED <<phase, flags, alarm, around, behind, unmirrored, unseen, moves>>

\* What finish leaves in edited.
UnsettledOnly ==  \* mutant: the works go, and not only their entries
  [w \in {v \in Works : edited[v] # "old"} |-> edited[w]]

Unsettled ==
  [w \in Works |-> IF edited[w] = "old" THEN "no" ELSE edited[w]]

\* finish of a good run; the last run of all has none.
RunEnds ==
  /\ pc = "run" /\ todo = {} /\ pushing = {} /\ pulling = {}
  /\ pc' = "mirrors" /\ service' = "free"
  /\ IF phase = "flushing"
       THEN UNCHANGED <<flushing, edited>>
       ELSE /\ flushing' = {}
            /\ edited' = Unsettled
  /\ UNCHANGED <<phase, run, active, closed, alarm, around, content, unseen,
                 bounds>>

\* runMirrors: when a work was left, and on the way out.
RunMirrors ==
  /\ pc = "mirrors"
  /\ closed' = FALSE
  /\ IF closed \/ phase = "flushing"
       THEN pc' = "mirroring" /\ todo' = Works
       ELSE pc' = "wait" /\ UNCHANGED todo
  /\ UNCHANGED <<phase, pushing, pulling, service, active, edited, flushing,
                 alarm, around, content, unseen, bounds>>

\* mirrorWork
MirrorTurn(w) ==
  /\ pc = "mirroring" /\ phase # "stopping" /\ w \in todo
  /\ todo' = todo \ {w}
  /\ unmirrored' = IF Settled(w) /\ w \notin busy
                     THEN unmirrored \ {w} ELSE unmirrored
  /\ UNCHANGED <<pc, phase, pushing, pulling, service, flags, alarm, around,
                 unsent, behind, unseen, bounds>>

MirrorFails ==
  /\ pc = "mirroring"
  /\ IF phase = "stopping" THEN UNCHANGED setbacks ELSE Setback
  /\ pc' = "wait" /\ todo' = {}
  /\ UNCHANGED <<phase, pushing, pulling, service, flags, alarm, around,
                 content, unseen, moves>>

MirrorsDone ==
  /\ pc = "mirroring" /\ todo = {}
  /\ pc' = "wait"
  /\ UNCHANGED <<phase, run, service, flags, alarm, around, content, unseen,
                 bounds>>

\* Mutant of FallAsleep: sleep clears the flag and forgets to ask it.
FallAsleepAnyway ==
  /\ pc = "wait" /\ phase = "up"
  /\ pc' = "asleep"
  /\ woken' = FALSE /\ canceled' = FALSE
  /\ UNCHANGED <<phase, run, service, flags, calling, around, content, unseen,
                 bounds>>

\* sleep
FallAsleep ==
  /\ pc = "wait" /\ phase = "up"
  /\ pc' = IF woken THEN "tick" ELSE "asleep"
  /\ woken' = FALSE /\ canceled' = FALSE
  /\ UNCHANGED <<phase, run, service, flags, calling, around, content, unseen,
                 bounds>>

\* The wait that nextWait chose is over, or was cancelled.
GetUp ==
  /\ pc = "asleep" /\ phase = "up"
  /\ pc' = "tick"
  /\ UNCHANGED <<phase, run, service, flags, alarm, around, content, unseen,
                 bounds>>

-----------------------------------------------------------------------------
(* Shutting down.  Every handler has returned by then.                     *)

Stop ==
  /\ phase = "up" /\ service \in {"free", "loop"}
  /\ opening = {} /\ calling = {}
  /\ phase' = "stopping"
  /\ UNCHANGED <<pc, run, service, flags, alarm, around, content, unseen, bounds>>

\* The loop returns, and flush makes the last run.
LastFlush ==
  /\ phase = "stopping" /\ pc \in {"tick", "wait", "asleep"}
  /\ IF enabled /\ (Edited # {} \/ flushing # {})
       THEN /\ phase' = "flushing"
            /\ flushing' = flushing \cup Edited
            /\ pc' = "run" /\ service' = "loop" /\ todo' = Works
       ELSE /\ phase' = "down" /\ pc' = "off"
            /\ UNCHANGED <<flushing, service, todo>>
  /\ UNCHANGED <<pushing, pulling, active, edited, closed, alarm, around,
                 content, unseen, bounds>>

GoDown ==
  /\ phase = "flushing" /\ pc = "wait"
  /\ phase' = "down" /\ pc' = "off"
  /\ UNCHANGED <<run, service, flags, alarm, around, content, unseen, bounds>>

-----------------------------------------------------------------------------
Loop ==
  \/ Tick \/ RunEnds \/ RunMirrors \/ MirrorsDone \/ FallAsleep \/ GetUp
  \/ \E w \in Works :
       Turn(w) \/ PushLands(w) \/ PullLands(w) \/ MirrorTurn(w)
  \/ LastFlush \/ GoDown

Goes(w) == OpenSync(w) \/ MarkOpen(w) \/ Settle(w) \/ AgentEnds(w)

Around(w) ==
  \/ Write(w) \/ BeginOpen(w) \/ Close(w) \/ Flush(w)
  \/ AgentBegins(w) \/ AgentWrites(w) \/ Arrive(w) \/ Problem(w)

Next ==
  \/ Loop \/ RunNow \/ SetAuto \/ ManualBegins \/ ManualEnds
  \/ RunFails \/ MirrorFails \/ Stop
  \/ \E w \in Works : Goes(w) \/ Around(w)
  \/ \E c \in Works \cup {"auto"} : CallsRunNow(c)

Spec == Init /\ [][Next]_vars

\* The loop's goroutine and the timers run; an operation, an agent's turn and
\* an Open come to an end.
LiveSpec ==
  /\ Spec
  /\ WF_vars(Loop) /\ WF_vars(ManualEnds)
  /\ \A w \in Works : /\ WF_vars(OpenSync(w)) /\ WF_vars(MarkOpen(w))
                      /\ WF_vars(Settle(w)) /\ WF_vars(AgentEnds(w))

-----------------------------------------------------------------------------
(* Properties *)

\* What each variable holds.  (runner.go Runner)
TypeOK ==
  /\ pc \in Spots /\ phase \in Phases
  /\ todo \in SUBSET Works
  /\ pushing \in SUBSET Works /\ pulling \in SUBSET Works
  /\ service \in {"free", "loop", "manual"} \cup Works
  /\ active \in SUBSET Works /\ opening \in SUBSET Works
  /\ edited \in [Works -> Ages]
  /\ flushing \in SUBSET Works
  /\ closed \in BOOLEAN /\ woken \in BOOLEAN /\ canceled \in BOOLEAN
  /\ calling \in SUBSET (Works \cup {"auto"})
  /\ enabled \in BOOLEAN /\ busy \in SUBSET Works
  /\ unsent \in SUBSET Works /\ behind \in SUBSET Works
  /\ unmirrored \in SUBSET Works /\ unseen \in SUBSET Works
  /\ moves \in Nat /\ setbacks \in Nat

\* The loop never waits out a period with a work flagged that it has not set
\* out for since, unless the Close or the Flush that flagged it is still on its
\* way to RunNow: whichever of the two steps of the call comes between a run
\* and the sleep, the call is not lost.  (runner.go sleep, RunNow)
NoMissedWake == pc = "asleep" /\ ~canceled => unseen \subseteq calling

\* What is written goes up in the end, unless another device uploads over it,
\* the writer turns automatic sync off, or the engine shuts down.
\* (runner.go Tick, nextWait)
EverythingGoesUp ==
  \A w \in Works :
    w \in unsent ~> w \notin unsent \/ w \in behind \/ ~enabled \/ phase # "up"

\* A work left goes to the mirror.  (runner.go runMirrors)
MirrorsTakeLeft ==
  \A w \in Works :
    w \in unmirrored \ active ~>
      w \notin unmirrored \/ w \in active \/ ~enabled \/ phase # "up"

\* A newer version never replaces a work that is on screen.
\* (runner.go Open, policy; auto.go SyncPolicy)
PulledOffScreen == [][active \cap behind \subseteq behind']_vars

=============================================================================
