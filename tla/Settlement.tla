----------------------------- MODULE Settlement -----------------------------
(* Which scenes the ledger has caught up with (internal/ledger/settlement.go). *)
(* A pass looks up the version of each scene it is given, reads them with its  *)
(* tools, writes what it found, and its end is recorded against the versions   *)
(* looked up (internal/agent/settlement.go); passes overlap, and the writer    *)
(* goes on writing. A scene whose version is recorded as done is not waiting.  *)
(*                                                                             *)
(* Left out: scenes with no prose, which never wait; the order and the budget  *)
(* of what a pass does in between.                                             *)
EXTENDS Naturals, FiniteSets

CONSTANTS
    Scenes,
    Passes,         \* that may be under way at once
    CatchUpScenes,  \* catchUpMaxScenes
    MaxWrites,      \* bound: changes of prose, here or by a pull
    MaxPasses       \* bound: passes there ever are

Never == 0

VARIABLES
    scene,          \* content_version, what is written (a number for each text
                    \* there ever was), and whether it was since settlement is on
    row,            \* scene_settlements
    on,             \* the switch
    pass,
    done,
    caughtUp        \* for the properties: texts a pass that ended well has read

vars == <<scene, row, on, pass, done, caughtUp>>

NoPass == [at |-> "idle"]
NoRow == [version |-> Never, outcome |-> "none"]

Init ==
    /\ scene = [s \in Scenes |-> [version |-> 1, text |-> 1, since |-> FALSE]]
    /\ row = [s \in Scenes |-> NoRow] /\ on \in BOOLEAN
    /\ pass = [p \in Passes |-> NoPass]
    /\ done = [writes |-> 0, passes |-> 0]
    /\ caughtUp = [s \in Scenes |-> {}]

Wrote == done.writes < MaxWrites /\ done' = [done EXCEPT !.writes = @ + 1]
NewText == done.writes + 2

-----------------------------------------------------------------------------
(* Pending: written since the switch, and this version never settled.          *)
Pending ==
    IF ~on THEN {}
    ELSE {s \in Scenes : scene[s].since /\ row[s] # [version |-> scene[s].version, outcome |-> "done"]}

(* The writer, or an agent's turn.                                             *)
Write(s) ==
    /\ Wrote
    /\ scene' = [scene EXCEPT ![s] = [version |-> @.version + 1, text |-> NewText, since |-> on]]
    /\ UNCHANGED <<row, on, pass, caughtUp>>

(* A pull replaces the work, what is recorded of it included. Versions count   *)
(* writes of one copy, so another text may come with the same number. What was *)
(* settled on the other device was caught up with there.                       *)
Pull(s, version, settled) ==
    /\ Wrote
    /\ scene' = [scene EXCEPT ![s] = [version |-> version, text |-> NewText, since |-> TRUE]]
    /\ row' = [row EXCEPT ![s] = IF settled THEN [version |-> version, outcome |-> "done"] ELSE NoRow]
    /\ pass' = [p \in Passes |->
            IF pass[p].at # "idle" /\ s \in pass[p].scenes THEN [pass[p] EXCEPT !.pulled = @ \cup {s}] ELSE pass[p]]
    /\ caughtUp' = IF settled THEN [caughtUp EXCEPT ![s] = @ \cup {NewText}] ELSE caughtUp
    /\ UNCHANGED on

Switch ==
    /\ Wrote /\ on' = ~on
    /\ scene' = IF on THEN scene ELSE [s \in Scenes |-> [scene[s] EXCEPT !.since = FALSE]]
    /\ UNCHANGED <<row, pass, caughtUp>>

-----------------------------------------------------------------------------
(* A turn's own scenes, or the oldest few that wait (catchUp).                 *)
Offered(scenes) == scenes # {} /\ Cardinality(scenes) <= CatchUpScenes

(* settle: what the pass is about to read is looked up first.                  *)
Begin(p, scenes) ==
    /\ on /\ pass[p] = NoPass /\ done.passes < MaxPasses /\ Offered(scenes)
    /\ done' = [done EXCEPT !.passes = @ + 1]
    /\ pass' = [pass EXCEPT ![p] =
            [at |-> "reading", scenes |-> scenes, versions |-> [s \in scenes |-> scene[s].version],
             read |-> [s \in scenes |-> Never], pulled |-> {}, outcome |-> "none"]]
    /\ UNCHANGED <<scene, row, on, caughtUp>>

Read(p, s) ==
    /\ pass[p].at = "reading" /\ s \in pass[p].scenes /\ pass[p].read[s] = Never
    /\ pass' = [pass EXCEPT ![p].read[s] = scene[s].text]
    /\ UNCHANGED <<scene, row, on, done, caughtUp>>

(* boundedPass: out of time or calls counts as failed, whatever it has read. A pass*)
(* that is done is taken to have read what it was given: that is the model's.  *)
End(p, outcome) ==
    /\ pass[p].at = "reading"
    /\ outcome = "done" => \A s \in pass[p].scenes : pass[p].read[s] # Never
    /\ pass' = [pass EXCEPT ![p].at = "ended", ![p].outcome = outcome]
    /\ caughtUp' = IF outcome # "done" THEN caughtUp
                   ELSE [s \in Scenes |-> IF s \in pass[p].scenes
                                          THEN caughtUp[s] \cup {pass[p].read[s]} ELSE caughtUp[s]]
    /\ UNCHANGED <<scene, row, on, done>>

VersionNow(p, s) == scene[s].version

(* The version that was looked up before the pass, not the one there is now.   *)
Version(p, s) == pass[p].versions[s]

AnyOutcome(old, new) == TRUE

(* A pass that did not end well does not undo one that did.                    *)
Replaces(old, new) == ~(old.outcome = "done" /\ old.version = new.version /\ new.outcome # "done")

Record(p, s) ==
    /\ pass[p].at = "ended" /\ s \in pass[p].scenes
    /\ LET new == [version |-> Version(p, s), outcome |-> pass[p].outcome]
       IN row' = IF Replaces(row[s], new) THEN [row EXCEPT ![s] = new] ELSE row
    /\ pass' = IF pass[p].scenes = {s} THEN [pass EXCEPT ![p] = NoPass]
               ELSE [pass EXCEPT ![p].scenes = @ \ {s}]
    /\ caughtUp' = IF s \in pass[p].pulled THEN [caughtUp EXCEPT ![s] = @ \cup {scene[s].text}] ELSE caughtUp
    /\ UNCHANGED <<scene, on, done>>

-----------------------------------------------------------------------------
Next ==
    \/ Switch
    \/ \E s \in Scenes :
        \/ Write(s)
        \/ \E version \in {scene[s].version, scene[s].version + 1}, settled \in BOOLEAN : Pull(s, version, settled)
    \/ \E p \in Passes :
        \/ \E scenes \in SUBSET Scenes : Begin(p, scenes)
        \/ \E s \in Scenes : Read(p, s) \/ Record(p, s)
        \/ \E outcome \in {"done", "failed"} : End(p, outcome)

Spec == Init /\ [][Next]_vars

-----------------------------------------------------------------------------
(* A scene is only let off when a pass that ended well read the words it has   *)
(* now, however passes and writing overlap. Left out: a pull that comes while  *)
(* a pass is at the scene, and may bring the version that pass looked up.      *)
LetOffMeansRead ==
    on => \A s \in Scenes : scene[s].since /\ s \notin Pending => scene[s].text \in caughtUp[s]

(* What was let off waits again only when its words change, or when a slower   *)
(* pass records what it looked up before they did.                             *)
WaitsForAReason ==
    \A s \in Scenes :
        on /\ on' /\ scene'[s] = scene[s] /\ s \notin Pending /\ s \in Pending' =>
            \E p \in Passes : /\ pass[p].at = "ended" /\ s \in pass[p].scenes
                              /\ pass[p].versions[s] # scene[s].version

StaysSettled == [][WaitsForAReason]_vars
=============================================================================
