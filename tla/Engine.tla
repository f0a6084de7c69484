------------------------------- MODULE Engine -------------------------------
(* Eight components of the engine that share no state: Settings, McpHost,      *)
(* Ledger, Continuity, Samples, Forecasts, Skills and Settlement. A behaviour  *)
(* is of one of them, which `part` names. Variables bear the names they have   *)
(* there, some of them in several; what that one does not have is off.         *)
EXTENDS Naturals, Sequences, FiniteSets

CONSTANTS
    Callers, Windows, Agents,                       \* who may have a call under way
    Scenes, MaxCalls, MaxEdits, MaxFaults,
    KeyNames, WebKey, NewKeys, OldKeys, MaxPatches, MaxKeyFaults,       \* Settings
    Engines, Ports,                                                     \* McpHost
    FactTexts, MaxRows, MaxLedgerCalls, MaxDeletions,                   \* Ledger
    Sentences, MaxChecks, MaxFound,                                     \* Continuity
    SampledScenes, Opens, RecentPairs,                                  \* Samples
    Works, CanonRows, Values, First, MaxForecasts, MaxCanonEdits,       \* Forecasts
    SkillNames, SkillTexts, Absent, Bare, Broken, Unreadable, MaxSkills, MaxByHand,
    SettledScenes, Passes, CatchUpScenes, MaxWrites, MaxPasses          \* Settlement

VARIABLES
    part,
    call, done, file, made, row, scene, edits,              \* of more than one
    backend, secrets, cfg, notice, up, load, owned,         \* Settings
    mode, server, bound, token, pid, history,               \* McpHost
    scenes, calls, held,                                    \* Ledger
    checks, obs,                                            \* Continuity
    version, seen, handed,                                  \* Samples
    canon, forecast,                                        \* Forecasts
    disk, log, unlogged,                                    \* Skills
    on, pass, caughtUp                                      \* Settlement

settingsOwn == <<backend, secrets, cfg, notice, up, load, owned>>
hostOwn == <<mode, server, bound, token, pid, history>>
ledgerOwn == <<scenes, calls, held>>
checksOwn == <<checks, obs>>
pairsOwn == <<version, seen, handed>>
plansOwn == <<canon, forecast>>
skillsOwn == <<disk, log, unlogged>>
settledOwn == <<on, pass, caughtUp>>
vars == <<part, call, done, file, made, row, scene, edits, settingsOwn, hostOwn,
          ledgerOwn, checksOwn, pairsOwn, plansOwn, skillsOwn, settledOwn>>

Config == INSTANCE Settings WITH
    Names <- KeyNames, Web <- WebKey, Keys <- NewKeys, Callers <- Windows, MaxFaults <- MaxKeyFaults
Host == INSTANCE McpHost
Facts == INSTANCE Ledger WITH Texts <- FactTexts, MaxCalls <- MaxLedgerCalls
Checks == INSTANCE Continuity
Pairs == INSTANCE Samples WITH Scenes <- SampledScenes
Plans == INSTANCE Forecasts WITH Rows <- CanonRows, Callers <- Windows, MaxEdits <- MaxCanonEdits
Skill == INSTANCE Skills WITH Names <- SkillNames, Texts <- SkillTexts
Settled == INSTANCE Settlement WITH Scenes <- SettledScenes

(* Nobody is no engine, and 0 no work; bounds are numbers, and so are scenes   *)
(* where their order is what counts; a directory without a skill is no text.   *)
ASSUME NameAssumption == Host!None \notin Engines
ASSUME RowsAssumption == MaxRows \in Nat
ASSUME ChecksAssumption == MaxChecks \in Nat
ASSUME ScenesAssumption == SampledScenes \subseteq Nat /\ IsFiniteSet(SampledScenes) /\ RecentPairs \in Nat
ASSUME ForecastsAssumption == MaxForecasts \in Nat /\ Plans!None \notin Works
ASSUME SkillsAssumption == Absent \notin SkillTexts /\ Bare \notin SkillTexts

-----------------------------------------------------------------------------
Off(v) == v = "off"
NoSettings == Off(backend) /\ Off(secrets) /\ Off(cfg) /\ Off(notice) /\ Off(up) /\ Off(load) /\ Off(owned)
NoHost == Off(mode) /\ Off(server) /\ Off(bound) /\ Off(token) /\ Off(pid) /\ Off(history)
NoLedger == Off(scenes) /\ Off(calls) /\ Off(held)
NoChecks == Off(checks) /\ Off(obs)
NoPairs == Off(version) /\ Off(seen) /\ Off(handed)
NoPlans == Off(canon) /\ Off(forecast)
NoSkills == Off(disk) /\ Off(log) /\ Off(unlogged)
NoSettled == Off(on) /\ Off(pass) /\ Off(caughtUp)

Init ==
    \/ /\ part = "settings" /\ Config!Init
       /\ NoHost /\ NoLedger /\ NoChecks /\ NoPairs /\ NoPlans /\ NoSkills /\ NoSettled
       /\ Off(made) /\ Off(row) /\ Off(scene) /\ Off(edits)
    \/ /\ part = "host" /\ Host!Init
       /\ NoSettings /\ NoLedger /\ NoChecks /\ NoPairs /\ NoPlans /\ NoSkills /\ NoSettled
       /\ Off(made) /\ Off(row) /\ Off(scene) /\ Off(edits)
    \/ /\ part = "ledger" /\ Facts!Init
       /\ NoSettings /\ NoHost /\ NoChecks /\ NoPairs /\ NoPlans /\ NoSkills /\ NoSettled
       /\ Off(done) /\ Off(file) /\ Off(scene) /\ Off(edits)
    \/ /\ part = "checks" /\ Checks!Init
       /\ NoSettings /\ NoHost /\ NoLedger /\ NoPairs /\ NoPlans /\ NoSkills /\ NoSettled
       /\ Off(done) /\ Off(file) /\ Off(row)
    \/ /\ part = "pairs" /\ Pairs!Init
       /\ NoSettings /\ NoHost /\ NoLedger /\ NoChecks /\ NoPlans /\ NoSkills /\ NoSettled
       /\ Off(done) /\ Off(file) /\ Off(made) /\ Off(row) /\ Off(scene)
    \/ /\ part = "plans" /\ Plans!Init
       /\ NoSettings /\ NoHost /\ NoLedger /\ NoChecks /\ NoPairs /\ NoSkills /\ NoSettled
       /\ Off(done) /\ Off(file) /\ Off(row) /\ Off(scene)
    \/ /\ part = "skills" /\ Skill!Init
       /\ NoSettings /\ NoHost /\ NoLedger /\ NoChecks /\ NoPairs /\ NoPlans /\ NoSettled
       /\ Off(file) /\ Off(made) /\ Off(row) /\ Off(scene) /\ Off(edits)
    \/ /\ part = "settled" /\ Settled!Init
       /\ NoSettings /\ NoHost /\ NoLedger /\ NoChecks /\ NoPairs /\ NoPlans /\ NoSkills
       /\ Off(call) /\ Off(file) /\ Off(made) /\ Off(edits)

Of(name, A) == part = name /\ A /\ UNCHANGED part

Next ==
    \/ /\ Of("settings", Config!Next)
       /\ UNCHANGED <<hostOwn, ledgerOwn, checksOwn, pairsOwn, plansOwn, skillsOwn, settledOwn,
                      made, row, scene, edits>>
    \/ /\ Of("host", Host!Next)
       /\ UNCHANGED <<settingsOwn, ledgerOwn, checksOwn, pairsOwn, plansOwn, skillsOwn, settledOwn,
                      made, row, scene, edits>>
    \/ /\ Of("ledger", Facts!Next)
       /\ UNCHANGED <<settingsOwn, hostOwn, checksOwn, pairsOwn, plansOwn, skillsOwn, settledOwn,
                      done, file, scene, edits>>
    \/ /\ Of("checks", Checks!Next)
       /\ UNCHANGED <<settingsOwn, hostOwn, ledgerOwn, pairsOwn, plansOwn, skillsOwn, settledOwn,
                      done, file, row>>
    \/ /\ Of("pairs", Pairs!Next)
       /\ UNCHANGED <<settingsOwn, hostOwn, ledgerOwn, checksOwn, plansOwn, skillsOwn, settledOwn,
                      done, file, made, row, scene>>
    \/ /\ Of("plans", Plans!Next)
       /\ UNCHANGED <<settingsOwn, hostOwn, ledgerOwn, checksOwn, pairsOwn, skillsOwn, settledOwn,
                      done, file, row, scene>>
    \/ /\ Of("skills", Skill!Next)
       /\ UNCHANGED <<settingsOwn, hostOwn, ledgerOwn, checksOwn, pairsOwn, plansOwn, settledOwn,
                      file, made, row, scene, edits>>
    \/ /\ Of("settled", Settled!Next)
       /\ UNCHANGED <<settingsOwn, hostOwn, ledgerOwn, checksOwn, pairsOwn, plansOwn, skillsOwn,
                      call, file, made, edits>>

Spec == Init /\ [][Next]_vars

-----------------------------------------------------------------------------
(* Every key is where it may be, the notice and memory tell the truth, and a   *)
(* patch that is refused has changed nothing (Settings).                       *)
SettingsAccounted ==
    /\ []((part = "settings") => Config!Accounted)
    /\ [][part = "settings" => Config!RefusalChangesNothing]_vars

(* The discovery file names no server that is gone, and a server that runs can *)
(* be found by it (McpHost).                                                   *)
Advertised == part = "host" => Host!Advertised

(* What an agent may not change stays: pinned facts, pins and replacements     *)
(* (Ledger).                                                                   *)
FactsHold ==
    /\ []((part = "ledger") => Facts!PutAsideForLater)
    /\ [][part = "ledger" => Facts!PinsHold /\ Facts!NotTheEdits]_vars

(* A check's quotes stand in the text it read, a clean check was clean, what   *)
(* the writer decided stays (Continuity), and no pair of scenes is passed over *)
(* for good (Samples).                                                         *)
ChecksHold ==
    /\ []((part = "checks") => Checks!Sound)
    /\ [][/\ part = "checks" => Checks!DecisionsStand
          /\ part = "pairs" => Pairs!PicksWhatIsLeft]_vars

(* A forecast reads as out of date exactly when its canon has changed, and one *)
(* is chosen at most (Forecasts).                                              *)
ForecastsTold == part = "plans" => Plans!Told

(* A restore or a create buries no skill, and what was written through the app *)
(* or by an agent is in the log (Skills).                                      *)
SkillsKept ==
    /\ []((part = "skills") => Skill!TypeOK /\ Skill!CanBeGoneBackTo)
    /\ [][part = "skills" => Skill!BuriesNothing]_vars

(* A scene that no longer waits was read by a pass that ended well, and waits  *)
(* again only for a reason (Settlement).                                       *)
SettledWasRead ==
    /\ []((part = "settled") => Settled!LetOffMeansRead)
    /\ [][part = "settled" => Settled!WaitsForAReason]_vars
=============================================================================
