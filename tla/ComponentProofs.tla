--------------------------- MODULE ComponentProofs ---------------------------
(* What holds of the eight components of Engine and of SyncRunner, for any     *)
(* number of callers, works, rows and texts.                                   *)
(* Each part has an invariant of its own, and no step of a part of Engine      *)
(* touches another (PartStays).                                                *)
EXTENDS Engine, MCSyncRunner, FiniteSetTheorems, TLAPS

(* A step of Engine is a step of the part it is of, and stays in it.           *)
LEMMA PartStays ==
    ASSUME [Next]_vars
    PROVE  /\ part' = part
           /\ part = "settings" => [Config!Next]_(Config!vars)
           /\ part = "host" => [Host!Next]_(Host!vars)
           /\ part = "ledger" => [Facts!Next]_(Facts!vars)
           /\ part = "checks" => [Checks!Next]_(Checks!vars)
           /\ part = "pairs" => [Pairs!Next]_(Pairs!vars)
           /\ part = "plans" => [Plans!Next]_(Plans!vars)
           /\ part = "skills" => [Skill!Next]_(Skill!vars)
           /\ part = "settled" => [Settled!Next]_(Settled!vars)
<1>1. CASE Next
  BY <1>1 DEF Next, Of
<1>2. CASE UNCHANGED vars
  <2>1. UNCHANGED <<part, call, done, file, made, row, scene, edits>>
    BY <1>2 DEF vars
  <2>2. /\ UNCHANGED settingsOwn /\ UNCHANGED hostOwn /\ UNCHANGED ledgerOwn /\ UNCHANGED checksOwn
        /\ UNCHANGED pairsOwn /\ UNCHANGED plansOwn /\ UNCHANGED skillsOwn /\ UNCHANGED settledOwn
    BY <1>2 DEF vars
  <2>3. UNCHANGED Config!vars /\ UNCHANGED Host!vars /\ UNCHANGED Facts!vars /\ UNCHANGED Checks!vars
    BY <2>1, <2>2 DEF Config!vars, Host!vars, Facts!vars, Checks!vars,
           settingsOwn, hostOwn, ledgerOwn, checksOwn
  <2>4. UNCHANGED Pairs!vars /\ UNCHANGED Plans!vars /\ UNCHANGED Skill!vars /\ UNCHANGED Settled!vars
    BY <2>1, <2>2 DEF Pairs!vars, Plans!vars, Skill!vars, Settled!vars,
           pairsOwn, plansOwn, skillsOwn, settledOwn
  <2> QED BY <2>1, <2>3, <2>4
<1> QED BY <1>1, <1>2

(* The parts count as FiniteSets does.                                         *)
LEMMA CountsAgree ==
    \A S : Checks!Cardinality(S) = Cardinality(S) /\ Pairs!Cardinality(S) = Cardinality(S)
BY DEF Checks!Cardinality, Pairs!Cardinality, Cardinality

-----------------------------------------------------------------------------
(* Settings. A patch under way knows what each key was and which of them it    *)
(* has stored (SettingsPatching), so that taking back what it did is exact;    *)
(* one is under way at a time, and a load says of each key where it is.        *)

SettingsVals == NewKeys \cup OldKeys \cup {Config!None}
SettingsCfgs == [pref : Config!Prefs, account : Config!Accounts]
SettingsFiles == [plain : [KeyNames -> SettingsVals], pref : Config!Prefs, account : Config!Accounts]
SettingsChanges == [at : {"keys", "undo", "memory"}, patch : Config!Patches, i : Nat, clear : BOOLEAN,
                    next : SettingsCfgs, legacy : [KeyNames -> SettingsVals],
                                                   prior : UNION {[1 .. n -> SettingsVals] : n \in 0 .. 2},
                    before : [KeyNames -> SettingsVals] \X SettingsFiles \X SettingsCfgs \X [KeyNames -> SettingsVals], clean : BOOLEAN]

SettingsTypes ==
    /\ backend \in BOOLEAN /\ secrets \in [KeyNames -> SettingsVals]
    /\ file \in SettingsFiles /\ cfg \in SettingsCfgs /\ notice \in [KeyNames -> SettingsVals]
    /\ up \in {"down", "loading", "up"}
    /\ load \in [todo : SUBSET KeyNames, moved : SUBSET KeyNames]
    /\ call \in [Windows -> {Config!NoCall} \cup SettingsChanges]
    /\ owned \in [KeyNames -> SUBSET SettingsVals]

SettingsAlone ==
    /\ \A c, d \in Windows : call[c] # Config!NoCall /\ call[d] # Config!NoCall => c = d
    /\ up # "up" => Config!Free

SettingsOwning ==
    /\ Config!KeyHeld
    /\ \A n \in KeyNames : file.plain[n] \in owned[n] \cup {Config!None}
    /\ ~backend => secrets = Config!NoKeys

SettingsLoading ==
    up = "loading" =>
        /\ cfg = [pref |-> file.pref, account |-> file.account]
        /\ \A n \in KeyNames :
            /\ n \in load.todo => file.plain[n] # Config!None /\ n \notin load.moved
            /\ n \in load.moved => secrets[n] = file.plain[n] /\ file.plain[n] # Config!None
                /\ notice[n] = Config!None
            /\ n \notin load.todo \cup load.moved => notice[n] = file.plain[n]
            /\ n \in load.todo => notice[n] = Config!None

SettingsInForce == up = "up" /\ Config!Free => file = Config!Saved(cfg, notice)

SettingsName(c, j) == call[c].patch[j].name
SettingsKey(c, j) == call[c].patch[j].key
SettingsStored(c, j) ==
    /\ SettingsKey(c, j) \in owned[SettingsName(c, j)]
    /\ secrets[SettingsName(c, j)] = SettingsKey(c, j) \/ SettingsKey(c, j) = Config!None
SettingsAsBefore(c, j) == secrets[SettingsName(c, j)] = call[c].prior[j]

SettingsUntouched(c) ==
    /\ file = Config!Saved(cfg, notice)
    /\ call[c].before[2] = file /\ call[c].before[3] = cfg /\ call[c].before[4] = notice
    /\ \A n \in KeyNames \ Config!Pending(call[c].patch) : secrets[n] = call[c].before[1][n]
    /\ \A j \in DOMAIN call[c].patch :
        owned[SettingsName(c, j)] \cap {Config!None, call[c].prior[j], file.plain[SettingsName(c, j)]} # {}

SettingsPatching(c) ==
    LET r == call[c] IN
    r # Config!NoCall =>
        /\ r.legacy = Config!Remaining(r.patch, r.clear)
        /\ \A j \in DOMAIN r.patch : r.prior[j] = r.before[1][SettingsName(c, j)]
        /\ ~backend => r.before[1] = Config!NoKeys
        /\ r.at \in {"keys", "undo"} => SettingsUntouched(c)
        /\ r.at = "keys" =>
            /\ r.i \in 1 .. Len(r.patch) + 1
            /\ \A j \in DOMAIN r.patch : IF j < r.i THEN SettingsStored(c, j) ELSE SettingsAsBefore(c, j)
        /\ r.at = "undo" =>
            /\ r.i \in 0 .. Len(r.patch)
            /\ r.clean => \A j \in DOMAIN r.patch : j > r.i => SettingsAsBefore(c, j)
        /\ r.at = "memory" => file = Config!Saved(r.next, r.legacy)
            /\ \A j \in DOMAIN r.patch : SettingsStored(c, j)

SettingsInv == SettingsTypes /\ SettingsAlone /\ SettingsOwning /\ SettingsLoading /\ SettingsInForce
      /\ \A c \in Windows : SettingsPatching(c)
LEMMA SettingsPatchFacts ==
    ASSUME NEW patch \in Config!Patches
    PROVE  /\ Len(patch) \in 0 .. 2 /\ DOMAIN patch = 1 .. Len(patch)
           /\ \A j \in DOMAIN patch : patch[j].name \in KeyNames /\ patch[j].key \in NewKeys \cup {Config!None}
           /\ \A j, k \in DOMAIN patch : patch[j].name = patch[k].name => j = k
<1> DEFINE Known(s) ==
        /\ Len(s) \in 0 .. 2 /\ DOMAIN s = 1 .. Len(s)
        /\ \A j \in DOMAIN s : s[j].name \in KeyNames /\ s[j].key \in NewKeys \cup {Config!None}
        /\ \A j, k \in DOMAIN s : s[j].name = s[k].name => j = k
<1>1. Known(<<>>)
  OBVIOUS
<1>2. ASSUME NEW n \in KeyNames, NEW k \in NewKeys \cup {Config!None}
      PROVE  Known(<<[name |-> n, key |-> k]>>)
  OBVIOUS
<1>3. ASSUME NEW m \in KeyNames, NEW n \in KeyNames, m # n,
             NEW k \in NewKeys \cup {Config!None}, NEW l \in NewKeys \cup {Config!None}
      PROVE  Known(<<[name |-> m, key |-> k], [name |-> n, key |-> l]>>)
  BY <1>3
<1> HIDE DEF Known
<1>4. Known(patch)
  BY <1>1, <1>2, <1>3 DEF Config!Patches
<1> QED BY <1>4 DEF Known

LEMMA SettingsStarts == ASSUME Config!Init PROVE SettingsInv
<1>1. PICK plain \in [KeyNames -> OldKeys \cup {Config!None}] :
        file = [plain |-> plain, pref |-> "light", account |-> Config!None]
              /\ owned = [n \in KeyNames |-> {plain[n]}]
  BY DEF Config!Init
<1>2. SettingsTypes
  BY <1>1 DEF Config!Init, SettingsTypes, Config!NoKeys, Config!NoLoad, Config!NoCall, SettingsFiles,
     SettingsCfgs, SettingsVals, Config!Prefs, Config!Accounts
<1>3. SettingsAlone /\ SettingsInForce /\ SettingsLoading /\ \A c \in Windows : SettingsPatching(c)
  BY DEF Config!Init, SettingsAlone, Config!Free, SettingsInForce, SettingsLoading, SettingsPatching
<1>4. SettingsOwning
  BY <1>1 DEF Config!Init, SettingsOwning, Config!KeyHeld
<1> QED BY <1>2, <1>3, <1>4 DEF SettingsInv

\* With nobody patching, what is said of patches holds by itself.
LEMMA SettingsNobodyPatches == ASSUME Config!Free PROVE \A c \in Windows : SettingsPatching(c)
  BY DEF Config!Free, SettingsPatching

LEMMA SettingsLoadKeeps == ASSUME SettingsInv, Config!Load PROVE SettingsInv'
<1> USE DEF SettingsInv
<1>1. Config!Free /\ Config!Free'
  BY DEF Config!Load, SettingsAlone, Config!Free
<1>2. SettingsTypes'
  BY DEF Config!Load, SettingsTypes, Config!NoKeys, SettingsFiles, SettingsCfgs, SettingsVals
<1>3. SettingsAlone' /\ SettingsInForce'
  BY <1>1 DEF Config!Load, SettingsAlone, SettingsInForce, Config!Free
<1>4. SettingsOwning'
  BY DEF Config!Load, SettingsOwning, Config!KeyHeld
<1>5. SettingsLoading'
  BY DEF Config!Load, SettingsLoading, Config!NoKeys, SettingsTypes
<1>6. \A c \in Windows : SettingsPatching(c)'
  BY <1>1, SettingsNobodyPatches DEF Config!Load, Config!Free, SettingsPatching
<1> QED BY <1>2, <1>3, <1>4, <1>5, <1>6

LEMMA SettingsMigrateKeeps == ASSUME SettingsInv, NEW n \in KeyNames, Config!Migrate(n) PROVE SettingsInv'
<1> USE DEF SettingsInv
<1>1. Config!Free /\ Config!Free' /\ up = "loading" /\ n \in load.todo /\ up' = up
  BY DEF Config!Migrate, SettingsAlone, Config!Free
<1>2. file.plain[n] \in SettingsVals /\ file.plain[n] # Config!None /\ n \notin load.moved
  BY <1>1 DEF SettingsTypes, SettingsFiles, SettingsLoading
<1>3. /\ secrets' \in {secrets, [secrets EXCEPT ![n] = file.plain[n]]}
      /\ ~backend => secrets' = secrets
  BY DEF Config!Migrate, Config!Stores, Config!StoreFails
<1>4. SettingsTypes'
  <2>1. load' \in [todo : SUBSET KeyNames, moved : SUBSET KeyNames]
    BY DEF Config!Migrate, SettingsTypes
  <2>2. notice' \in [KeyNames -> SettingsVals]
    BY <1>2 DEF Config!Migrate, SettingsTypes
  <2>3. secrets' \in [KeyNames -> SettingsVals]
    BY <1>2, <1>3 DEF SettingsTypes
  <2> QED BY <2>1, <2>2, <2>3 DEF Config!Migrate, SettingsTypes
<1>5. SettingsAlone' /\ SettingsInForce'
  BY <1>1 DEF Config!Migrate, SettingsAlone, SettingsInForce, Config!Free
<1>6. SettingsOwning'
  BY <1>2, <1>3 DEF Config!Migrate, SettingsOwning, Config!KeyHeld, SettingsTypes
<1>7. SettingsLoading'
  <2>1. CASE Config!Stores(n, file.plain[n]) /\ UNCHANGED notice
        /\ load' = [todo |-> load.todo \ {n}, moved |-> load.moved \cup {n}]
    <3>1. backend /\ secrets' = [secrets EXCEPT ![n] = file.plain[n]]
      BY <2>1, <1>2 DEF Config!Stores
    <3> QED BY <2>1, <3>1, <1>1, <1>2 DEF Config!Migrate, SettingsLoading, SettingsTypes
  <2>2. CASE /\ Config!StoreFails(n, file.plain[n])
             /\ notice' = [notice EXCEPT ![n] = file.plain[n]]
             /\ load' = [load EXCEPT !.todo = @ \ {n}]
    BY <2>2, <1>1, <1>2, <1>3 DEF Config!Migrate, SettingsLoading, SettingsTypes
  <2> QED BY <2>1, <2>2 DEF Config!Migrate
<1>8. \A c \in Windows : SettingsPatching(c)'
  BY <1>1 DEF Config!Free, SettingsPatching
<1> QED BY <1>4, <1>5, <1>6, <1>7, <1>8

LEMMA SettingsLoadedKeeps == ASSUME SettingsInv, Config!Loaded PROVE SettingsInv'
<1> USE DEF SettingsInv
<1>1. Config!Free /\ Config!Free' /\ up = "loading" /\ load.todo = {}
  BY DEF Config!Loaded, SettingsAlone, Config!Free
<1>2. SettingsTypes'
  BY DEF Config!Loaded, SettingsTypes, Config!NoLoad, Config!Saved, SettingsFiles, SettingsCfgs
<1>3. SettingsAlone'
  BY <1>1 DEF Config!Loaded, SettingsAlone, Config!Free
<1>4. load.moved = {} => file = Config!Saved(cfg, notice)
  <2> SUFFICES ASSUME load.moved = {} PROVE file = Config!Saved(cfg, notice)
    OBVIOUS
  <2>1. \A n \in KeyNames : notice[n] = file.plain[n]
    BY <1>1 DEF SettingsLoading
  <2>2. notice = file.plain
    BY <2>1 DEF SettingsTypes, SettingsFiles
  <2> QED BY <2>2, <1>1 DEF SettingsLoading, Config!Saved, SettingsTypes, SettingsFiles, SettingsCfgs
<1>5. SettingsInForce' /\ SettingsLoading'
  BY <1>1, <1>4 DEF Config!Loaded, SettingsInForce, SettingsLoading, Config!Saved, Config!Free
<1>6. SettingsOwning'
  <2>1. CASE file' = file
    BY <2>1 DEF Config!Loaded, SettingsOwning, Config!KeyHeld
  <2>2. CASE file' = Config!Saved(cfg, notice)
    <3>1. ASSUME NEW n \in KeyNames
          PROVE  /\ owned[n] \cap {Config!None, secrets[n], notice[n]} # {}
                 /\ notice[n] \in owned[n] \cup {Config!None}
      BY <1>1 DEF SettingsLoading, SettingsOwning, Config!KeyHeld
    <3> QED BY <2>2, <3>1 DEF Config!Loaded, SettingsOwning, Config!KeyHeld, Config!Saved
  <2> QED BY <2>1, <2>2 DEF Config!Loaded
<1>7. \A c \in Windows : SettingsPatching(c)'
  BY <1>1 DEF Config!Free, SettingsPatching
<1> QED BY <1>2, <1>3, <1>5, <1>6, <1>7

\* A patch begins with what there is.
LEMMA SettingsBeginKeeps ==
    ASSUME SettingsInv, NEW c \in Windows, NEW patch \in Config!Patches, NEW next \in SettingsCfgs,
           NEW clear \in BOOLEAN,
           up = "up", Config!Free,
           call' = [call EXCEPT ![c] =
            [at |-> "keys", patch |-> patch, i |-> 1, clear |-> clear,
             next |-> next, legacy |-> Config!Remaining(patch, clear),
             prior |-> [i \in DOMAIN patch |-> secrets[patch[i].name]],
             before |-> <<secrets, file, cfg, notice>>, clean |-> TRUE]],
           UNCHANGED <<backend, secrets, file, cfg, notice, up, load, owned>>
    PROVE  SettingsInv'
<1> USE DEF SettingsInv
<1>1. /\ Len(patch) \in 0 .. 2 /\ DOMAIN patch = 1 .. Len(patch)
      /\ \A j \in DOMAIN patch : patch[j].name \in KeyNames
  BY SettingsPatchFacts
<1> DEFINE new == [at |-> "keys", patch |-> patch, i |-> 1, clear |-> clear,
             next |-> next, legacy |-> Config!Remaining(patch, clear),
             prior |-> [i \in DOMAIN patch |-> secrets[patch[i].name]],
             before |-> <<secrets, file, cfg, notice>>, clean |-> TRUE]
<1>2. new \in SettingsChanges
  <2>1. Config!Remaining(patch, clear) \in [KeyNames -> SettingsVals]
    BY DEF Config!Remaining, SettingsTypes, SettingsVals
  <2>2. [i \in DOMAIN patch |-> secrets[patch[i].name]] \in [1 .. Len(patch) -> SettingsVals]
    BY <1>1 DEF SettingsTypes
  <2>3. [i \in DOMAIN patch |-> secrets[patch[i].name]] \in UNION {[1 .. n -> SettingsVals] : n \in 0 .. 2}
    BY <1>1, <2>2
  <2>4. <<secrets, file, cfg, notice>> \in [KeyNames -> SettingsVals] \X SettingsFiles \X SettingsCfgs \X [KeyNames -> SettingsVals]
    BY DEF SettingsTypes
  <2> QED BY <2>1, <2>3, <2>4 DEF SettingsChanges
<1>3. /\ call'[c] = new /\ \A d \in Windows \ {c} : call'[d] = Config!NoCall
      /\ call' \in [Windows -> {Config!NoCall} \cup SettingsChanges]
  BY <1>2 DEF SettingsTypes, Config!Free
<1>4. SettingsTypes'
  BY <1>3 DEF SettingsTypes
<1>5. SettingsAlone' /\ SettingsLoading'
  BY <1>3 DEF SettingsAlone, SettingsLoading
<1>6. SettingsOwning'
  BY DEF SettingsOwning, Config!KeyHeld
<1>7. new # Config!NoCall
  BY DEF Config!NoCall
<1>8. SettingsInForce'
  BY <1>3, <1>7 DEF SettingsInForce, Config!Free
<1>9. ASSUME NEW d \in Windows PROVE SettingsPatching(d)'
  <2>1. CASE d # c
    BY <2>1, <1>3 DEF SettingsPatching
  <2>2. CASE d = c
    <3>1. SettingsUntouched(c)'
      <4>1. file = Config!Saved(cfg, notice)
        BY DEF SettingsInForce
      <4>2. \A j \in DOMAIN patch :
               owned[patch[j].name] \cap {Config!None, secrets[patch[j].name], file.plain[patch[j].name]} # {}
        BY <1>1 DEF SettingsOwning, Config!KeyHeld
      <4> QED BY <1>3, <4>1, <4>2 DEF SettingsUntouched, Config!Saved, SettingsName
    <3>2. Config!Remaining(patch, clear)' = Config!Remaining(patch, clear)
      BY DEF Config!Remaining
    <3>3. \A j \in DOMAIN patch : new.prior[j] = secrets[patch[j].name]
      OBVIOUS
    <3> QED BY <2>2, <1>1, <1>3, <3>1, <3>2, <3>3
               DEF SettingsPatching, SettingsName, SettingsAsBefore, SettingsOwning
  <2> QED BY <2>1, <2>2
<1> QED BY <1>4, <1>5, <1>6, <1>8, <1>9

LEMMA SettingsSetKeeps ==
    ASSUME SettingsInv, NEW c \in Windows, NEW patch \in Config!Patches, NEW pref \in Config!Prefs,
           NEW clear \in BOOLEAN,
           Config!Set(c, patch, pref, clear)
    PROVE  SettingsInv'
<1>1. [cfg EXCEPT !.pref = pref] \in SettingsCfgs
  BY DEF SettingsInv, SettingsTypes, SettingsCfgs
<1> QED BY <1>1, SettingsBeginKeeps DEF Config!Set

LEMMA SettingsSetPublishAccountKeeps ==
    ASSUME SettingsInv, NEW c \in Windows, NEW account \in Config!Accounts, Config!SetPublishAccount(c, account)
    PROVE  SettingsInv'
<1>1. [cfg EXCEPT !.account = account] \in SettingsCfgs
  BY DEF SettingsInv, SettingsTypes, SettingsCfgs
<1>2. <<>> \in Config!Patches
  BY DEF Config!Patches
<1>3. Config!Remaining(<<>>, FALSE) = notice
  BY DEF Config!Remaining, Config!Pending, SettingsInv, SettingsTypes
<1>4. [i \in DOMAIN <<>> |-> secrets[<<>>[i].name]] = <<>>
  OBVIOUS
<1> QED BY <1>1, <1>2, <1>3, <1>4, SettingsBeginKeeps DEF Config!SetPublishAccount

\* What any step of a patch of c may rest on.
LEMMA SettingsPatchOf ==
    ASSUME SettingsInv, NEW c \in Windows, call[c] # Config!NoCall
    PROVE  /\ call[c] \in SettingsChanges
           /\ Len(call[c].patch) \in 0 .. 2 /\ DOMAIN call[c].patch = 1 .. Len(call[c].patch)
           /\ \A j \in DOMAIN call[c].patch : SettingsName(c, j) \in KeyNames
               /\ SettingsKey(c, j) \in SettingsVals
           /\ \A j, k \in DOMAIN call[c].patch : SettingsName(c, j) = SettingsName(c, k) => j = k
           /\ \A j \in DOMAIN call[c].patch : call[c].prior[j] \in SettingsVals
           /\ \A d \in Windows \ {c} : call[d] = Config!NoCall
           /\ up = "up"
<1> USE DEF SettingsInv
<1>1. call[c] \in SettingsChanges
  BY DEF SettingsTypes
<1>2. call[c].patch \in Config!Patches /\ call[c].before[1] \in [KeyNames -> SettingsVals]
  BY <1>1 DEF SettingsChanges
<1>3. /\ Len(call[c].patch) \in 0 .. 2 /\ DOMAIN call[c].patch = 1 .. Len(call[c].patch)
      /\ \A j \in DOMAIN call[c].patch : SettingsName(c, j) \in KeyNames /\ SettingsKey(c, j) \in SettingsVals
      /\ \A j, k \in DOMAIN call[c].patch : SettingsName(c, j) = SettingsName(c, k) => j = k
  BY <1>2, SettingsPatchFacts DEF SettingsName, SettingsKey, SettingsVals
<1>4. \A j \in DOMAIN call[c].patch : call[c].prior[j] \in SettingsVals
  BY <1>2, <1>3 DEF SettingsPatching
<1> QED BY <1>1, <1>3, <1>4 DEF SettingsAlone, Config!Free

\* While one patch goes on, what is said of the others holds by itself.
LEMMA SettingsOneGoesOn ==
    ASSUME SettingsInv, NEW c \in Windows, call[c] # Config!NoCall, NEW r \in SettingsChanges,
           call' = [call EXCEPT ![c] = r], UNCHANGED up
    PROVE  /\ call' \in [Windows -> {Config!NoCall} \cup SettingsChanges] /\ call'[c] = r
           /\ SettingsAlone' /\ SettingsInForce' /\ SettingsLoading'
           /\ \A d \in Windows \ {c} : SettingsPatching(d)'
<1> USE DEF SettingsInv
<1>1. r # Config!NoCall
  BY DEF SettingsChanges, Config!NoCall
<1>2. up = "up" /\ \A d \in Windows \ {c} : call[d] = Config!NoCall
  BY SettingsPatchOf
<1>3. /\ call' \in [Windows -> {Config!NoCall} \cup SettingsChanges] /\ call'[c] = r
      /\ \A d \in Windows \ {c} : call'[d] = Config!NoCall
  BY <1>2 DEF SettingsTypes
<1>4. ~Config!Free'
  BY <1>1, <1>3 DEF Config!Free
<1> QED BY <1>2, <1>3, <1>4 DEF SettingsAlone, SettingsInForce, SettingsLoading, SettingsPatching

LEMMA SettingsStillChange ==
    ASSUME NEW r \in SettingsChanges, NEW i \in Nat
    PROVE  /\ [r EXCEPT !.i = i] \in SettingsChanges
           /\ [r EXCEPT !.at = "undo", !.i = i] \in SettingsChanges
           /\ [r EXCEPT !.i = i, !.clean = FALSE] \in SettingsChanges
           /\ [r EXCEPT !.at = "memory"] \in SettingsChanges
  BY DEF SettingsChanges

LEMMA SettingsWriteKeyKeeps == ASSUME SettingsInv, NEW c \in Windows, Config!WriteKey(c) PROVE SettingsInv'
<1> USE DEF SettingsInv
<1> DEFINE r == call[c]  i == r.i  n == SettingsName(c, i)  k == SettingsKey(c, i)
<1>1. r.at = "keys" /\ ~(i > Len(r.patch)) /\ r # Config!NoCall
  BY DEF Config!WriteKey, Config!KeysDone, Config!NoCall
<1>2. /\ r \in SettingsChanges /\ Len(r.patch) \in 0 .. 2 /\ DOMAIN r.patch = 1 .. Len(r.patch)
      /\ \A j \in DOMAIN r.patch : SettingsName(c, j) \in KeyNames /\ SettingsKey(c, j) \in SettingsVals
      /\ \A j, l \in DOMAIN r.patch : SettingsName(c, j) = SettingsName(c, l) => j = l
      /\ up = "up"
  BY <1>1, SettingsPatchOf
<1>3. i \in DOMAIN r.patch /\ n \in KeyNames /\ k \in SettingsVals
  BY <1>1, <1>2 DEF SettingsPatching, SettingsChanges
<1>4. /\ owned' = [owned EXCEPT ![n] = @ \cup {k}]
      /\ UNCHANGED <<backend, file, cfg, notice, up, load>>
      /\ \/ Config!Stores(n, k) /\ call' = [call EXCEPT ![c].i = @ + 1]
         \/ /\ Config!StoreFails(n, k)
            /\ call' = [call EXCEPT ![c].at = "undo", ![c].i = Config!ToRestore(c)]
  BY DEF Config!WriteKey, SettingsName, SettingsKey
<1>5. /\ secrets' \in {secrets, [secrets EXCEPT ![n] = k]}
      /\ ~backend => secrets' = secrets
  BY <1>4 DEF Config!Stores, Config!StoreFails
<1> DEFINE next == [r EXCEPT !.i = i + 1]
           back == [r EXCEPT !.at = "undo", !.i = i]
<1>6. next \in SettingsChanges /\ back \in SettingsChanges
  <2>1. i \in Nat /\ i + 1 \in Nat
    BY <1>2 DEF SettingsChanges
  <2> QED BY <1>2, <2>1, SettingsStillChange
<1>7. \/ Config!Stores(n, k) /\ call' = [call EXCEPT ![c] = next]
      \/ Config!StoreFails(n, k) /\ call' = [call EXCEPT ![c] = back]
  BY <1>4 DEF Config!ToRestore, SettingsTypes
<1>8. /\ call' \in [Windows -> {Config!NoCall} \cup SettingsChanges] /\ SettingsAlone' /\ SettingsInForce'
          /\ SettingsLoading'
      /\ \A d \in Windows \ {c} : SettingsPatching(d)'
      /\ \/ Config!Stores(n, k) /\ call'[c] = next
         \/ Config!StoreFails(n, k) /\ call'[c] = back
  BY <1>1, <1>2, <1>4, <1>6, <1>7, SettingsOneGoesOn
<1>9. SettingsTypes'
  BY <1>3, <1>4, <1>5, <1>8 DEF SettingsTypes
<1>10. SettingsOwning'
  <2>1. ASSUME NEW m \in KeyNames PROVE owned'[m] \cap {Config!None, secrets'[m], file.plain[m]} # {}
    <3>1. CASE m # n
      BY <3>1, <1>3, <1>4, <1>5 DEF SettingsOwning, Config!KeyHeld, SettingsTypes
    <3>2. CASE m = n
      <4>1. owned'[n] = owned[n] \cup {k}
        BY <1>3, <1>4 DEF SettingsTypes
      <4>2. secrets'[n] \in {secrets[n], k}
        BY <1>3, <1>5 DEF SettingsTypes
      <4> QED BY <3>2, <4>1, <4>2, <1>3 DEF SettingsOwning, Config!KeyHeld
    <3> QED BY <3>1, <3>2
  <2>2. \A m \in KeyNames : file.plain[m] \in owned'[m] \cup {Config!None}
    BY <1>3, <1>4 DEF SettingsOwning, SettingsTypes
  <2> QED BY <2>1, <2>2, <1>4, <1>5 DEF SettingsOwning, Config!KeyHeld
<1>11. /\ call'[c].patch = r.patch /\ call'[c].legacy = r.legacy /\ call'[c].prior = r.prior
       /\ call'[c].before = r.before /\ call'[c].clear = r.clear /\ call'[c].next = r.next
  BY <1>2, <1>8 DEF SettingsChanges
<1>12. SettingsUntouched(c)'
  <2>1. \A m \in KeyNames \ Config!Pending(r.patch) : secrets'[m] = secrets[m]
    BY <1>3, <1>5 DEF SettingsTypes, Config!Pending, SettingsName
  <2>2. \A j \in DOMAIN r.patch : owned[SettingsName(c, j)] \subseteq owned'[SettingsName(c, j)]
    BY <1>2, <1>3, <1>4 DEF SettingsTypes
  <2>3. SettingsUntouched(c)
    BY <1>1 DEF SettingsPatching
  <2> QED BY <2>1, <2>2, <2>3, <1>4, <1>11 DEF SettingsUntouched, SettingsName, Config!Saved
<1>13. SettingsPatching(c)'
  <2>1. Config!Remaining(r.patch, r.clear)' = Config!Remaining(r.patch, r.clear)
    BY <1>4, <1>11 DEF Config!Remaining
  <2>2. \A j \in DOMAIN r.patch : j # i => secrets'[SettingsName(c, j)] = secrets[SettingsName(c, j)]
        /\ owned'[SettingsName(c, j)] = owned[SettingsName(c, j)]
    BY <1>2, <1>3, <1>4, <1>5 DEF SettingsTypes
  <2>3. CASE Config!Stores(n, k) /\ call'[c] = next
    <3>1. secrets'[n] = k \/ k = Config!None
      BY <2>3, <1>3 DEF Config!Stores, SettingsTypes
    <3>2. k \in owned'[n]
      BY <1>3, <1>4 DEF SettingsTypes
    <3>3. call'[c].i = i + 1 /\ call'[c].at = "keys"
      BY <2>3, <1>1, <1>2 DEF SettingsChanges
    <3>4. \A j \in DOMAIN r.patch : IF j < i + 1 THEN SettingsStored(c, j)' ELSE SettingsAsBefore(c, j)'
      <4> SUFFICES ASSUME NEW j \in DOMAIN r.patch
                   PROVE  IF j < i + 1 THEN SettingsStored(c, j)' ELSE SettingsAsBefore(c, j)'
        OBVIOUS
      <4>1. SettingsName(c, j)' = SettingsName(c, j) /\ SettingsKey(c, j)' = SettingsKey(c, j)
        BY <1>11 DEF SettingsName, SettingsKey
      <4>2. i \in Nat /\ j \in Nat
        BY <1>2, <1>3
      <4>3. CASE j = i
        BY <4>1, <4>2, <4>3, <3>1, <3>2 DEF SettingsStored
      <4>4. CASE j # i
        <5>1. IF j < i THEN SettingsStored(c, j) ELSE SettingsAsBefore(c, j)
          BY <1>1 DEF SettingsPatching
        <5>2. SettingsStored(c, j) => SettingsStored(c, j)'
          BY <4>1, <4>4, <2>2 DEF SettingsStored
        <5>3. SettingsAsBefore(c, j) => SettingsAsBefore(c, j)'
          BY <4>1, <4>4, <2>2, <1>11 DEF SettingsAsBefore
        <5> QED BY <4>2, <4>4, <5>1, <5>2, <5>3
      <4> QED BY <4>3, <4>4
    <3>5. i + 1 \in 1 .. Len(r.patch) + 1
      BY <1>2, <1>3
    <3> QED BY <3>3, <3>4, <3>5, <2>1, <1>1, <1>4, <1>11, <1>12 DEF SettingsPatching, SettingsName
  <2>4. CASE Config!StoreFails(n, k) /\ call'[c] = back
    <3>1. call'[c].i = i /\ call'[c].at = "undo"
      BY <2>4, <1>2 DEF SettingsChanges
    <3>2. \A j \in DOMAIN r.patch : j > i => SettingsAsBefore(c, j)'
      BY <2>2, <1>1, <1>2, <1>3, <1>11 DEF SettingsAsBefore, SettingsName, SettingsPatching
    <3>3. i \in 0 .. Len(r.patch)
      BY <1>2, <1>3
    <3> QED BY <3>1, <3>2, <3>3, <2>1, <1>1, <1>4, <1>11, <1>12 DEF SettingsPatching, SettingsName
  <2> QED BY <2>3, <2>4, <1>8
<1> QED BY <1>8, <1>9, <1>10, <1>13

LEMMA SettingsUndoKeeps == ASSUME SettingsInv, NEW c \in Windows, Config!Undo(c) PROVE SettingsInv'
<1> USE DEF SettingsInv
<1> DEFINE r == call[c]  i == r.i  n == SettingsName(c, i)  k == r.prior[i]
<1>1. r.at = "undo" /\ i > 0 /\ r # Config!NoCall
  BY DEF Config!Undo, Config!NoCall
<1>2. /\ r \in SettingsChanges /\ Len(r.patch) \in 0 .. 2 /\ DOMAIN r.patch = 1 .. Len(r.patch)
      /\ \A j \in DOMAIN r.patch : SettingsName(c, j) \in KeyNames /\ r.prior[j] \in SettingsVals
      /\ \A j, l \in DOMAIN r.patch : SettingsName(c, j) = SettingsName(c, l) => j = l
      /\ up = "up"
  BY <1>1, SettingsPatchOf
<1>3. i \in DOMAIN r.patch /\ n \in KeyNames /\ k \in SettingsVals
  BY <1>1, <1>2 DEF SettingsPatching, SettingsChanges
<1> DEFINE kept == [r EXCEPT !.i = i - 1]
           lost == [r EXCEPT !.i = i - 1, !.clean = FALSE]
<1>4. /\ UNCHANGED <<backend, file, cfg, notice, up, load, owned>>
      /\ \/ Config!Stores(n, k) /\ call' = [call EXCEPT ![c] = kept]
         \/ Config!StoreFails(n, k) /\ call' = [call EXCEPT ![c] = lost]
  BY DEF Config!Undo, SettingsName
<1>5. /\ secrets' \in {secrets, [secrets EXCEPT ![n] = k]}
      /\ ~backend => secrets' = secrets
  BY <1>4 DEF Config!Stores, Config!StoreFails
<1>6. kept \in SettingsChanges /\ lost \in SettingsChanges
  <2>1. i - 1 \in Nat
    BY <1>1, <1>2 DEF SettingsChanges
  <2> QED BY <1>2, <2>1, SettingsStillChange
<1>8. /\ call' \in [Windows -> {Config!NoCall} \cup SettingsChanges] /\ SettingsAlone' /\ SettingsInForce'
          /\ SettingsLoading'
      /\ \A d \in Windows \ {c} : SettingsPatching(d)'
      /\ \/ Config!Stores(n, k) /\ call'[c] = kept
         \/ Config!StoreFails(n, k) /\ call'[c] = lost
  BY <1>1, <1>2, <1>4, <1>6, SettingsOneGoesOn
<1>9. SettingsTypes'
  BY <1>3, <1>4, <1>5, <1>8 DEF SettingsTypes
<1>10. SettingsUntouched(c)
  BY <1>1 DEF SettingsPatching
<1>11. SettingsOwning'
  <2>1. ASSUME NEW m \in KeyNames PROVE owned[m] \cap {Config!None, secrets'[m], file.plain[m]} # {}
    <3>1. CASE m # n
      BY <3>1, <1>3, <1>5 DEF SettingsOwning, Config!KeyHeld, SettingsTypes
    <3>2. CASE m = n
      <4>1. owned[n] \cap {Config!None, k, file.plain[n]} # {}
        BY <1>3, <1>10 DEF SettingsUntouched, SettingsName
      <4>2. owned[n] \cap {Config!None, secrets[n], file.plain[n]} # {}
        BY <1>3 DEF SettingsOwning, Config!KeyHeld
      <4>3. secrets'[n] \in {secrets[n], k}
        BY <1>3, <1>5 DEF SettingsTypes
      <4> QED BY <3>2, <4>1, <4>2, <4>3
    <3> QED BY <3>1, <3>2
  <2> QED BY <2>1, <1>4, <1>5 DEF SettingsOwning, Config!KeyHeld
<1>12. /\ call'[c].patch = r.patch /\ call'[c].legacy = r.legacy /\ call'[c].prior = r.prior
       /\ call'[c].before = r.before /\ call'[c].clear = r.clear /\ call'[c].at = "undo"
       /\ call'[c].i = i - 1
       /\ \/ Config!Stores(n, k) /\ call'[c].clean = r.clean
          \/ Config!StoreFails(n, k) /\ call'[c].clean = FALSE
  BY <1>1, <1>2, <1>8 DEF SettingsChanges
<1>13. SettingsUntouched(c)'
  <2>1. \A m \in KeyNames \ Config!Pending(r.patch) : secrets'[m] = secrets[m]
    BY <1>3, <1>5 DEF SettingsTypes, Config!Pending, SettingsName
  <2> QED BY <2>1, <1>4, <1>10, <1>12 DEF SettingsUntouched, SettingsName, Config!Saved
<1>14. i - 1 \in 0 .. Len(r.patch)
  BY <1>2, <1>3
<1>15. ASSUME call'[c].clean, NEW j \in DOMAIN r.patch, j > i - 1 PROVE SettingsAsBefore(c, j)'
  <2>1. Config!Stores(n, k) /\ r.clean
    BY <1>12, <1>15
  <2>2. CASE j = i
    <3>1. backend => secrets'[n] = k
      BY <2>1, <1>3 DEF Config!Stores, SettingsTypes
    <3>2. ~backend => secrets'[n] = Config!None /\ k = Config!None
      BY <1>3, <1>4, <1>5, <1>1 DEF SettingsOwning, Config!NoKeys, SettingsPatching
    <3> QED BY <2>2, <3>1, <3>2, <1>12 DEF SettingsAsBefore, SettingsName
  <2>3. CASE j # i
    <3>1. j > i
      BY <2>3, <1>15, <1>2, <1>3
    <3>2. SettingsAsBefore(c, j)
      BY <3>1, <2>1, <1>1, <1>15 DEF SettingsPatching
    <3>3. SettingsName(c, j) # n /\ SettingsName(c, j) \in KeyNames
      BY <2>3, <1>2, <1>3, <1>15
    <3>4. secrets'[SettingsName(c, j)] = secrets[SettingsName(c, j)]
      BY <3>3, <1>3, <1>5 DEF SettingsTypes
    <3> QED BY <3>2, <3>4, <1>12 DEF SettingsAsBefore, SettingsName
  <2> QED BY <2>2, <2>3
<1>16. SettingsPatching(c)'
  <2>1. Config!Remaining(r.patch, r.clear)' = Config!Remaining(r.patch, r.clear)
    BY <1>4, <1>12 DEF Config!Remaining
  <2> QED BY <2>1, <1>1, <1>4, <1>12, <1>13, <1>14, <1>15 DEF SettingsPatching, SettingsName
<1> QED BY <1>8, <1>9, <1>11, <1>16

\* When a patch is over nobody patches.
LEMMA SettingsOverFacts ==
    ASSUME SettingsInv, NEW c \in Windows, call[c] # Config!NoCall, call' = [call EXCEPT ![c] = Config!NoCall]
    PROVE  Config!Free' /\ call' \in [Windows -> {Config!NoCall} \cup SettingsChanges]
  BY SettingsPatchOf DEF SettingsInv, SettingsTypes, Config!Free

LEMMA SettingsRefuseKeeps == ASSUME SettingsInv, NEW c \in Windows, Config!Refuse(c) PROVE SettingsInv'
<1> USE DEF SettingsInv
<1>1. call[c].at = "undo" /\ call[c] # Config!NoCall
  BY DEF Config!Refuse, Config!NoCall
<1>2. Config!Free' /\ call' \in [Windows -> {Config!NoCall} \cup SettingsChanges]
  BY <1>1, SettingsOverFacts DEF Config!Refuse
<1>3. up = "up"
  BY <1>1, SettingsPatchOf
<1>4. file = Config!Saved(cfg, notice)
  BY <1>1 DEF SettingsPatching, SettingsUntouched
<1>5. SettingsTypes'
  BY <1>2 DEF Config!Refuse, SettingsTypes
<1>6. SettingsAlone' /\ SettingsInForce' /\ SettingsLoading'
  BY <1>2, <1>3, <1>4
     DEF Config!Refuse, SettingsAlone, SettingsInForce, SettingsLoading, Config!Saved, Config!Free
<1>7. SettingsOwning'
  BY DEF Config!Refuse, SettingsOwning, Config!KeyHeld
<1>8. \A d \in Windows : SettingsPatching(d)'
  BY <1>2 DEF Config!Free, SettingsPatching
<1> QED BY <1>5, <1>6, <1>7, <1>8

LEMMA SettingsWriteFileKeeps == ASSUME SettingsInv, NEW c \in Windows, Config!WriteFile(c) PROVE SettingsInv'
<1> USE DEF SettingsInv
<1> DEFINE r == call[c]
<1>1. r.at = "keys" /\ r.i > Len(r.patch) /\ r # Config!NoCall
  BY DEF Config!WriteFile, Config!KeysDone, Config!NoCall
<1>2. /\ r \in SettingsChanges /\ Len(r.patch) \in 0 .. 2 /\ DOMAIN r.patch = 1 .. Len(r.patch)
      /\ up = "up"
  BY <1>1, SettingsPatchOf
<1>3. /\ SettingsUntouched(c) /\ r.i = Len(r.patch) + 1
      /\ r.legacy = Config!Remaining(r.patch, r.clear)
      /\ \A j \in DOMAIN r.patch : SettingsStored(c, j)
  BY <1>1, <1>2 DEF SettingsPatching
<1>4. Config!Remaining(r.patch, r.clear) \in [KeyNames -> SettingsVals] /\ r.next \in SettingsCfgs
  BY <1>2 DEF Config!Remaining, SettingsTypes, SettingsVals, SettingsChanges
<1>5. CASE /\ file' = Config!Saved(r.next, r.legacy)
           /\ owned' = IF r.clear
                       THEN [n \in KeyNames |-> IF notice[n] # Config!None THEN owned[n] \cup {Config!None}
                             ELSE owned[n]]
                       ELSE owned
           /\ call' = [call EXCEPT ![c].at = "memory"]
           /\ UNCHANGED <<backend, secrets, cfg, notice, up, load>>
  <2> DEFINE new == [r EXCEPT !.at = "memory"]
  <2>1. new \in SettingsChanges
    BY <1>2, SettingsStillChange
  <2>2. call' = [call EXCEPT ![c] = new]
    BY <1>5
  <2>3. /\ call' \in [Windows -> {Config!NoCall} \cup SettingsChanges] /\ call'[c] = new
        /\ SettingsAlone' /\ SettingsInForce' /\ SettingsLoading'
            /\ \A d \in Windows \ {c} : SettingsPatching(d)'
    BY <1>1, <1>5, <2>1, <2>2, SettingsOneGoesOn
  <2>4. /\ call'[c].patch = r.patch /\ call'[c].legacy = r.legacy /\ call'[c].prior = r.prior
        /\ call'[c].before = r.before /\ call'[c].clear = r.clear /\ call'[c].next = r.next
        /\ call'[c].at = "memory"
    BY <1>2, <2>3 DEF SettingsChanges
  <2>5. \A n \in KeyNames : owned[n] \subseteq owned'[n]
    BY <1>5 DEF SettingsTypes
  <2>6. SettingsTypes'
    <3>1. owned' \in [KeyNames -> SUBSET SettingsVals]
      BY <1>5 DEF SettingsTypes, SettingsVals
    <3>2. file' \in SettingsFiles
      BY <1>5, <1>3, <1>4 DEF Config!Saved, SettingsFiles, SettingsCfgs
    <3> QED BY <3>1, <3>2, <1>5, <2>3 DEF SettingsTypes
  <2>7. SettingsOwning'
    <3>1. ASSUME NEW n \in KeyNames PROVE r.legacy[n] \in {Config!None, notice[n]} /\ notice[n] = file.plain[n]
      BY <1>3 DEF Config!Remaining, SettingsUntouched, Config!Saved
    <3>2. ASSUME NEW n \in KeyNames PROVE owned'[n] \cap {Config!None, secrets[n], r.legacy[n]} # {}
      <4>1. CASE n \in Config!Pending(r.patch)
        <5>1. PICK j \in DOMAIN r.patch : n = r.patch[j].name
          BY <4>1 DEF Config!Pending
        <5>2. SettingsKey(c, j) \in owned[n] /\ (secrets[n] = SettingsKey(c, j)
              \/ SettingsKey(c, j) = Config!None)
          BY <5>1, <1>3 DEF SettingsStored, SettingsName
        <5> QED BY <5>2, <2>5
      <4>2. CASE n \notin Config!Pending(r.patch) /\ ~r.clear
        <5>1. r.legacy[n] = file.plain[n]
          BY <4>2, <3>1, <1>3 DEF Config!Remaining
        <5>2. owned[n] \cap {Config!None, secrets[n], file.plain[n]} # {}
          BY DEF SettingsOwning, Config!KeyHeld
        <5> QED BY <5>1, <5>2, <2>5
      <4>3. CASE r.clear /\ notice[n] # Config!None
        BY <4>3, <1>5
      <4>4. CASE r.clear /\ notice[n] = Config!None
        <5>1. r.legacy[n] = Config!None /\ file.plain[n] = Config!None
          BY <4>4, <3>1
        <5>2. owned[n] \cap {Config!None, secrets[n], file.plain[n]} # {}
          BY DEF SettingsOwning, Config!KeyHeld
        <5> QED BY <5>1, <5>2, <2>5
      <4> QED BY <4>1, <4>2, <4>3, <4>4
    <3>3. \A n \in KeyNames : r.legacy[n] \in owned'[n] \cup {Config!None}
      BY <3>1, <2>5 DEF SettingsOwning
    <3>4. file'.plain = r.legacy
      BY <1>5 DEF Config!Saved
    <3> QED BY <3>2, <3>3, <3>4, <1>5 DEF SettingsOwning, Config!KeyHeld
  <2>8. SettingsPatching(c)'
    <3>1. Config!Remaining(r.patch, r.clear)' = Config!Remaining(r.patch, r.clear)
      BY <1>5, <2>4 DEF Config!Remaining
    <3>2. \A j \in DOMAIN r.patch : SettingsStored(c, j)'
      <4> SUFFICES ASSUME NEW j \in DOMAIN r.patch PROVE SettingsStored(c, j)'
        BY <2>4
      <4>1. SettingsStored(c, j) /\ SettingsName(c, j) \in KeyNames
        BY <1>1, <1>3, SettingsPatchOf
      <4> QED BY <4>1, <1>5, <2>4, <2>5 DEF SettingsStored, SettingsName, SettingsKey
    <3>3. file' = Config!Saved(r.next, r.legacy)'
      BY <1>5, <2>4 DEF Config!Saved
    <3> QED BY <3>1, <3>2, <3>3, <1>1, <1>3, <1>5, <2>4 DEF SettingsPatching, SettingsName
  <2> QED BY <2>3, <2>6, <2>7, <2>8
<1>6. CASE /\ call' = [call EXCEPT ![c].at = "undo", ![c].i = Len(call[c].patch)]
           /\ UNCHANGED <<backend, secrets, file, cfg, notice, up, load, owned>>
  <2> DEFINE new == [r EXCEPT !.at = "undo", !.i = Len(r.patch)]
  <2>1. new \in SettingsChanges
    <3>1. Len(r.patch) \in Nat
      BY <1>2
    <3> QED BY <3>1, <1>2, SettingsStillChange
  <2>2. call' = [call EXCEPT ![c] = new]
    BY <1>6
  <2>3. /\ call' \in [Windows -> {Config!NoCall} \cup SettingsChanges] /\ call'[c] = new
        /\ SettingsAlone' /\ SettingsInForce' /\ SettingsLoading'
            /\ \A d \in Windows \ {c} : SettingsPatching(d)'
    BY <1>1, <1>6, <2>1, <2>2, SettingsOneGoesOn
  <2>4. /\ call'[c].patch = r.patch /\ call'[c].legacy = r.legacy /\ call'[c].prior = r.prior
        /\ call'[c].before = r.before /\ call'[c].clear = r.clear
        /\ call'[c].at = "undo" /\ call'[c].i = Len(r.patch)
    BY <1>2, <2>3 DEF SettingsChanges
  <2>5. SettingsTypes' /\ SettingsOwning'
    BY <1>6, <2>3 DEF SettingsTypes, SettingsOwning, Config!KeyHeld
  <2>6. SettingsUntouched(c)'
    BY <1>3, <1>6, <2>4 DEF SettingsUntouched, Config!Saved, SettingsName
  <2>7. SettingsPatching(c)'
    <3>1. Config!Remaining(r.patch, r.clear)' = Config!Remaining(r.patch, r.clear)
      BY <1>6, <2>4 DEF Config!Remaining
    <3>2. \A j \in DOMAIN r.patch : ~(j > Len(r.patch))
      BY <1>2
    <3>3. Len(r.patch) \in 0 .. Len(r.patch)
      BY <1>2
    <3>4. \A j \in DOMAIN r.patch : r.prior[j] = r.before[1][SettingsName(c, j)]
      BY <1>1 DEF SettingsPatching
    <3>5. ~backend => r.before[1] = Config!NoKeys
      BY <1>1 DEF SettingsPatching
    <3> QED BY <3>1, <3>2, <3>3, <3>4, <3>5, <1>3, <1>6, <2>4, <2>6 DEF SettingsPatching, SettingsName
  <2> QED BY <2>3, <2>5, <2>7
<1> QED BY <1>5, <1>6 DEF Config!WriteFile

LEMMA SettingsMemoryKeeps == ASSUME SettingsInv, NEW c \in Windows, Config!Memory(c) PROVE SettingsInv'
<1> USE DEF SettingsInv
<1> DEFINE r == call[c]
<1>1. r.at = "memory" /\ r # Config!NoCall
  BY DEF Config!Memory, Config!NoCall
<1>2. Config!Free' /\ call' \in [Windows -> {Config!NoCall} \cup SettingsChanges]
  BY <1>1, SettingsOverFacts DEF Config!Memory
<1>3. /\ r \in SettingsChanges /\ DOMAIN r.patch = 1 .. Len(r.patch) /\ up = "up"
      /\ \A j \in DOMAIN r.patch : SettingsName(c, j) \in KeyNames /\ SettingsKey(c, j) \in SettingsVals
      /\ \A j, k \in DOMAIN r.patch : SettingsName(c, j) = SettingsName(c, k) => j = k
  BY <1>1, SettingsPatchOf
<1>4. file = Config!Saved(r.next, r.legacy) /\ \A j \in DOMAIN r.patch : SettingsStored(c, j)
  BY <1>1 DEF SettingsPatching
<1>5. r.next \in SettingsCfgs /\ r.legacy \in [KeyNames -> SettingsVals]
  BY <1>3 DEF SettingsChanges
<1>6. /\ cfg' = r.next /\ notice' = r.legacy /\ UNCHANGED <<backend, secrets, file, up, load>>
      /\ \A n \in KeyNames : owned'[n] =
            IF \E i \in DOMAIN r.patch : r.patch[i].name = n
            THEN {r.patch[i].key : i \in {j \in DOMAIN r.patch : r.patch[j].name = n}}
            ELSE owned[n]
  BY DEF Config!Memory
<1>7. ASSUME NEW n \in KeyNames
      PROVE  /\ owned'[n] \subseteq SettingsVals
             /\ owned'[n] \cap {Config!None, secrets[n], file.plain[n]} # {}
             /\ file.plain[n] \in owned'[n] \cup {Config!None}
  <2>1. CASE \E i \in DOMAIN r.patch : r.patch[i].name = n
    <3>1. PICK i \in DOMAIN r.patch : r.patch[i].name = n
      BY <2>1
    <3>2. SettingsKey(c, i) \in owned'[n] /\ owned'[n] \subseteq SettingsVals
      <4>1. owned'[n] = {r.patch[l].key : l \in {j \in DOMAIN r.patch : r.patch[j].name = n}}
        BY <2>1, <1>6
      <4>2. \A l \in DOMAIN r.patch : r.patch[l].key \in SettingsVals
        BY <1>3 DEF SettingsKey
      <4> QED BY <4>1, <4>2, <3>1 DEF SettingsKey
    <3>3. secrets[n] = SettingsKey(c, i) \/ SettingsKey(c, i) = Config!None
      BY <3>1, <1>4 DEF SettingsStored, SettingsName
    <3>4. file.plain[n] = Config!None
      <4>1. r.legacy = Config!Remaining(r.patch, r.clear) /\ n \in Config!Pending(r.patch)
        BY <3>1, <1>1 DEF SettingsPatching, Config!Pending
      <4> QED BY <4>1, <1>4 DEF Config!Saved, Config!Remaining
    <3> QED BY <3>2, <3>3, <3>4
  <2>2. CASE ~ \E i \in DOMAIN r.patch : r.patch[i].name = n
    <3>1. owned'[n] = owned[n]
      BY <2>2, <1>6
    <3> QED BY <3>1 DEF SettingsOwning, Config!KeyHeld, SettingsTypes
  <2> QED BY <2>1, <2>2
<1>8. SettingsTypes'
  <2>1. owned' \in [KeyNames -> SUBSET SettingsVals]
    <3>1. owned' = [n \in KeyNames |-> owned'[n]]
      BY DEF Config!Memory
    <3> QED BY <3>1, <1>7
  <2> QED BY <2>1, <1>2, <1>5, <1>6 DEF SettingsTypes
<1>9. SettingsAlone' /\ SettingsInForce' /\ SettingsLoading'
  BY <1>2, <1>3, <1>4, <1>6 DEF SettingsAlone, SettingsInForce, SettingsLoading, Config!Saved, Config!Free
<1>10. SettingsOwning'
  BY <1>6, <1>7 DEF SettingsOwning, Config!KeyHeld
<1>11. \A d \in Windows : SettingsPatching(d)'
  BY <1>2 DEF Config!Free, SettingsPatching
<1> QED BY <1>8, <1>9, <1>10, <1>11

LEMMA SettingsStopKeeps == ASSUME SettingsInv, Config!Stop PROVE SettingsInv'
<1> USE DEF SettingsInv
<1>1. Config!Free' /\ call' \in [Windows -> {Config!NoCall} \cup SettingsChanges] /\ up' = "down"
  BY DEF Config!Stop, Config!Free
<1>2. SettingsTypes'
  BY <1>1 DEF Config!Stop, SettingsTypes, Config!NoLoad
<1>3. SettingsAlone' /\ SettingsInForce' /\ SettingsLoading'
  BY <1>1 DEF SettingsAlone, SettingsInForce, SettingsLoading, Config!Free
<1>4. SettingsOwning'
  BY DEF Config!Stop, SettingsOwning, Config!KeyHeld
<1>5. \A d \in Windows : SettingsPatching(d)'
  BY <1>1 DEF Config!Free, SettingsPatching
<1> QED BY <1>1, <1>2, <1>3, <1>4, <1>5

LEMMA SettingsStutterKeeps == ASSUME SettingsInv, UNCHANGED Config!vars PROVE SettingsInv'
<1> USE DEF SettingsInv, Config!vars
<1>1. SettingsTypes' /\ SettingsAlone' /\ SettingsOwning' /\ SettingsLoading' /\ SettingsInForce'
  BY DEF SettingsTypes, SettingsAlone, SettingsOwning, Config!KeyHeld, SettingsLoading, SettingsInForce,
     Config!Free, Config!Saved
<1>2. ASSUME NEW c \in Windows PROVE SettingsPatching(c)'
  BY <1>2 DEF SettingsPatching, SettingsUntouched, SettingsStored, SettingsAsBefore, SettingsName, SettingsKey,
     Config!Saved, Config!Remaining
<1> QED BY <1>1, <1>2

LEMMA SettingsNextKeeps == ASSUME SettingsInv, [Config!Next]_(Config!vars) PROVE SettingsInv'
  BY SettingsLoadKeeps, SettingsMigrateKeeps, SettingsLoadedKeeps, SettingsStopKeeps, SettingsSetKeeps,
     SettingsSetPublishAccountKeeps,
     SettingsWriteKeyKeeps, SettingsUndoKeeps, SettingsRefuseKeeps, SettingsWriteFileKeeps, SettingsMemoryKeeps,
     SettingsStutterKeeps
  DEF Config!Next, Config!Step

LEMMA SettingsInvAccounts == ASSUME SettingsInv PROVE Config!Accounted
<1> USE DEF SettingsInv
<1>1. Config!KeyHeld
  BY DEF SettingsOwning
<1>2. Config!MemoryIsFile
  BY DEF SettingsInForce, Config!MemoryIsFile, Config!Free, Config!Saved
<1>3. ASSUME up = "up", NEW n \in KeyNames PROVE file.plain[n] \in {Config!None, notice[n]}
  <2>1. CASE Config!Free
    BY <2>1, <1>3 DEF SettingsInForce, Config!Saved
  <2>2. CASE ~Config!Free
    <3>1. PICK c \in Windows : call[c] # Config!NoCall
      BY <2>2 DEF Config!Free
    <3>2. call[c].at \in {"keys", "undo", "memory"}
      BY <3>1, SettingsPatchOf DEF SettingsChanges
    <3>3. CASE call[c].at \in {"keys", "undo"}
      BY <3>1, <3>3 DEF SettingsPatching, SettingsUntouched, Config!Saved
    <3>4. CASE call[c].at = "memory"
      <4>1. file = Config!Saved(call[c].next, call[c].legacy)
            /\ call[c].legacy = Config!Remaining(call[c].patch, call[c].clear)
        BY <3>1, <3>4 DEF SettingsPatching
      <4> QED BY <4>1 DEF Config!Saved, Config!Remaining
    <3> QED BY <3>2, <3>3, <3>4
  <2> QED BY <2>1, <2>2
<1> QED BY <1>1, <1>2, <1>3 DEF Config!Accounted, Config!NoticeTrue

LEMMA SettingsRefusalIsClean ==
    ASSUME SettingsInv, [Config!Next]_(Config!vars)
    PROVE  Config!RefusalChangesNothing
<1> USE DEF SettingsInv
<1> SUFFICES ASSUME NEW c \in Windows, call[c].at = "undo", call'[c] = Config!NoCall, up' = "up", call[c].clean
             PROVE  <<secrets, file, cfg, notice>>' = call[c].before
  BY DEF Config!RefusalChangesNothing
<1> DEFINE r == call[c]
<1>1. r # Config!NoCall
  BY DEF Config!NoCall
<1>2. /\ r \in SettingsChanges /\ DOMAIN r.patch = 1 .. Len(r.patch) /\ up = "up"
      /\ \A d \in Windows \ {c} : call[d] = Config!NoCall
  BY <1>1, SettingsPatchOf
<1>3. Config!Refuse(c)
  <2>1. \A d \in Windows : Config!WriteKey(d) \/ Config!Undo(d) \/ Config!Refuse(d) \/ Config!WriteFile(d)
        \/ Config!Memory(d) => d = c
    BY <1>2 DEF Config!WriteKey, Config!Undo, Config!Refuse, Config!WriteFile, Config!KeysDone, Config!Memory,
       Config!NoCall
  <2>2. ~Config!WriteKey(c) /\ ~Config!WriteFile(c) /\ ~Config!Memory(c)
    BY DEF Config!WriteKey, Config!WriteFile, Config!KeysDone, Config!Memory
  <2>3. ~Config!Undo(c)
    <3> SUFFICES ASSUME Config!Undo(c) PROVE FALSE
      OBVIOUS
    <3>1. call'[c].at = "undo"
      BY <1>2 DEF Config!Undo, SettingsTypes, SettingsChanges
    <3> QED BY <3>1 DEF Config!NoCall
  <2>4. ~Config!Load /\ ~Config!Loaded /\ ~Config!Stop /\ (\A n \in KeyNames : ~Config!Migrate(n))
        /\ ~UNCHANGED Config!vars
    BY <1>1, <1>2 DEF Config!Load, Config!Loaded, Config!Stop, Config!Migrate, Config!vars
  <2>5. \A d \in Windows, patch \in Config!Patches, pref \in Config!Prefs, clear \in BOOLEAN : ~Config!Set(d,
patch, pref, clear)
    BY <1>1 DEF Config!Set, Config!Free
  <2>6. \A d \in Windows, account \in Config!Accounts : ~Config!SetPublishAccount(d, account)
    BY <1>1 DEF Config!SetPublishAccount, Config!Free
  <2> QED BY <2>1, <2>2, <2>3, <2>4, <2>5, <2>6 DEF Config!Next, Config!Step
<1>4. r.i = 0 /\ UNCHANGED <<secrets, file, cfg, notice>>
  BY <1>3 DEF Config!Refuse
<1>5. /\ SettingsUntouched(c) /\ \A j \in DOMAIN r.patch : SettingsAsBefore(c, j)
      /\ \A j \in DOMAIN r.patch : r.prior[j] = r.before[1][SettingsName(c, j)]
  BY <1>1, <1>2, <1>4 DEF SettingsPatching
<1>6. /\ r.before[1] \in [KeyNames -> SettingsVals]
      /\ r.before = <<r.before[1], r.before[2], r.before[3], r.before[4]>>
  BY <1>2 DEF SettingsChanges
<1>7. secrets = r.before[1]
  <2>1. ASSUME NEW n \in KeyNames PROVE secrets[n] = r.before[1][n]
    BY <1>5 DEF SettingsUntouched, Config!Pending, SettingsAsBefore, SettingsName
  <2> QED BY <2>1, <1>6 DEF SettingsTypes
<1> QED BY <1>4, <1>5, <1>6, <1>7 DEF SettingsUntouched

(* Every key is where it may be, file, memory and notice agree, and a patch    *)
(* that is refused has changed nothing, whatever failed on the way.            *)
(* (settings.go Set, load; secrets.go)                                         *)
THEOREM SettingsSafe == Spec => SettingsAccounted
<1> DEFINE I == part = "settings" => SettingsInv
<1>1. Init => I
  BY SettingsStarts DEF Init
<1>2. I /\ [Next]_vars => I'
  BY PartStays, SettingsNextKeeps
<1>3. I => (part = "settings" => Config!Accounted)
  BY SettingsInvAccounts
<1>4. I /\ [Next]_vars => [part = "settings" => Config!RefusalChangesNothing]_vars
  BY PartStays, SettingsRefusalIsClean
<1> QED BY <1>1, <1>2, <1>3, <1>4, PTL DEF Spec, SettingsAccounted

-----------------------------------------------------------------------------
(* McpHost. What the discovery file says of a server that was not retracted is *)
(* what that server is (HostTold), and a server that runs is named by it or is *)
(* about to be, but for the races its engine is marked with (HostFindable).    *)

HostGoing == {"mint", "cycle", "stop", "look", "remove", "shutdown", "start", "listen", "write"}
HostAsked == [at : HostGoing, kind : {"enable", "disable", "regenerate"}, srv : Ports \cup {Host!None}]

HostFiles == [pid : (Engines \cup {Host!None}) \X Nat, port : Ports \cup {Host!None}, token : Nat,
              open : SUBSET Engines]

HostTypes ==
    /\ mode \in [Engines -> [on : BOOLEAN, port : Ports]]
    /\ server \in [Engines -> [running : BOOLEAN, port : Ports \cup {Host!None}, token : Nat]]
    /\ bound \in [Ports -> Engines \cup {Host!None}]
    /\ token \in Nat
    /\ file \in HostFiles
    /\ pid \in [Engines -> [up : BOOLEAN, number : Nat]]
    /\ call \in [Engines -> [Callers -> {Host!NoCall} \cup HostAsked]]
    /\ history \in [crossed : SUBSET Engines, unsaid : SUBSET Engines]

\* What is left of a server that was stopped keeps its port.
HostLeaving(e, c) == call[e][c].at \in {"look", "remove", "shutdown"}

HostAlive(e) ==
    /\ pid[e].up => pid[e].number # 0
    /\ file.pid[1] = e => file.pid[2] <= pid[e].number
    /\ ~pid[e].up => Host!Quiet(e) /\ ~server[e].running

HostListens(e) ==
    /\ server[e].running => server[e].port \in Ports /\ bound[server[e].port] = e
    /\ \A c \in Callers : HostLeaving(e, c) =>
        /\ call[e][c].srv \in Ports /\ bound[call[e][c].srv] = e
        /\ server[e].running => server[e].port # call[e][c].srv
        /\ \A d \in Callers : HostLeaving(e, d) /\ call[e][d].srv = call[e][c].srv => c = d

HostTold(e) ==
    file.pid = Host!Own(e) /\ pid[e].up /\ (\A c \in Callers : call[e][c].at \notin {"look", "remove"}) =>
        server[e] = [running |-> TRUE, port |-> file.port, token |-> file.token]

HostWrites(e) == \A c \in Callers : call[e][c].at = "write" => server[e].running

HostOrderly(e) ==
    e \notin history.crossed =>
        /\ \A c, d \in Callers : call[e][c] # Host!NoCall /\ call[e][d] # Host!NoCall => c = d
        /\ \A c \in Callers : call[e][c].at \in {"look", "remove", "shutdown", "start", "listen"} =>
                ~server[e].running

HostFindable(e) ==
    server[e].running /\ e \notin history.crossed \cup history.unsaid =>
        \/ file.pid = Host!Own(e) /\ ~Host!Removing(e)
        \/ \E c \in Callers : call[e][c].at \in {"mint", "cycle", "stop", "write"}

HostWell(e) ==
    HostAlive(e) /\ HostListens(e) /\ HostTold(e) /\ HostWrites(e) /\ HostOrderly(e) /\ HostFindable(e)

HostInv == HostTypes /\ \A e \in Engines : HostWell(e)

LEMMA HostStarts == ASSUME Host!Init PROVE HostInv
<1>1. HostTypes
  BY DEF Host!Init, HostTypes, HostFiles, Host!Off, Host!NoFile, Host!Free, Host!NoCall
<1>2. ASSUME NEW e \in Engines PROVE HostWell(e)
  <2>1. /\ server[e] = Host!Off /\ pid[e] = [up |-> FALSE, number |-> 0] /\ file = Host!NoFile
        /\ \A c \in Callers : call[e][c] = Host!NoCall
    BY DEF Host!Init, Host!Free
  <2> QED BY <2>1, NameAssumption
          DEF HostWell, HostAlive, HostListens, HostTold, HostWrites, HostOrderly, HostFindable, Host!Quiet,
              HostLeaving, Host!Off, Host!NoFile, Host!NoCall, Host!Own
<1> QED BY <1>1, <1>2 DEF HostInv

\* What another engine's step leaves as it was, of the file and of the rest.
HostFileApart(d) ==
    /\ file'.pid[1] = d => file'.pid = file.pid /\ file'.port = file.port /\ file'.token = file.token
    /\ server[d].running /\ d \notin history'.unsaid /\ file.pid = Host!Own(d) /\ ~Host!Removing(d) =>
            file'.pid = Host!Own(d) /\ ~Host!Removing(d)'

HostApart(d) ==
    /\ pid'[d] = pid[d] /\ call'[d] = call[d] /\ server'[d] = server[d]
    /\ \A p \in Ports : bound[p] = d => bound'[p] = d
    /\ d \in history'.crossed <=> d \in history.crossed
    /\ d \in history.unsaid => d \in history'.unsaid
    /\ HostFileApart(d)

LEMMA HostFileStays ==
    ASSUME HostTypes, NEW e \in Engines, NEW d \in Engines \ {e},
           file'.pid = file.pid, file'.port = file.port, file'.token = file.token,
           \A b \in Engines \ {e} : call'[b] = call[b],
           \A c \in Callers : call'[e][c].at = "remove" => call[e][c].at = "remove"
    PROVE  HostFileApart(d)
<1>1. Host!Removing(d)' => Host!Removing(d)
  BY DEF Host!Removing, Host!At
<1> QED BY <1>1 DEF HostFileApart

LEMMA HostOthersKeep == ASSUME HostInv, NEW d \in Engines, HostApart(d) PROVE HostWell(d)'
<1> USE DEF HostInv
<1>0. HostWell(d) /\ HostTypes /\ HostFileApart(d)
  BY DEF HostApart
<1>1. HostAlive(d)'
  BY <1>0 DEF HostWell, HostApart, HostFileApart, HostAlive, Host!Quiet
<1>2. HostListens(d)'
  BY <1>0 DEF HostWell, HostApart, HostListens, HostLeaving, HostTypes
<1>3. HostTold(d)'
  <2> SUFFICES ASSUME file'.pid = Host!Own(d)' PROVE HostTold(d)'
    BY DEF HostTold
  <2>1. file'.pid[1] = d /\ Host!Own(d)' = Host!Own(d)
    BY DEF HostApart, Host!Own
  <2> QED BY <2>1, <1>0 DEF HostWell, HostApart, HostFileApart, HostTold
<1>4. HostOrderly(d)' /\ HostWrites(d)'
  BY <1>0 DEF HostWell, HostApart, HostOrderly, HostWrites
<1>5. HostFindable(d)'
  <2>1. Host!Own(d)' = Host!Own(d)
    BY DEF HostApart, Host!Own
  <2> QED BY <2>1, <1>0 DEF HostWell, HostApart, HostFileApart, HostFindable
<1> QED BY <1>1, <1>2, <1>3, <1>4, <1>5 DEF HostWell

\* A call goes from one thing to the next.
LEMMA HostCallMoves ==
    ASSUME HostTypes, NEW e \in Engines, NEW c \in Callers, NEW next \in {Host!NoCall} \cup HostAsked,
           call' = [call EXCEPT ![e][c] = next]
    PROVE  /\ call' \in [Engines -> [Callers -> {Host!NoCall} \cup HostAsked]]
           /\ call'[e][c] = next /\ \A b \in Callers \ {c} : call'[e][b] = call[e][b]
           /\ \A d \in Engines \ {e} : call'[d] = call[d]
  BY DEF HostTypes

LEMMA HostOntoMoves ==
    ASSUME HostTypes, NEW e \in Engines, NEW c \in Callers, NEW at \in HostGoing, call[e][c] # Host!NoCall,
           call' = Host!Onto(e, c, at)
    PROVE  /\ call' \in [Engines -> [Callers -> {Host!NoCall} \cup HostAsked]]
           /\ call'[e][c] # Host!NoCall /\ call'[e][c].at = at /\ call'[e][c].srv = call[e][c].srv
           /\ \A b \in Callers \ {c} : call'[e][b] = call[e][b]
           /\ \A d \in Engines \ {e} : call'[d] = call[d]
<1> DEFINE next == [call[e][c] EXCEPT !.at = at]
<1>1. call[e][c] \in HostAsked
  BY DEF HostTypes
<1>2. next \in HostAsked /\ next.at = at /\ next.srv = call[e][c].srv /\ next # Host!NoCall
  BY <1>1 DEF HostAsked, Host!NoCall
<1>3. call' = [call EXCEPT ![e][c] = next]
  BY DEF Host!Onto
<1>4. next \in {Host!NoCall} \cup HostAsked
  BY <1>2
<1> HIDE DEF next
<1> QED BY <1>2, <1>3, <1>4 DEF HostTypes

LEMMA HostOverMoves ==
    ASSUME HostTypes, NEW e \in Engines, NEW c \in Callers, call' = Host!Over(e, c)
    PROVE  /\ call' \in [Engines -> [Callers -> {Host!NoCall} \cup HostAsked]]
           /\ call'[e][c] = Host!NoCall /\ call'[e][c].at = "idle"
           /\ \A b \in Callers \ {c} : call'[e][b] = call[e][b]
           /\ \A d \in Engines \ {e} : call'[d] = call[d]
<1>1. call' = [call EXCEPT ![e][c] = Host!NoCall]
  BY DEF Host!Over
<1>2. Host!NoCall \in {Host!NoCall} \cup HostAsked /\ Host!NoCall.at = "idle"
  BY DEF Host!NoCall
<1> QED BY <1>1, <1>2 DEF HostTypes

LEMMA HostCallKind ==
    ASSUME HostTypes, NEW e \in Engines, NEW c \in Callers
    PROVE  /\ call[e][c].at = "idle" <=> call[e][c] = Host!NoCall
           /\ call[e][c] # Host!NoCall => call[e][c] \in HostAsked
  BY DEF HostTypes, HostAsked, Host!NoCall, HostGoing

LEMMA HostChooseKeeps ==
    ASSUME HostInv, NEW e \in Engines, NEW allowed \in BOOLEAN, NEW port \in Ports,
           Host!Choose(e, allowed, port)
    PROVE  HostInv'
<1>1. HostTypes'
  BY DEF HostInv, Host!Choose, HostTypes
<1>2. \A d \in Engines : HostApart(d)
  BY DEF Host!Choose, HostApart, HostFileApart, Host!Own, Host!Removing, Host!At
<1> QED BY <1>1, <1>2, HostOthersKeep DEF HostInv

LEMMA HostBeginKeeps ==
    ASSUME HostInv, NEW e \in Engines, NEW c \in Callers, NEW kind \in {"enable", "disable", "regenerate"},
           Host!Begin(e, c, kind)
    PROVE  HostInv'
<1> USE DEF HostInv
<1> DEFINE next == [at |-> IF kind = "regenerate" THEN "mint" ELSE "stop", kind |-> kind, srv |-> Host!None]
<1>1. next \in HostAsked /\ next.at \in {"mint", "stop"} /\ next # Host!NoCall
  BY DEF HostAsked, HostGoing, Host!NoCall
<1>2. /\ call' = [call EXCEPT ![e][c] = next] /\ call[e][c] = Host!NoCall /\ pid[e].up
      /\ UNCHANGED <<mode, server, bound, token, file, pid>>
  BY DEF Host!Begin
<1> HIDE DEF next
<1>3. /\ call' \in [Engines -> [Callers -> {Host!NoCall} \cup HostAsked]]
      /\ call'[e][c] = next /\ \A b \in Callers \ {c} : call'[e][b] = call[e][b]
      /\ \A d \in Engines \ {e} : call'[d] = call[d]
  BY <1>1, <1>2, HostCallMoves
<1>4. HostTypes'
  <2>1. history' \in [crossed : SUBSET Engines, unsaid : SUBSET Engines]
    BY DEF Host!Begin, HostTypes
  <2> QED BY <2>1, <1>2, <1>3 DEF HostTypes
<1>5. \A d \in Engines \ {e} : HostApart(d)
  <2>1. history'.unsaid = history.unsaid /\ history'.crossed \in {history.crossed \ {e},
                                                                                     history.crossed \cup {e}}
    BY DEF Host!Begin, HostTypes
  <2>2. \A d \in Engines \ {e} : HostFileApart(d)
    BY <1>1, <1>2, <1>3, HostFileStays
  <2> QED BY <2>1, <2>2, <1>2, <1>3 DEF HostApart
<1>6. HostWell(e)'
  <2>1. HostAlive(e)'
    BY <1>2 DEF HostWell, HostAlive
  <2>2. HostListens(e)'
    BY <1>1, <1>2, <1>3 DEF HostWell, HostListens, HostLeaving
  <2>3. HostTold(e)' /\ HostWrites(e)'
    <3>1. Host!NoCall.at = "idle"
      BY DEF Host!NoCall
    <3>2. \A b \in Callers : call'[e][b].at \in {"look", "remove", "write"} => call'[e][b].at = call[e][b].at
      BY <3>1, <1>1, <1>2, <1>3
    <3>3. \A b \in Callers : call[e][b].at \in {"look", "remove"} => call'[e][b].at = call[e][b].at
      BY <3>1, <1>1, <1>2, <1>3
    <3> QED BY <3>2, <3>3, <1>2 DEF HostWell, HostTold, HostWrites, Host!Own
  <2>4. CASE Host!Quiet(e)
    <3>1. e \notin history'.crossed /\ \A b \in Callers : call'[e][b] # Host!NoCall => b = c
      BY <2>4, <1>3 DEF Host!Begin, Host!Quiet
    <3>2. HostOrderly(e)'
      BY <3>1, <1>1, <1>3 DEF HostOrderly, Host!Quiet, Host!NoCall
    <3> QED BY <3>2, <2>1, <2>2, <2>3, <1>1, <1>3 DEF HostWell, HostFindable
  <2>5. CASE ~Host!Quiet(e)
    <3>1. e \in history'.crossed
      BY <2>5 DEF Host!Begin
    <3> QED BY <3>1, <2>1, <2>2, <2>3 DEF HostWell, HostOrderly, HostFindable
  <2> QED BY <2>4, <2>5
<1> QED BY <1>4, <1>5, <1>6, HostOthersKeep

\* A call of e goes on, and nothing of what e serves or says changes.
LEMMA HostOnlyCallKeeps ==
    ASSUME HostInv, NEW e \in Engines, NEW c \in Callers, call[e][c] # Host!NoCall,
           call' \in [Engines -> [Callers -> {Host!NoCall} \cup HostAsked]],
           \A b \in Callers \ {c} : call'[e][b] = call[e][b],
           \A d \in Engines \ {e} : call'[d] = call[d],
           token' \in Nat,
           UNCHANGED <<mode, server, bound, file, pid, history>>,
           call[e][c].at \notin {"look", "remove", "write"},
           call'[e][c].at \notin {"look", "remove", "shutdown", "write"},
           call'[e][c].at \in {"start", "listen"} =>
                ~server[e].running \/ call[e][c].at \in {"shutdown", "start", "listen"},
           call[e][c].at \in {"mint", "cycle", "stop"} /\ server[e].running =>
                call'[e][c].at \in {"mint", "cycle", "stop"}
    PROVE  HostInv'
<1> USE DEF HostInv
<1>1. HostTypes'
  BY DEF HostTypes
<1>2. \A d \in Engines \ {e} : HostApart(d)
  BY HostFileStays DEF HostApart
<1>3. HostWell(e)
  OBVIOUS
<1>4. HostAlive(e)'
  BY <1>3 DEF HostWell, HostAlive, Host!Quiet
<1>5. HostListens(e)'
  BY <1>3 DEF HostWell, HostListens, HostLeaving
<1>6. HostTold(e)' /\ HostWrites(e)'
  BY <1>3 DEF HostWell, HostTold, HostWrites, Host!Own
<1>7. HostOrderly(e)'
  <2> SUFFICES ASSUME e \notin history.crossed
               PROVE  HostOrderly(e)'
    BY DEF HostOrderly
  <2>1. \A b \in Callers \ {c} : call'[e][b] = Host!NoCall
    BY <1>3 DEF HostWell, HostOrderly
  <2>2. Host!NoCall.at = "idle"
    BY DEF Host!NoCall
  <2> QED BY <2>1, <2>2, <1>3 DEF HostWell, HostOrderly
<1>8. HostFindable(e)'
  BY <1>3 DEF HostWell, HostFindable, Host!Own, Host!Removing, Host!At
<1>9. HostWell(e)'
  BY <1>4, <1>5, <1>6, <1>7, <1>8 DEF HostWell
<1> QED BY <1>1, <1>2, <1>9, HostOthersKeep

LEMMA HostMintKeeps == ASSUME HostInv, NEW e \in Engines, NEW c \in Callers, Host!Mint(e, c) PROVE HostInv'
<1>1. call[e][c].at = "mint" /\ call[e][c] # Host!NoCall
  BY DEF Host!Mint, Host!NoCall
<1>2. token' \in Nat
  BY DEF Host!Mint, HostInv, HostTypes
<1>3. HostTypes /\ "cycle" \in HostGoing
  BY DEF HostInv, HostGoing
<1> QED BY <1>1, <1>2, <1>3, HostOntoMoves, HostOnlyCallKeeps DEF Host!Mint

LEMMA HostCycleKeeps == ASSUME HostInv, NEW e \in Engines, NEW c \in Callers, Host!Cycle(e, c) PROVE HostInv'
<1>1. call[e][c].at = "cycle" /\ call[e][c] # Host!NoCall
  BY DEF Host!Cycle, Host!NoCall
<1>2. HostTypes /\ "stop" \in HostGoing /\ token' \in Nat
  BY DEF HostInv, HostGoing, Host!Cycle, HostTypes
<1>3. CASE server[e].running /\ call' = Host!Onto(e, c, "stop")
  BY <1>1, <1>2, <1>3, HostOntoMoves, HostOnlyCallKeeps DEF Host!Cycle
<1>4. CASE ~server[e].running /\ call' = Host!Over(e, c)
  BY <1>1, <1>2, <1>4, HostOverMoves, HostOnlyCallKeeps DEF Host!Cycle
<1> QED BY <1>3, <1>4 DEF Host!Cycle

LEMMA HostReadModeKeeps ==
    ASSUME HostInv, NEW e \in Engines, NEW c \in Callers, Host!ReadMode(e, c)
    PROVE  HostInv'
<1>1. call[e][c].at = "start" /\ call[e][c] # Host!NoCall
  BY DEF Host!ReadMode, Host!NoCall
<1>2. HostTypes /\ "listen" \in HostGoing /\ token' \in Nat
  BY DEF HostInv, HostGoing, Host!ReadMode, HostTypes
<1>3. CASE call' = Host!Onto(e, c, "listen")
  BY <1>1, <1>2, <1>3, HostOntoMoves, HostOnlyCallKeeps DEF Host!ReadMode
<1>4. CASE call' = Host!Over(e, c)
  BY <1>1, <1>2, <1>4, HostOverMoves, HostOnlyCallKeeps DEF Host!ReadMode
<1> QED BY <1>3, <1>4 DEF Host!ReadMode

LEMMA HostStopKeeps == ASSUME HostInv, NEW e \in Engines, NEW c \in Callers, Host!Stop(e, c) PROVE HostInv'
<1> USE DEF HostInv
<1> DEFINE at == IF server[e].running THEN "look" ELSE "start"
           next == [call[e][c] EXCEPT !.at = at, !.srv = server[e].port]
<1>1. call[e][c].at = "stop" /\ call[e][c] \in HostAsked /\ call[e][c] # Host!NoCall
  BY HostCallKind DEF Host!Stop, Host!NoCall
<1>2. next \in HostAsked /\ next.at = at /\ next.srv = server[e].port /\ next # Host!NoCall
  <2>1. server[e].port \in Ports \cup {Host!None} /\ at \in HostGoing
    BY DEF HostTypes, HostGoing
  <2> QED BY <2>1, <1>1 DEF HostAsked, Host!NoCall
<1>3. call' = [call EXCEPT ![e][c] = next] /\ server' = [server EXCEPT ![e] = Host!Off]
      /\ UNCHANGED <<mode, bound, token, file, pid, history>>
      /\ \A b \in Callers : call[e][b].at # "write"
  BY DEF Host!Stop, Host!Unlocked, Host!At
<1> HIDE DEF next
<1>4. /\ call' \in [Engines -> [Callers -> {Host!NoCall} \cup HostAsked]]
      /\ call'[e][c] = next /\ \A b \in Callers \ {c} : call'[e][b] = call[e][b]
      /\ \A d \in Engines \ {e} : call'[d] = call[d]
  BY <1>2, <1>3, HostCallMoves
<1>5. server' \in [Engines -> [running : BOOLEAN, port : Ports \cup {Host!None}, token : Nat]]
      /\ server'[e] = Host!Off /\ \A d \in Engines \ {e} : server'[d] = server[d]
  BY <1>3 DEF HostTypes, Host!Off
<1>6. HostTypes'
  BY <1>3, <1>4, <1>5 DEF HostTypes
<1>7. ASSUME NEW d \in Engines \ {e} PROVE HostApart(d)
  <2>1. HostFileApart(d)
    BY <1>2, <1>3, <1>4, HostFileStays
  <2> QED BY <2>1, <1>3, <1>4, <1>5 DEF HostApart
<1>8. HostWell(e)
  OBVIOUS
<1>9. HostAlive(e)'
  BY <1>1, <1>3, <1>8 DEF HostWell, HostAlive, Host!Quiet
<1>10. HostListens(e)'
  <2>1. ~server'[e].running
    BY <1>5 DEF Host!Off
  <2>2. CASE server[e].running
    BY <2>1, <2>2, <1>1, <1>2, <1>3, <1>4, <1>8 DEF HostWell, HostListens, HostLeaving
  <2>3. CASE ~server[e].running
    BY <2>1, <2>3, <1>1, <1>2, <1>3, <1>4, <1>8 DEF HostWell, HostListens, HostLeaving
  <2> QED BY <2>2, <2>3
<1>11. HostTold(e)' /\ HostWrites(e)'
  <2>1. CASE server[e].running
    BY <2>1, <1>2, <1>3, <1>4 DEF HostTold, HostWrites
  <2>2. CASE ~server[e].running
    BY <2>2, <1>1, <1>2, <1>3, <1>4, <1>8 DEF HostWell, HostTold, HostWrites, Host!Own
  <2> QED BY <2>1, <2>2
<1>12. HostOrderly(e)' /\ HostFindable(e)'
  <2>1. ~server'[e].running
    BY <1>5 DEF Host!Off
  <2> QED BY <2>1, <1>1, <1>3, <1>4, <1>8 DEF HostWell, HostOrderly, HostFindable
<1>13. HostWell(e)'
  BY <1>9, <1>10, <1>11, <1>12 DEF HostWell
<1> QED BY <1>6, <1>7, <1>13, HostOthersKeep

LEMMA HostLookKeeps == ASSUME HostInv, NEW e \in Engines, NEW c \in Callers, Host!Look(e, c) PROVE HostInv'
<1> USE DEF HostInv
<1> DEFINE at == IF Host!Retracts(e) THEN "remove" ELSE "shutdown"
<1>1. call[e][c].at = "look" /\ call[e][c] # Host!NoCall
  BY DEF Host!Look, Host!NoCall
<1>2. call' = Host!Onto(e, c, at) /\ UNCHANGED <<mode, server, bound, token, file, pid, history>>
  BY DEF Host!Look
<1>3. /\ call' \in [Engines -> [Callers -> {Host!NoCall} \cup HostAsked]]
      /\ call'[e][c] # Host!NoCall /\ call'[e][c].at = at /\ call'[e][c].srv = call[e][c].srv
      /\ \A b \in Callers \ {c} : call'[e][b] = call[e][b]
      /\ \A d \in Engines \ {e} : call'[d] = call[d]
  <2>1. at \in HostGoing
    BY DEF HostGoing
  <2> QED BY <2>1, <1>1, <1>2, HostOntoMoves
<1>4. HostTypes'
  BY <1>2, <1>3 DEF HostTypes
<1>5. ASSUME NEW d \in Engines \ {e} PROVE HostApart(d)
  <2>1. CASE Host!Retracts(e)
    <3>1. file.pid # Host!Own(d)
      BY <2>1, NameAssumption DEF Host!Retracts, Host!Own
    <3> QED BY <3>1, <1>2, <1>3 DEF HostApart, HostFileApart
  <2>2. CASE ~Host!Retracts(e)
    <3>1. HostFileApart(d)
      BY <2>2, <1>1, <1>2, <1>3, HostFileStays
    <3> QED BY <3>1, <1>2, <1>3 DEF HostApart
  <2> QED BY <2>1, <2>2
<1>6. HostWell(e)
  OBVIOUS
<1>7. HostAlive(e)'
  BY <1>1, <1>2, <1>6 DEF HostWell, HostAlive, Host!Quiet
<1>8. HostListens(e)'
  BY <1>1, <1>2, <1>3, <1>6 DEF HostWell, HostListens, HostLeaving
<1>9. HostTold(e)' /\ HostWrites(e)'
  <2>1. HostWrites(e)'
    BY <1>2, <1>3, <1>6 DEF HostWell, HostWrites
  <2>2. CASE Host!Retracts(e)
    BY <2>1, <2>2, <1>3 DEF HostTold
  <2>3. CASE ~Host!Retracts(e)
    BY <2>1, <2>3, <1>2 DEF HostTold, Host!Retracts, Host!Own
  <2> QED BY <2>2, <2>3
<1>10. HostOrderly(e)'
  BY <1>1, <1>2, <1>3, <1>6 DEF HostWell, HostOrderly
<1>11. HostFindable(e)'
  BY <1>1, <1>2, <1>6 DEF HostWell, HostFindable, HostOrderly
<1>12. HostWell(e)'
  BY <1>7, <1>8, <1>9, <1>10, <1>11 DEF HostWell
<1> QED BY <1>4, <1>5, <1>12, HostOthersKeep

LEMMA HostRemoveKeeps == ASSUME HostInv, NEW e \in Engines, NEW c \in Callers, Host!Remove(e, c) PROVE HostInv'
<1> USE DEF HostInv
<1>1. call[e][c].at = "remove" /\ call[e][c] # Host!NoCall
  BY DEF Host!Remove, Host!NoCall
<1>2. /\ call' = Host!Onto(e, c, "shutdown") /\ file' = Host!NoFile
      /\ UNCHANGED <<mode, server, bound, token, pid, history>>
  BY DEF Host!Remove
<1>3. /\ call' \in [Engines -> [Callers -> {Host!NoCall} \cup HostAsked]]
      /\ call'[e][c] # Host!NoCall /\ call'[e][c].at = "shutdown" /\ call'[e][c].srv = call[e][c].srv
      /\ \A b \in Callers \ {c} : call'[e][b] = call[e][b]
      /\ \A d \in Engines \ {e} : call'[d] = call[d]
  <2>1. "shutdown" \in HostGoing
    BY DEF HostGoing
  <2> QED BY <2>1, <1>1, <1>2, HostOntoMoves
<1>4. HostTypes'
  BY <1>2, <1>3 DEF HostTypes, HostFiles, Host!NoFile
<1>5. ASSUME NEW d \in Engines PROVE file'.pid # Host!Own(d)' /\ file'.pid[1] # d
  BY <1>2, NameAssumption DEF Host!NoFile, Host!Own
<1>6. ASSUME NEW d \in Engines \ {e} PROVE HostApart(d)
  <2>1. Host!Removing(d)
    BY <1>1 DEF Host!Removing, Host!At
  <2> QED BY <2>1, <1>2, <1>3, <1>5 DEF HostApart, HostFileApart
<1>7. HostWell(e)
  OBVIOUS
<1>8. HostAlive(e)'
  BY <1>1, <1>2, <1>5, <1>7 DEF HostWell, HostAlive, Host!Quiet
<1>9. HostListens(e)'
  BY <1>1, <1>2, <1>3, <1>7 DEF HostWell, HostListens, HostLeaving
<1>10. HostTold(e)' /\ HostWrites(e)'
  BY <1>2, <1>3, <1>5, <1>7 DEF HostWell, HostTold, HostWrites
<1>11. HostOrderly(e)'
  BY <1>1, <1>2, <1>3, <1>7 DEF HostWell, HostOrderly
<1>12. HostFindable(e)'
  BY <1>1, <1>2, <1>7 DEF HostWell, HostFindable, HostOrderly
<1>13. HostWell(e)'
  BY <1>8, <1>9, <1>10, <1>11, <1>12 DEF HostWell
<1> QED BY <1>4, <1>6, <1>13, HostOthersKeep

LEMMA HostShutdownKeeps ==
    ASSUME HostInv, NEW e \in Engines, NEW c \in Callers, Host!Shutdown(e, c)
    PROVE  HostInv'
<1> USE DEF HostInv
<1>1. call[e][c].at = "shutdown" /\ call[e][c] # Host!NoCall /\ HostLeaving(e, c)
  BY DEF Host!Shutdown, Host!NoCall, HostLeaving
<1> DEFINE left == call[e][c].srv
<1>2. /\ bound' = [bound EXCEPT ![left] = Host!None]
      /\ call' = Host!Onto(e, c, "start") \/ call' = Host!Over(e, c)
      /\ UNCHANGED <<mode, server, token, file, pid, history>>
  BY DEF Host!Shutdown
<1>3. /\ call' \in [Engines -> [Callers -> {Host!NoCall} \cup HostAsked]]
      /\ call'[e][c].at \in {"start", "idle"}
      /\ \A b \in Callers \ {c} : call'[e][b] = call[e][b]
      /\ \A d \in Engines \ {e} : call'[d] = call[d]
  <2>1. "start" \in HostGoing
    BY DEF HostGoing
  <2> QED BY <2>1, <1>1, <1>2, HostOntoMoves, HostOverMoves
<1>4. HostWell(e) /\ left \in Ports /\ bound[left] = e
  BY <1>1 DEF HostWell, HostListens
<1>5. HostTypes'
  BY <1>2, <1>3 DEF HostTypes
<1>6. ASSUME NEW d \in Engines \ {e} PROVE HostApart(d)
  <2>1. HostFileApart(d)
    BY <1>2, <1>3, HostFileStays
  <2> QED BY <2>1, <1>2, <1>3, <1>4 DEF HostApart, HostTypes
<1>7. \A p \in Ports : p # left => bound'[p] = bound[p]
  BY <1>2 DEF HostTypes
<1>8. HostAlive(e)'
  BY <1>1, <1>2, <1>4 DEF HostWell, HostAlive, Host!Quiet
<1>9. HostListens(e)'
  <2>1. server[e].running => server[e].port # left
    BY <1>1, <1>4 DEF HostWell, HostListens
  <2>2. \A b \in Callers : HostLeaving(e, b)' => b # c /\ HostLeaving(e, b) /\ call'[e][b] = call[e][b]
    BY <1>3 DEF HostLeaving
  <2>3. \A b \in Callers : HostLeaving(e, b) /\ b # c => call[e][b].srv # left
    BY <1>1, <1>4 DEF HostWell, HostListens
  <2> QED BY <2>1, <2>2, <2>3, <1>2, <1>4, <1>7 DEF HostWell, HostListens
<1>10. HostTold(e)' /\ HostWrites(e)'
  BY <1>1, <1>2, <1>3, <1>4 DEF HostWell, HostTold, HostWrites, Host!Own
<1>11. HostOrderly(e)'
  <2> SUFFICES ASSUME e \notin history.crossed PROVE HostOrderly(e)'
    BY <1>2 DEF HostOrderly
  <2>1. \A b \in Callers \ {c} : call'[e][b] = Host!NoCall
    BY <1>1, <1>3, <1>4 DEF HostWell, HostOrderly
  <2> QED BY <2>1, <1>1, <1>2, <1>4 DEF HostWell, HostOrderly
<1>12. HostFindable(e)'
  <2>1. e \notin history.crossed => ~server[e].running
    BY <1>1, <1>4 DEF HostWell, HostOrderly
  <2> QED BY <2>1, <1>2 DEF HostFindable
<1>13. HostWell(e)'
  BY <1>8, <1>9, <1>10, <1>11, <1>12 DEF HostWell
<1> QED BY <1>5, <1>6, <1>13, HostOthersKeep

LEMMA HostListenKeeps == ASSUME HostInv, NEW e \in Engines, NEW c \in Callers, Host!Listen(e, c) PROVE HostInv'
<1> USE DEF HostInv
<1> DEFINE port == mode[e].port
<1>1. call[e][c].at = "listen" /\ call[e][c] # Host!NoCall /\ \A b \in Callers : call[e][b].at # "write"
  BY DEF Host!Listen, Host!NoCall, Host!Unlocked, Host!At
<1>2. HostTypes /\ UNCHANGED <<mode, pid>>
  BY DEF Host!Listen
<1>3. Host!StoredToken \in Nat /\ port \in Ports
  BY DEF Host!StoredToken, HostTypes
<1>4. token' \in Nat
  BY <1>3 DEF Host!Listen, HostTypes
<1>5. CASE call' = Host!Over(e, c) /\ UNCHANGED <<server, bound, file, history>>
  BY <1>1, <1>2, <1>4, <1>5, HostOverMoves, HostOnlyCallKeeps
<1>6. CASE /\ ~server[e].running /\ bound[port] = Host!None
           /\ server' = [server EXCEPT ![e] = Host!Served(e)]
           /\ bound' = [bound EXCEPT ![port] = e]
           /\ \/ /\ call' = Host!Onto(e, c, "write")
                 /\ file' = [Host!NoFile EXCEPT !.open = file.open \cup {e}]
                 /\ history' = [history EXCEPT !.unsaid = @ \cup {d \in Engines \ {e} : server[d].running}]
              \/ /\ call' = Host!Over(e, c) /\ UNCHANGED file
                 /\ history' = [history EXCEPT !.unsaid = @ \cup {e}]
  <2>1. HostWell(e) /\ pid[e].up
    BY <1>1 DEF HostWell, HostAlive, Host!Quiet
  <2>2. /\ server' \in [Engines -> [running : BOOLEAN, port : Ports \cup {Host!None}, token : Nat]]
        /\ server'[e].running /\ server'[e].port = port
        /\ \A d \in Engines \ {e} : server'[d] = server[d]
    <3>1. Host!Served(e) = [running |-> TRUE, port |-> port, token |-> Host!StoredToken]
      BY DEF Host!Served
    <3> QED BY <3>1, <1>3, <1>6 DEF HostTypes
  <2>3. bound' \in [Ports -> Engines \cup {Host!None}] /\ bound'[port] = e
        /\ \A p \in Ports : p # port => bound'[p] = bound[p]
    BY <1>3, <1>6 DEF HostTypes
  <2>4. /\ call' \in [Engines -> [Callers -> {Host!NoCall} \cup HostAsked]]
        /\ call'[e][c].at \in {"write", "idle"}
        /\ call'[e][c].at = "idle" => call'[e][c] = Host!NoCall
        /\ \A b \in Callers \ {c} : call'[e][b] = call[e][b]
        /\ \A d \in Engines \ {e} : call'[d] = call[d]
    <3>1. "write" \in HostGoing
      BY DEF HostGoing
    <3> QED BY <3>1, <1>1, <1>2, <1>6, HostOntoMoves, HostOverMoves
  <2>5. /\ history' \in [crossed : SUBSET Engines, unsaid : SUBSET Engines]
        /\ history'.crossed = history.crossed /\ history.unsaid \subseteq history'.unsaid
        /\ e \in history'.unsaid \/ call'[e][c].at = "write"
    <3>1. "write" \in HostGoing
      BY DEF HostGoing
    <3> QED BY <3>1, <1>1, <1>2, <1>6, HostOntoMoves DEF HostTypes
  <2>6. /\ file' \in HostFiles
        /\ \/ file' = file
           \/ /\ \A d \in Engines : file'.pid[1] # d
              /\ \A d \in Engines \ {e} : server[d].running => d \in history'.unsaid
    <3>1. CASE file' = file
      BY <3>1, <1>2 DEF HostTypes
    <3>2. CASE /\ file' = [Host!NoFile EXCEPT !.open = file.open \cup {e}]
               /\ history' = [history EXCEPT !.unsaid = @ \cup {d \in Engines \ {e} : server[d].running}]
      <4>1. file' = [pid |-> <<Host!None, 0>>, port |-> Host!None, token |-> 0, open |-> file.open \cup {e}]
        BY <3>2 DEF Host!NoFile
      <4>2. file' \in HostFiles
        BY <4>1, <1>2 DEF HostTypes, HostFiles
      <4> QED BY <4>1, <4>2, <3>2, <1>2, NameAssumption DEF HostTypes
    <3> QED BY <3>1, <3>2, <1>6
  <2>7. HostTypes'
    BY <1>2, <1>4, <2>2, <2>3, <2>4, <2>5, <2>6 DEF HostTypes
  <2>8. ASSUME NEW d \in Engines \ {e} PROVE HostApart(d)
    <3>1. \A p \in Ports : bound[p] = d => bound'[p] = d
      BY <1>6, <2>3, NameAssumption
    <3>2. HostFileApart(d)
      <4>1. CASE file' = file
        BY <4>1, <1>2, <2>4, HostFileStays
      <4>2. CASE file'.pid[1] # d /\ (server[d].running => d \in history'.unsaid)
        BY <4>2 DEF HostFileApart
      <4> QED BY <4>1, <4>2, <2>6
    <3> QED BY <3>1, <3>2, <1>2, <2>2, <2>4, <2>5 DEF HostApart
  <2>9. HostAlive(e)'
    BY <1>2, <2>1, <2>6 DEF HostWell, HostAlive
  <2>10. HostListens(e)'
    <3>1. \A b \in Callers : HostLeaving(e, b)' => b # c /\ HostLeaving(e, b) /\ call'[e][b] = call[e][b]
      BY <2>4 DEF HostLeaving
    <3>2. \A b \in Callers : HostLeaving(e, b) => call[e][b].srv # port
      BY <1>6, <2>1, NameAssumption DEF HostWell, HostListens
    <3> QED BY <3>1, <3>2, <1>3, <2>1, <2>2, <2>3 DEF HostWell, HostListens
  <2>11. HostTold(e)' /\ HostWrites(e)'
    <3>1. CASE file' = file
      <4>1. \A b \in Callers : call[e][b].at \in {"look", "remove"} => call'[e][b].at = call[e][b].at
        BY <1>1, <2>4
      <4> QED BY <3>1, <4>1, <1>2, <1>6, <2>1, <2>2 DEF HostWell, HostTold, HostWrites, Host!Own
    <3>2. CASE file'.pid[1] # e
      BY <3>2, <2>2 DEF HostTold, HostWrites, Host!Own
    <3> QED BY <3>1, <3>2, <2>6
  <2>12. HostOrderly(e)'
    <3> SUFFICES ASSUME e \notin history.crossed PROVE HostOrderly(e)'
      BY <2>5 DEF HostOrderly
    <3>1. \A b \in Callers \ {c} : call'[e][b] = Host!NoCall
      BY <1>1, <2>1, <2>4 DEF HostWell, HostOrderly
    <3> QED BY <3>1, <2>4 DEF HostOrderly, Host!NoCall
  <2>13. HostFindable(e)'
    BY <2>5 DEF HostFindable
  <2>14. HostWell(e)'
    BY <2>9, <2>10, <2>11, <2>12, <2>13 DEF HostWell
  <2> QED BY <2>7, <2>8, <2>14, HostOthersKeep
<1> QED BY <1>5, <1>6 DEF Host!Listen

LEMMA HostWriteFileKeeps ==
    ASSUME HostInv, NEW e \in Engines, NEW c \in Callers, Host!WriteFile(e, c)
    PROVE  HostInv'
<1> USE DEF HostInv
<1>1. /\ call[e][c].at = "write" /\ call' = Host!Over(e, c) /\ HostTypes
      /\ UNCHANGED <<mode, server, bound, token, pid>>
  BY DEF Host!WriteFile
<1>2. HostWell(e) /\ server[e].running
  BY <1>1 DEF HostWell, HostWrites
<1>3. pid[e].up /\ pid[e].number \in Nat
  BY <1>1, <1>2 DEF HostWell, HostAlive, HostTypes
<1>4. /\ call' \in [Engines -> [Callers -> {Host!NoCall} \cup HostAsked]]
      /\ call'[e][c] = Host!NoCall /\ call'[e][c].at = "idle"
      /\ \A b \in Callers \ {c} : call'[e][b] = call[e][b]
      /\ \A d \in Engines \ {e} : call'[d] = call[d]
  BY <1>1, HostOverMoves
<1> DEFINE others == {d \in Engines \ {e} : server[d].running}
<1>5. \A said \in BOOLEAN :
        /\ Host!Unsaid(e, said) \in [crossed : SUBSET Engines, unsaid : SUBSET Engines]
        /\ Host!Unsaid(e, said).crossed = history.crossed
        /\ Host!Unsaid(e, said).unsaid =
                IF said THEN (history.unsaid \cup others) \ {e} ELSE history.unsaid \cup others \cup {e}
  BY <1>1 DEF Host!Unsaid, HostTypes
<1>6. Host!Removing(e)' => Host!Removing(e)
  BY <1>4 DEF Host!Removing, Host!At
<1>7. /\ history' \in [crossed : SUBSET Engines, unsaid : SUBSET Engines] /\ history'.crossed = history.crossed
      /\ history.unsaid \ {e} \subseteq history'.unsaid
      /\ file' \in HostFiles
      /\ \/ file' = Host!Written(e) /\ others \subseteq history'.unsaid
            /\ (e \notin history'.unsaid => ~Host!Removing(e))
         \/ file' = Host!Empty(e) /\ others \cup {e} \subseteq history'.unsaid
         \/ file'.pid = file.pid /\ file'.port = file.port /\ file'.token = file.token /\ e \in history'.unsaid
  <2>1. Host!Written(e) \in HostFiles /\ Host!Empty(e) \in HostFiles
    BY <1>1, <1>3 DEF Host!Written, Host!Empty, Host!Own, Host!NoFile, HostFiles, HostTypes
  <2>2. CASE file' = Host!Written(e) /\ history' = Host!Unsaid(e, ~Host!Removing(e))
    <3>1. CASE Host!Removing(e)
      <4>1. Host!Unsaid(e, ~Host!Removing(e)) = Host!Unsaid(e, FALSE)
        BY <3>1 DEF Host!Unsaid
      <4> QED BY <3>1, <4>1, <2>1, <2>2, <1>5
    <3>2. CASE ~Host!Removing(e)
      <4>1. Host!Unsaid(e, ~Host!Removing(e)) = Host!Unsaid(e, TRUE)
        BY <3>2 DEF Host!Unsaid
      <4> QED BY <3>2, <4>1, <2>1, <2>2, <1>5
    <3> QED BY <3>1, <3>2
  <2>3. CASE file' = Host!Empty(e) /\ history' = Host!Unsaid(e, FALSE)
    BY <2>1, <2>3, <1>5
  <2>4. CASE /\ file' = file \/ file' = [file EXCEPT !.open = @ \ {e}]
             /\ history' = [history EXCEPT !.unsaid = @ \cup {e}]
    BY <2>4, <1>1 DEF HostTypes, HostFiles
  <2> QED BY <2>2, <2>3, <2>4 DEF Host!WriteFile
<1>8. HostTypes'
  BY <1>1, <1>4, <1>7 DEF HostTypes
<1>9. ASSUME NEW d \in Engines \ {e} PROVE HostApart(d)
  <2>1. HostFileApart(d)
    <3>1. CASE (file' = Host!Written(e) \/ file' = Host!Empty(e)) /\ others \subseteq history'.unsaid
      <4>2. Host!Written(e).pid[1] = e
        BY DEF Host!Written, Host!Own
      <4>3. Host!Empty(e).pid[1] = Host!None
        BY <1>1 DEF Host!Empty, Host!NoFile, HostTypes, HostFiles
      <4>1. file'.pid[1] # d
        BY <3>1, <4>2, <4>3, NameAssumption
      <4> QED BY <3>1, <4>1 DEF HostFileApart
    <3>2. CASE file'.pid = file.pid /\ file'.port = file.port /\ file'.token = file.token
      BY <3>2, <1>1, <1>4, HostFileStays
    <3> QED BY <3>1, <3>2, <1>7
  <2> QED BY <2>1, <1>1, <1>4, <1>7 DEF HostApart
<1>10. file'.pid[1] = e => file'.pid[2] <= pid[e].number
  <2>1. CASE file' = Host!Written(e)
    BY <2>1, <1>3 DEF Host!Written, Host!Own
  <2>2. CASE file' = Host!Empty(e)
    BY <2>2, <1>1, NameAssumption DEF Host!Empty, Host!NoFile, HostTypes, HostFiles
  <2>3. CASE file'.pid = file.pid
    BY <2>3, <1>2 DEF HostWell, HostAlive
  <2> QED BY <2>1, <2>2, <2>3, <1>7
<1>11. HostAlive(e)'
  BY <1>1, <1>2, <1>3, <1>10 DEF HostWell, HostAlive
<1>12. HostListens(e)'
  BY <1>1, <1>2, <1>4 DEF HostWell, HostListens, HostLeaving
<1>13. HostTold(e)' /\ HostWrites(e)'
  <2>1. HostWrites(e)'
    BY <1>1, <1>2 DEF HostWrites
  <2>2. CASE file' = Host!Written(e)
    <3>1. server[e] = [running |-> TRUE, port |-> file'.port, token |-> file'.token]
      BY <2>2, <1>1, <1>2 DEF Host!Written, HostTypes
    <3> QED BY <3>1, <2>1, <1>1 DEF HostTold
  <2>3. CASE file' = Host!Empty(e)
    BY <2>1, <2>3, <1>1, NameAssumption DEF Host!Empty, Host!NoFile, HostTypes, HostFiles, HostTold, Host!Own
  <2>4. CASE file'.pid = file.pid /\ file'.port = file.port /\ file'.token = file.token
    <3>1. \A b \in Callers : call[e][b].at \in {"look", "remove"} => call'[e][b].at = call[e][b].at
      BY <1>1, <1>4
    <3> QED BY <2>1, <2>4, <3>1, <1>1, <1>2 DEF HostWell, HostTold, Host!Own
  <2> QED BY <2>2, <2>3, <2>4, <1>7
<1>14. HostOrderly(e)'
  <2> SUFFICES ASSUME e \notin history.crossed PROVE HostOrderly(e)'
    BY <1>7 DEF HostOrderly
  <2>1. call[e][c] # Host!NoCall
    BY <1>1 DEF Host!NoCall
  <2>2. \A b \in Callers : call'[e][b] = Host!NoCall
    BY <2>1, <1>2, <1>4 DEF HostWell, HostOrderly
  <2> QED BY <2>2 DEF HostOrderly, Host!NoCall
<1>15. HostFindable(e)'
  <2> SUFFICES ASSUME e \notin history'.unsaid PROVE HostFindable(e)'
    BY DEF HostFindable
  <2>1. file' = Host!Written(e) /\ ~Host!Removing(e)
    BY <1>7
  <2>2. file'.pid = Host!Own(e)'
    BY <2>1, <1>1 DEF Host!Written, Host!Own
  <2> QED BY <2>1, <2>2, <1>6 DEF HostFindable
<1>16. HostWell(e)'
  BY <1>11, <1>12, <1>13, <1>14, <1>15 DEF HostWell
<1> QED BY <1>8, <1>9, <1>16, HostOthersKeep

LEMMA HostDieKeeps == ASSUME HostInv, NEW e \in Engines, Host!Die(e) PROVE HostInv'
<1> USE DEF HostInv
<1>1. /\ pid' = [pid EXCEPT ![e].up = FALSE]
      /\ server' = [server EXCEPT ![e] = Host!Off]
      /\ bound' = [p \in Ports |-> IF bound[p] = e THEN Host!None ELSE bound[p]]
      /\ call' = [call EXCEPT ![e] = [c \in Callers |-> Host!NoCall]]
      /\ file' = [file EXCEPT !.open = @ \ {e}]
      /\ UNCHANGED <<mode, token, history>>
  BY DEF Host!Die
<1>2. pid' \in [Engines -> [up : BOOLEAN, number : Nat]]
      /\ ~pid'[e].up /\ pid'[e].number = pid[e].number /\ \A d \in Engines \ {e} : pid'[d] = pid[d]
  BY <1>1 DEF HostTypes
<1>3. /\ server' \in [Engines -> [running : BOOLEAN, port : Ports \cup {Host!None}, token : Nat]]
      /\ ~server'[e].running /\ \A d \in Engines \ {e} : server'[d] = server[d]
  BY <1>1 DEF HostTypes, Host!Off
<1>4. /\ call' \in [Engines -> [Callers -> {Host!NoCall} \cup HostAsked]]
      /\ \A c \in Callers : call'[e][c] = Host!NoCall
      /\ \A d \in Engines \ {e} : call'[d] = call[d]
  BY <1>1 DEF HostTypes
<1>9. file' \in HostFiles /\ file'.pid = file.pid /\ file'.port = file.port /\ file'.token = file.token
  BY <1>1 DEF HostTypes, HostFiles
<1>5. HostTypes'
  BY <1>1, <1>2, <1>3, <1>4, <1>9 DEF HostTypes
<1>7. Host!NoCall.at = "idle"
  BY DEF Host!NoCall
<1>6. ASSUME NEW d \in Engines \ {e} PROVE HostApart(d)
  <2>1. HostFileApart(d)
    BY <1>4, <1>7, <1>9, HostFileStays
  <2> QED BY <2>1, <1>1, <1>2, <1>3, <1>4 DEF HostApart
<1>8. HostWell(e)'
  BY <1>1, <1>2, <1>3, <1>4, <1>7, <1>9
     DEF HostWell, HostAlive, HostListens, HostTold, HostWrites, HostOrderly, HostFindable, Host!Quiet, HostLeaving
<1> QED BY <1>5, <1>6, <1>8, HostOthersKeep

LEMMA HostLaunchKeeps == ASSUME HostInv, NEW e \in Engines, NEW c \in Callers, Host!Launch(e, c) PROVE HostInv'
<1> USE DEF HostInv
<1> DEFINE next == [at |-> "start", kind |-> "enable", srv |-> Host!None]
<1>1. /\ ~pid[e].up /\ pid' = [pid EXCEPT ![e] = [up |-> TRUE, number |-> @.number + 1]]
      /\ call' = [call EXCEPT ![e][c] = next]
      /\ history' = [history EXCEPT !.crossed = @ \ {e}]
      /\ UNCHANGED <<mode, server, bound, token, file>>
  BY DEF Host!Launch
<1>2. next \in {Host!NoCall} \cup HostAsked /\ next.at = "start"
  BY DEF HostAsked, HostGoing
<1> HIDE DEF next
<1>3. /\ call' \in [Engines -> [Callers -> {Host!NoCall} \cup HostAsked]]
      /\ call'[e][c] = next /\ \A b \in Callers \ {c} : call'[e][b] = call[e][b]
      /\ \A d \in Engines \ {e} : call'[d] = call[d]
  BY <1>1, <1>2, HostCallMoves
<1>4. pid' \in [Engines -> [up : BOOLEAN, number : Nat]] /\ pid[e].number \in Nat
      /\ pid'[e].up /\ pid'[e].number = pid[e].number + 1 /\ \A d \in Engines \ {e} : pid'[d] = pid[d]
  BY <1>1 DEF HostTypes
<1>5. HostTypes'
  BY <1>1, <1>3, <1>4 DEF HostTypes
<1>6. ASSUME NEW d \in Engines \ {e} PROVE HostApart(d)
  <2>1. HostFileApart(d)
    BY <1>1, <1>2, <1>3, HostFileStays
  <2> QED BY <2>1, <1>1, <1>3, <1>4 DEF HostApart, HostTypes
<1>7. HostWell(e) /\ Host!Quiet(e) /\ ~server[e].running
  BY <1>1 DEF HostWell, HostAlive
<1>8. Host!NoCall.at = "idle" /\ \A b \in Callers \ {c} : call'[e][b] = Host!NoCall
  BY <1>3, <1>7 DEF Host!NoCall, Host!Quiet
<1>9. file.pid \in (Engines \cup {Host!None}) \X Nat
  BY DEF HostTypes, HostFiles
<1>10. HostAlive(e)'
  BY <1>1, <1>4, <1>7, <1>9 DEF HostWell, HostAlive
<1>11. HostTold(e)'
  <2>1. file.pid # <<e, pid[e].number + 1>>
    <3> SUFFICES ASSUME file.pid = <<e, pid[e].number + 1>> PROVE FALSE
      OBVIOUS
    <3>1. file.pid[1] = e /\ file.pid[2] = pid[e].number + 1
      OBVIOUS
    <3> QED BY <3>1, <1>4, <1>7 DEF HostWell, HostAlive
  <2> QED BY <2>1, <1>1, <1>4 DEF HostTold, Host!Own
<1>12. HostListens(e)' /\ HostWrites(e)' /\ HostOrderly(e)' /\ HostFindable(e)'
  BY <1>1, <1>2, <1>3, <1>7, <1>8 DEF HostWell, HostListens, HostLeaving, HostWrites, HostOrderly, HostFindable
<1>13. HostWell(e)'
  BY <1>10, <1>11, <1>12 DEF HostWell
<1> QED BY <1>5, <1>6, <1>13, HostOthersKeep

LEMMA HostNextKeeps == ASSUME HostInv, [Host!Next]_(Host!vars) PROVE HostInv'
<1>1. CASE UNCHANGED Host!vars
  <2>1. HostTypes'
    BY <1>1 DEF Host!vars, HostInv, HostTypes
  <2>2. ASSUME NEW e \in Engines PROVE HostWell(e)'
    <3>1. HostWell(e) /\ Host!Own(e)' = Host!Own(e) /\ (Host!Removing(e)' <=> Host!Removing(e))
      BY <1>1 DEF Host!vars, HostInv, Host!Own, Host!Removing, Host!At
    <3> QED BY <1>1, <3>1 DEF Host!vars, HostWell, HostAlive, HostListens, HostTold, HostWrites, HostOrderly,
                              HostFindable, Host!Quiet, HostLeaving
  <2> QED BY <2>1, <2>2 DEF HostInv
<1> QED
  BY <1>1, HostChooseKeeps, HostBeginKeeps, HostMintKeeps, HostCycleKeeps, HostStopKeeps, HostLookKeeps,
     HostRemoveKeeps, HostShutdownKeeps, HostReadModeKeeps, HostListenKeeps, HostWriteFileKeeps,
     HostLaunchKeeps, HostDieKeeps
  DEF Host!Next, Host!Step

LEMMA HostInvAdvertises == ASSUME HostInv PROVE Host!Advertised
<1> USE DEF HostInv
<1>1. ASSUME NEW e \in Engines, file.pid = Host!Own(e), pid[e].up, ~Host!At(e, {"look", "remove"})
      PROVE  /\ server[e] = [running |-> TRUE, port |-> file.port, token |-> file.token]
             /\ bound[file.port] = e
  <2>1. server[e] = [running |-> TRUE, port |-> file.port, token |-> file.token]
    BY <1>1 DEF HostWell, HostTold, Host!At
  <2>2. server[e].running => bound[server[e].port] = e
    BY DEF HostWell, HostListens
  <2>3. server[e].running /\ server[e].port = file.port
    BY <2>1
  <2> QED BY <2>1, <2>2, <2>3
<1>2. ASSUME NEW e \in Engines, server[e].running, Host!Quiet(e), e \notin history.crossed \cup history.unsaid
      PROVE  file.pid = Host!Own(e)
  BY <1>2 DEF HostWell, HostFindable, Host!Quiet, Host!NoCall
<1> QED BY <1>1, <1>2 DEF Host!Advertised, Host!NothingStale, Host!RunningIsFound

(* The file names no server that is gone, and who runs can be found by it.     *)
(* (host.go Start, Stop, Restart; discovery.go)                                *)
THEOREM HostSafe == Spec => []Advertised
<1> DEFINE I == part = "host" => HostInv
<1>1. Init => I
  BY HostStarts DEF Init
<1>2. I /\ [Next]_vars => I'
  BY PartStays, HostNextKeeps
<1>3. I => Advertised
  BY HostInvAdvertises DEF Advertised
<1> QED BY <1>1, <1>2, <1>3, PTL DEF Spec

-----------------------------------------------------------------------------
(* Ledger. A row is put aside for a later one only (LedgerRows), a row that is *)
(* pinned for as long as an agent's call has run is pinned (LedgerHolds), and  *)
(* a call that got past the look at the pin is not at such a row (LedgerGoing).*)

LedgerWhats == {"add", "replace", "edit", "delete", "pin", "unpin"}
LedgerFact == [body : FactTexts, at : Scenes \cup {Facts!None}, to : Scenes \cup {Facts!None},
                                                                                  pinned : BOOLEAN,
by : 0 .. MaxRows]
LedgerAsking == [at : {"asked", "looked"}, what : LedgerWhats, id : 0 .. MaxRows, body : FactTexts,
                       scene : Scenes \cup {Facts!None}]
LedgerReplacing == [at : {"added", "replacing"}, id : Facts!Ids, new : Facts!Ids,
                          scene : Scenes \cup {Facts!None}]
LedgerPinning == [at : {"pinning"}, id : Facts!Ids, pinned : BOOLEAN]
LedgerEditing == [at : {"editing"}, id : Facts!Ids, row : LedgerFact]
LedgerCalls == LedgerAsking \cup LedgerReplacing \cup LedgerPinning \cup LedgerEditing

LedgerTypes ==
    /\ row \in [Facts!Ids -> {Facts!Gone} \cup LedgerFact] /\ made \in 0 .. MaxRows
    /\ scenes \in SUBSET Scenes
    /\ call \in [Facts!Users -> {Facts!Idle} \cup LedgerCalls]
    /\ held \in [Facts!Users -> SUBSET Facts!Ids]

LedgerRows ==
    /\ \A i \in Facts!Ids : i > made => row[i] = Facts!Gone
    /\ \A i \in Facts!Ids : Facts!There(i) /\ row[i].by # Facts!None => row[i].by \in i + 1 .. made

LedgerHolds == \A c \in Facts!Users : \A i \in held[c] : Facts!There(i) /\ row[i].pinned

LedgerGoing(c) ==
    /\ call[c] # Facts!Idle => call[c].id <= made
    /\ call[c].at \in {"asked", "looked"} =>
        /\ call[c].what # "add" => call[c].id # Facts!None
        /\ call[c].what \in {"pin", "unpin"} => c \in Windows
    /\ call[c].at \in {"added", "replacing"} => call[c].new \in call[c].id + 1 .. made
    /\ call[c].at = "pinning" => c \in Windows
    /\ c \in Agents /\ call[c].at \in {"looked", "editing", "replacing", "pinning"} => call[c].id \notin held[c]

LedgerInv == LedgerTypes /\ LedgerRows /\ LedgerHolds /\ \A c \in Facts!Users : LedgerGoing(c)

LedgerFair == Facts!PinsHold /\ Facts!NotTheEdits

LEMMA LedgerShapes ==
    /\ Facts!Idle \notin LedgerCalls /\ Facts!Idle.at = "idle" /\ Facts!Gone \notin LedgerFact
    /\ \A r \in LedgerAsking : r.at \in {"asked", "looked"} /\ r # Facts!Idle
    /\ \A r \in LedgerReplacing : r.at \in {"added", "replacing"} /\ r # Facts!Idle
    /\ \A r \in LedgerPinning : r.at = "pinning" /\ r # Facts!Idle
    /\ \A r \in LedgerEditing : r.at = "editing" /\ r # Facts!Idle
<1>1. Facts!Idle.at = "idle"
  BY DEF Facts!Idle
<1>2. /\ \A r \in LedgerAsking : r.at \in {"asked", "looked"} /\ r # Facts!Idle
      /\ \A r \in LedgerReplacing : r.at \in {"added", "replacing"} /\ r # Facts!Idle
      /\ \A r \in LedgerPinning : r.at = "pinning" /\ r # Facts!Idle
      /\ \A r \in LedgerEditing : r.at = "editing" /\ r # Facts!Idle
  BY <1>1 DEF LedgerAsking, LedgerReplacing, LedgerPinning, LedgerEditing
<1>3. Facts!Gone \notin LedgerFact
  <2> SUFFICES ASSUME Facts!Gone \in LedgerFact PROVE FALSE
    OBVIOUS
  <2>1. DOMAIN Facts!Gone = {"body"}
    BY DEF Facts!Gone
  <2>2. "at" \in DOMAIN Facts!Gone
    BY DEF LedgerFact
  <2> QED BY <2>1, <2>2
<1> QED BY <1>1, <1>2, <1>3 DEF LedgerCalls

LEMMA LedgerStarts == ASSUME Facts!Init PROVE LedgerInv
  BY RowsAssumption, LedgerShapes
     DEF Facts!Init, LedgerInv, LedgerTypes, LedgerRows, LedgerHolds, LedgerGoing, Facts!There

\* What a caller in one state has in hand.
LEMMA LedgerInHand ==
    ASSUME LedgerTypes, NEW c \in Facts!Users
    PROVE  /\ call[c].at \in {"asked", "looked"} => call[c] \in LedgerAsking
           /\ call[c].at \in {"added", "replacing"} => call[c] \in LedgerReplacing
           /\ call[c].at = "pinning" => call[c] \in LedgerPinning
           /\ call[c].at = "editing" => call[c] \in LedgerEditing
  BY LedgerShapes DEF LedgerTypes, LedgerCalls

LEMMA LedgerSteps ==
    ASSUME LedgerTypes, NEW c \in Facts!Users, NEW next, next \in {Facts!Idle} \cup LedgerCalls,
           Facts!Step(c, next)
    PROVE  /\ call' \in [Facts!Users -> {Facts!Idle} \cup LedgerCalls] /\ call'[c] = next
           /\ \A d \in Facts!Users \ {c} : call'[d] = call[d]
  BY DEF LedgerTypes, Facts!Step

LEMMA LedgerOthersGo ==
    ASSUME LedgerInv, NEW c \in Facts!Users,
           \A d \in Facts!Users \ {c} : call'[d] = call[d] /\ held'[d] \subseteq held[d],
           made' \in Nat, made <= made'
    PROVE  \A d \in Facts!Users \ {c} : LedgerGoing(d)'
<1> SUFFICES ASSUME NEW d \in Facts!Users \ {c} PROVE LedgerGoing(d)'
  OBVIOUS
<1>1. LedgerGoing(d) /\ made \in Nat /\ call[d] \in {Facts!Idle} \cup LedgerCalls
  BY RowsAssumption DEF LedgerInv, LedgerTypes
<1>2. call[d] # Facts!Idle => call[d].id \in Nat
  BY <1>1, RowsAssumption
     DEF LedgerCalls, LedgerAsking, LedgerReplacing, LedgerPinning, LedgerEditing, Facts!Ids
<1>3. call[d].at \in {"added", "replacing"} => call[d].id \in Nat /\ call[d].new \in Nat
  BY LedgerInHand, RowsAssumption DEF LedgerInv, LedgerReplacing, Facts!Ids
<1> QED BY <1>1, <1>2, <1>3 DEF LedgerGoing

\* A step that changes no row.
LEMMA LedgerRowsStay ==
    ASSUME LedgerInv, UNCHANGED row PROVE LedgerFair
<1>1. Facts!PinsHold
  BY DEF Facts!PinsHold
<1>2. Facts!NotTheEdits
  BY DEF Facts!NotTheEdits, LedgerInv, LedgerTypes
<1> QED BY <1>1, <1>2 DEF LedgerFair

LEMMA LedgerOnlyCall ==
    ASSUME LedgerInv, NEW c \in Facts!Users, NEW next, next \in {Facts!Idle} \cup LedgerCalls,
           Facts!Step(c, next),
           UNCHANGED <<row, made, scenes, held>>, LedgerGoing(c)'
    PROVE  LedgerInv' /\ LedgerFair
<1> USE DEF LedgerInv
<1>1. /\ call' \in [Facts!Users -> {Facts!Idle} \cup LedgerCalls] /\ call'[c] = next
      /\ \A d \in Facts!Users \ {c} : call'[d] = call[d]
  BY LedgerSteps
<1>2. LedgerTypes' /\ LedgerRows' /\ LedgerHolds'
  BY <1>1 DEF LedgerTypes, LedgerRows, LedgerHolds, Facts!There
<1>3. \A d \in Facts!Users \ {c} : LedgerGoing(d)'
  BY <1>1, LedgerOthersGo, RowsAssumption DEF LedgerTypes
<1> QED BY <1>2, <1>3, LedgerRowsStay

LEMMA LedgerOver == ASSUME NEW c, call'[c] = Facts!Idle PROVE LedgerGoing(c)'
  BY LedgerShapes DEF LedgerGoing

LEMMA LedgerAsksKeeps ==
    ASSUME LedgerInv, NEW c \in Facts!Users, NEW what \in LedgerWhats, NEW i \in 0 .. made,
           NEW text \in FactTexts,
           NEW at \in Scenes \cup {Facts!None}, Facts!Asks(c, what, i, text, at),
           what # "add" => i # Facts!None, what \in {"pin", "unpin"} => c \in Windows
    PROVE  LedgerInv' /\ LedgerFair
<1> USE DEF LedgerInv
<1> DEFINE next == [at |-> IF c \in Agents /\ i # Facts!None THEN "asked" ELSE "looked",
                    what |-> what, id |-> i, body |-> text, scene |-> at]
<1>1. Facts!Step(c, next) /\ UNCHANGED <<row, made, scenes>>
      /\ held' = [held EXCEPT ![c] = {j \in Facts!Standing : row[j].pinned}]
  BY DEF Facts!Asks
<1>2. i \in 0 .. MaxRows /\ made \in Nat
  BY RowsAssumption DEF LedgerTypes
<1>3. next \in LedgerAsking /\ next.id = i /\ next.what = what
      /\ next.at = IF c \in Agents /\ i # Facts!None THEN "asked" ELSE "looked"
  BY <1>2 DEF LedgerAsking, LedgerWhats
<1> HIDE DEF next
<1>4. /\ call' \in [Facts!Users -> {Facts!Idle} \cup LedgerCalls] /\ call'[c] = next
      /\ \A d \in Facts!Users \ {c} : call'[d] = call[d]
  BY <1>1, <1>3, LedgerSteps DEF LedgerCalls
<1>5. /\ held' \in [Facts!Users -> SUBSET Facts!Ids] /\ held'[c] = {j \in Facts!Standing : row[j].pinned}
      /\ \A d \in Facts!Users \ {c} : held'[d] = held[d]
  BY <1>1 DEF LedgerTypes, Facts!Standing
<1>6. LedgerTypes' /\ LedgerRows'
  BY <1>1, <1>4, <1>5 DEF LedgerTypes, LedgerRows, Facts!There
<1>7. LedgerHolds'
  BY <1>1, <1>5 DEF LedgerHolds, Facts!There, Facts!Standing
<1>8. \A d \in Facts!Users \ {c} : LedgerGoing(d)'
  BY <1>1, <1>2, <1>4, <1>5, LedgerOthersGo
<1>9. LedgerGoing(c)'
  <2>1. c \in Agents /\ next.at = "looked" => i = Facts!None
    BY <1>3
  <2>2. Facts!None \notin held'[c]
    BY <1>5 DEF Facts!Standing, Facts!Ids, Facts!None
  <2> QED BY <2>1, <2>2, <1>1, <1>2, <1>3, <1>4 DEF LedgerGoing
<1> QED BY <1>1, <1>6, <1>7, <1>8, <1>9, LedgerRowsStay

LEMMA LedgerLooksKeeps ==
    ASSUME LedgerInv, NEW c \in Facts!Users, Facts!Looks(c)
    PROVE  LedgerInv' /\ LedgerFair
<1> USE DEF LedgerInv
<1>1. call[c].at = "asked" /\ call[c] \in LedgerAsking /\ call[c] # Facts!Idle /\ LedgerGoing(c)
  BY LedgerInHand, LedgerShapes DEF Facts!Looks
<1>2. CASE Facts!Ends(c)
  <2>1. call'[c] = Facts!Idle
    BY <1>2, LedgerSteps DEF Facts!Ends
  <2> QED BY <1>2, <2>1, LedgerOver, LedgerOnlyCall DEF Facts!Ends, Facts!Looks
<1>3. CASE Facts!There(call[c].id) /\ ~Facts!Barred(c, call[c].id)
      /\ Facts!Step(c, [call[c] EXCEPT !.at = "looked"])
  <2> DEFINE next == [call[c] EXCEPT !.at = "looked"]
  <2>1. next \in LedgerAsking /\ next.at = "looked" /\ next.id = call[c].id /\ next.what = call[c].what
    BY <1>1 DEF LedgerAsking
  <2>2. next \in {Facts!Idle} \cup LedgerCalls
    BY <2>1 DEF LedgerCalls
  <2> HIDE DEF next
  <2>3. call'[c] = next /\ UNCHANGED <<row, made, scenes, held>>
    BY <2>2, <1>3, LedgerSteps DEF Facts!Looks, next
  <2>4. c \in Agents => call[c].id \notin held[c]
    BY <1>3 DEF Facts!Barred, LedgerHolds
  <2>5. LedgerGoing(c)'
    BY <1>1, <2>1, <2>3, <2>4, LedgerShapes DEF LedgerGoing
  <2> QED BY <1>3, <2>2, <2>3, <2>5, LedgerOnlyCall DEF next
<1> QED BY <1>2, <1>3 DEF Facts!Looks

LEMMA LedgerGetsKeeps == ASSUME LedgerInv, NEW c \in Facts!Users, Facts!Gets(c) PROVE LedgerInv' /\ LedgerFair
<1> USE DEF LedgerInv
<1> DEFINE i == call[c].id
<1>1. UNCHANGED <<row, made, scenes, held>> /\ LedgerGoing(c)
  BY DEF Facts!Gets
<1>2. CASE Facts!Ends(c)
  <2>1. call'[c] = Facts!Idle
    BY <1>2, LedgerSteps DEF Facts!Ends
  <2> QED BY <1>1, <1>2, <2>1, LedgerOver, LedgerOnlyCall DEF Facts!Ends
<1>3. CASE call[c].at = "added" /\ ~Facts!Barred(c, i) /\ Facts!There(i)
      /\ Facts!Step(c, [call[c] EXCEPT !.at = "replacing"])
  <2> DEFINE next == [call[c] EXCEPT !.at = "replacing"]
  <2>1. call[c] \in LedgerReplacing
    BY <1>3, LedgerInHand
  <2>2. next \in LedgerReplacing /\ next.at = "replacing" /\ next.id = i /\ next.new = call[c].new
    BY <2>1 DEF LedgerReplacing
  <2>3. next \in {Facts!Idle} \cup LedgerCalls
    BY <2>2 DEF LedgerCalls
  <2> HIDE DEF next
  <2>4. call'[c] = next
    BY <2>3, <1>3, LedgerSteps DEF next
  <2>5. c \in Agents => i \notin held[c]
    BY <1>3 DEF Facts!Barred, LedgerHolds
  <2>6. LedgerGoing(c)'
    BY <1>1, <1>3, <2>1, <2>2, <2>4, <2>5, LedgerShapes DEF LedgerGoing
  <2> QED BY <1>1, <1>3, <2>3, <2>4, <2>6, LedgerOnlyCall DEF next
<1>4. CASE /\ call[c].at = "looked" /\ call[c].what \in {"pin", "unpin"} /\ Facts!There(i)
           /\ Facts!Step(c, [at |-> "pinning", id |-> i, pinned |-> call[c].what = "pin"])
  <2> DEFINE next == [at |-> "pinning", id |-> i, pinned |-> call[c].what = "pin"]
  <2>1. call[c] \in LedgerAsking /\ call[c] # Facts!Idle
    BY <1>4, LedgerInHand, LedgerShapes
  <2>2. i \in Facts!Ids /\ c \in Windows /\ i <= made
    BY <1>1, <1>4, <2>1 DEF LedgerGoing, LedgerAsking, Facts!Ids, Facts!None
  <2>3. next \in LedgerPinning /\ next.at = "pinning" /\ next.id = i
    BY <2>2 DEF LedgerPinning
  <2>4. next \in {Facts!Idle} \cup LedgerCalls
    BY <2>3 DEF LedgerCalls
  <2> HIDE DEF next
  <2>5. call'[c] = next
    BY <2>4, <1>4, LedgerSteps DEF next
  <2>6. c \in Agents => i \notin held[c]
    BY <1>1, <1>4 DEF LedgerGoing
  <2>7. LedgerGoing(c)'
    BY <1>1, <2>2, <2>3, <2>5, <2>6, LedgerShapes DEF LedgerGoing
  <2> QED BY <1>1, <1>4, <2>4, <2>5, <2>7, LedgerOnlyCall DEF next
<1>5. CASE /\ call[c].at = "looked" /\ call[c].what = "edit" /\ Facts!There(i)
           /\ Facts!Step(c, [at |-> "editing", id |-> i, row |-> [row[i] EXCEPT !.body = call[c].body]])
  <2> DEFINE next == [at |-> "editing", id |-> i, row |-> [row[i] EXCEPT !.body = call[c].body]]
  <2>1. call[c] \in LedgerAsking /\ call[c] # Facts!Idle
    BY <1>5, LedgerInHand, LedgerShapes
  <2>2. i \in Facts!Ids /\ i <= made /\ call[c].body \in FactTexts
    BY <1>1, <1>5, <2>1 DEF LedgerGoing, LedgerAsking, Facts!Ids, Facts!None
  <2>3. row[i] \in LedgerFact
    BY <1>5, <2>2 DEF LedgerTypes, Facts!There
  <2>4. [row[i] EXCEPT !.body = call[c].body] \in LedgerFact
    BY <2>2, <2>3 DEF LedgerFact
  <2>5. next \in LedgerEditing /\ next.at = "editing" /\ next.id = i
    BY <2>2, <2>4 DEF LedgerEditing
  <2>6. next \in {Facts!Idle} \cup LedgerCalls
    BY <2>5 DEF LedgerCalls
  <2> HIDE DEF next
  <2>7. call'[c] = next
    BY <2>6, <1>5, LedgerSteps DEF next
  <2>8. c \in Agents => i \notin held[c]
    BY <1>1, <1>5 DEF LedgerGoing
  <2>9. LedgerGoing(c)'
    BY <1>1, <2>2, <2>5, <2>7, <2>8, LedgerShapes DEF LedgerGoing
  <2> QED BY <1>1, <1>5, <2>6, <2>7, <2>9, LedgerOnlyCall DEF next
<1> QED BY <1>2, <1>3, <1>4, <1>5 DEF Facts!Gets

LEMMA LedgerOneActs ==
    ASSUME NEW c \in Facts!Users, \A d \in Facts!Users \ {c} : call'[d] = call[d],
           c \in Agents => \A j \in held[c] : row'[j] = row[j], Facts!NotTheEdits
    PROVE  LedgerFair
  BY DEF LedgerFair, Facts!PinsHold, Facts!Users

LEMMA LedgerAddsKeeps == ASSUME LedgerInv, NEW c \in Facts!Users, Facts!Adds(c) PROVE LedgerInv' /\ LedgerFair
<1> USE DEF LedgerInv
<1>1. call[c].at = "looked" /\ call[c] \in LedgerAsking /\ call[c] # Facts!Idle /\ LedgerGoing(c)
  BY LedgerInHand, LedgerShapes DEF Facts!Adds
<1>2. CASE Facts!Ends(c) /\ UNCHANGED <<row, made>>
  <2>1. call'[c] = Facts!Idle
    BY <1>2, LedgerSteps DEF Facts!Ends
  <2> QED BY <1>2, <2>1, LedgerOver, LedgerOnlyCall DEF Facts!Ends, Facts!Adds
<1>3. CASE /\ call[c].scene \in scenes \cup {Facts!None} /\ made # MaxRows /\ made' = made + 1
           /\ row' = [row EXCEPT ![made'] =
                    [body |-> call[c].body, at |-> call[c].scene, to |-> Facts!None, pinned |-> FALSE,
                                                        by |-> Facts!None]]
           /\ IF call[c].what = "add" THEN Facts!Ends(c)
              ELSE Facts!Step(c, [at |-> "added", id |-> call[c].id, new |-> made', scene |-> call[c].scene])
           /\ UNCHANGED <<scenes, held>>
  <2> DEFINE added == [body |-> call[c].body, at |-> call[c].scene, to |-> Facts!None, pinned |-> FALSE,
                                                          by |-> Facts!None]
             next == [at |-> "added", id |-> call[c].id, new |-> made', scene |-> call[c].scene]
  <2>1. made \in Nat /\ made' \in Facts!Ids /\ made' = made + 1
    BY <1>3, RowsAssumption DEF LedgerTypes, Facts!Ids
  <2>2. call[c].id \in 0 .. made /\ call[c].body \in FactTexts /\ call[c].scene \in Scenes \cup {Facts!None}
    BY <1>1, <2>1, RowsAssumption DEF LedgerAsking, LedgerGoing
  <2>3. added \in LedgerFact /\ added.by = Facts!None
    BY <2>2, RowsAssumption DEF LedgerFact, Facts!None
  <2>4. row' \in [Facts!Ids -> {Facts!Gone} \cup LedgerFact] /\ row'[made'] = added
        /\ \A i \in Facts!Ids : i # made' => row'[i] = row[i]
    BY <1>3, <2>1, <2>3 DEF LedgerTypes
  <2> HIDE DEF added
  <2>5. row[made'] = Facts!Gone
    BY <2>1 DEF LedgerRows
  <2>6. /\ call' \in [Facts!Users -> {Facts!Idle} \cup LedgerCalls]
        /\ \A d \in Facts!Users \ {c} : call'[d] = call[d]
        /\ LedgerGoing(c)'
    <3>1. CASE Facts!Ends(c)
      BY <3>1, LedgerSteps, LedgerOver DEF Facts!Ends
    <3>2. CASE call[c].what # "add" /\ Facts!Step(c, next)
      <4>1. call[c].id \in Facts!Ids
        <5>1. call[c].id # Facts!None
          BY <1>1, <3>2 DEF LedgerGoing
        <5> QED BY <5>1, <2>2, <2>1, RowsAssumption DEF Facts!Ids, Facts!None
      <4>2. next \in LedgerReplacing /\ next.at = "added" /\ next.id = call[c].id /\ next.new = made'
        BY <2>1, <2>2, <4>1 DEF LedgerReplacing
      <4>3. next \in {Facts!Idle} \cup LedgerCalls
        BY <4>2 DEF LedgerCalls
      <4> HIDE DEF next
      <4>4. /\ call' \in [Facts!Users -> {Facts!Idle} \cup LedgerCalls] /\ call'[c] = next
            /\ \A d \in Facts!Users \ {c} : call'[d] = call[d]
        BY <4>3, <3>2, LedgerSteps
      <4>5. LedgerGoing(c)'
        BY <4>2, <4>4, <2>1, <2>2 DEF LedgerGoing
      <4> QED BY <4>4, <4>5
    <3> QED BY <3>1, <3>2, <1>3
  <2>7. LedgerTypes'
    BY <1>3, <2>1, <2>4, <2>6, RowsAssumption DEF LedgerTypes, Facts!Ids
  <2>8. LedgerRows'
    <3>1. \A i \in Facts!Ids : i > made' => row'[i] = Facts!Gone
      BY <2>1, <2>4 DEF LedgerRows, Facts!Ids
    <3>2. ASSUME NEW i \in Facts!Ids, row'[i] # Facts!Gone, row'[i].by # Facts!None
          PROVE  row'[i].by \in i + 1 .. made'
      <4>1. i # made' /\ row'[i] = row[i]
        BY <3>2, <2>3, <2>4
      <4>2. row[i].by \in i + 1 .. made
        BY <4>1, <3>2 DEF LedgerRows, Facts!There
      <4> QED BY <4>1, <4>2, <2>1
    <3> QED BY <3>1, <3>2 DEF LedgerRows, Facts!There
  <2>9. LedgerHolds'
    BY <1>3, <2>4, <2>5 DEF LedgerHolds, Facts!There, LedgerTypes
  <2>10. \A d \in Facts!Users \ {c} : LedgerGoing(d)'
    BY <1>3, <2>1, <2>6, LedgerOthersGo
  <2>11. Facts!NotTheEdits
    BY <2>4, <2>5 DEF Facts!NotTheEdits, Facts!There
  <2>12. \A j \in held[c] : row'[j] = row[j]
    BY <2>4, <2>5 DEF LedgerHolds, Facts!There, LedgerTypes
  <2> QED BY <2>6, <2>7, <2>8, <2>9, <2>10, <2>11, <2>12, LedgerOneActs
<1> QED BY <1>2, <1>3 DEF Facts!Adds

\* A call that ends by writing one row.
LEMMA LedgerEndsWriting ==
    ASSUME LedgerInv, NEW c \in Facts!Users, NEW i \in Facts!Ids, NEW new \in {Facts!Gone} \cup LedgerFact,
           Facts!There(i) \/ new = Facts!Gone,
           row' = [row EXCEPT ![i] = new], Facts!Ends(c), UNCHANGED <<made, scenes>>,
           held' = held \/ Facts!LetsGo(i),
           new # Facts!Gone /\ new.by # Facts!None => new.by \in i + 1 .. made,
           c \in Agents => i \notin held[c],
           \A d \in Facts!Users : i \in held'[d] => new # Facts!Gone /\ new.pinned,
           new # Facts!Gone => /\ row[i].by # Facts!None => new.by # Facts!None
                               /\ row[i].pinned /\ ~new.pinned =>
                                    \E d \in Windows : call[d].at = "pinning" /\ call[d].id = i
    PROVE  LedgerInv' /\ LedgerFair
<1> USE DEF LedgerInv
<1>1. /\ call' \in [Facts!Users -> {Facts!Idle} \cup LedgerCalls] /\ call'[c] = Facts!Idle
      /\ \A d \in Facts!Users \ {c} : call'[d] = call[d]
  BY LedgerSteps DEF Facts!Ends
<1>2. row' \in [Facts!Ids -> {Facts!Gone} \cup LedgerFact] /\ row'[i] = new
      /\ \A j \in Facts!Ids \ {i} : row'[j] = row[j]
  BY DEF LedgerTypes
<1>3. /\ held' \in [Facts!Users -> SUBSET Facts!Ids] /\ \A d \in Facts!Users : held'[d] \subseteq held[d]
  BY DEF LedgerTypes, Facts!LetsGo
<1>4. LedgerTypes'
  BY <1>1, <1>2, <1>3 DEF LedgerTypes
<1>5. LedgerRows'
  BY <1>2 DEF LedgerRows, Facts!There
<1>6. LedgerHolds'
  <2> SUFFICES ASSUME NEW d \in Facts!Users, NEW j \in held'[d] PROVE row'[j] # Facts!Gone /\ row'[j].pinned
    BY DEF LedgerHolds, Facts!There
  <2>1. j \in held[d] /\ j \in Facts!Ids /\ row[j] # Facts!Gone /\ row[j].pinned
    BY <1>3 DEF LedgerHolds, Facts!There, LedgerTypes
  <2>2. CASE j # i
    BY <2>1, <2>2, <1>2
  <2>3. CASE j = i
    BY <2>1, <2>3, <1>2, <1>3
  <2> QED BY <2>2, <2>3
<1>7. made \in Nat
  BY RowsAssumption DEF LedgerTypes
<1>8. \A d \in Facts!Users \ {c} : LedgerGoing(d)'
  BY <1>1, <1>3, <1>7, LedgerOthersGo
<1>9. Facts!NotTheEdits
  BY <1>2 DEF Facts!NotTheEdits
<1>10. c \in Agents => \A j \in held[c] : row'[j] = row[j]
  BY <1>2 DEF LedgerTypes
<1> QED BY <1>1, <1>4, <1>5, <1>6, <1>8, <1>9, <1>10, LedgerOver, LedgerOneActs

\* A call that ends and finds no row to write.
LEMMA LedgerEndsIdly ==
    ASSUME LedgerInv, NEW c \in Facts!Users, Facts!Ends(c), UNCHANGED <<row, made, scenes>>,
           NEW i \in Facts!Ids,
           held' = held \/ Facts!LetsGo(i)
    PROVE  LedgerInv' /\ LedgerFair
<1> USE DEF LedgerInv
<1>1. /\ call' \in [Facts!Users -> {Facts!Idle} \cup LedgerCalls] /\ call'[c] = Facts!Idle
      /\ \A d \in Facts!Users \ {c} : call'[d] = call[d]
  BY LedgerSteps DEF Facts!Ends
<1>2. held' \in [Facts!Users -> SUBSET Facts!Ids] /\ \A d \in Facts!Users : held'[d] \subseteq held[d]
  BY DEF LedgerTypes, Facts!LetsGo
<1>3. LedgerTypes' /\ LedgerRows' /\ LedgerHolds'
  BY <1>1, <1>2 DEF LedgerTypes, LedgerRows, LedgerHolds, Facts!There
<1>4. made \in Nat
  BY RowsAssumption DEF LedgerTypes
<1>5. \A d \in Facts!Users \ {c} : LedgerGoing(d)'
  BY <1>1, <1>2, <1>4, LedgerOthersGo
<1> QED BY <1>1, <1>3, <1>5, LedgerOver, LedgerRowsStay

LEMMA LedgerWritesKeeps ==
    ASSUME LedgerInv, NEW c \in Facts!Users, Facts!Writes(c)
    PROVE  LedgerInv' /\ LedgerFair
<1> USE DEF LedgerInv
<1> DEFINE i == call[c].id  new == Facts!Columns(row[i], call[c].row)
<1>1. call[c].at = "editing" /\ call[c] \in LedgerEditing /\ LedgerGoing(c)
  BY LedgerInHand DEF Facts!Writes
<1>2. i \in Facts!Ids /\ call[c].row \in LedgerFact
  BY <1>1 DEF LedgerEditing
<1>3. UNCHANGED <<made, scenes, held>> /\ Facts!Ends(c)
  BY DEF Facts!Writes
<1>4. CASE Facts!There(i) /\ row' = [row EXCEPT ![i] = new]
  <2>1. row[i] \in LedgerFact
    BY <1>2, <1>4 DEF Facts!There, LedgerTypes
  <2>2. new \in LedgerFact /\ new.pinned = row[i].pinned /\ new.by = row[i].by
    BY <1>2, <2>1 DEF Facts!Columns, LedgerFact
  <2>3. new # Facts!Gone /\ (new.by # Facts!None => new.by \in i + 1 .. made)
    BY <2>2, <1>2, <1>4, LedgerShapes DEF LedgerRows
  <2>4. c \in Agents => i \notin held[c]
    BY <1>1 DEF LedgerGoing
  <2>5. \A d \in Facts!Users : i \in held'[d] => new # Facts!Gone /\ new.pinned
    BY <1>3, <2>2, <2>3 DEF LedgerHolds
  <2> HIDE DEF new, i
  <2> QED BY <1>2, <1>3, <1>4, <2>2, <2>3, <2>4, <2>5, LedgerEndsWriting
<1>5. CASE row' = row
  BY <1>2, <1>3, <1>5, LedgerEndsIdly
<1> QED BY <1>4, <1>5 DEF Facts!Writes

LEMMA LedgerPinsKeeps == ASSUME LedgerInv, NEW c \in Facts!Users, Facts!Pins(c) PROVE LedgerInv' /\ LedgerFair
<1> USE DEF LedgerInv
<1> DEFINE i == call[c].id  new == [row[i] EXCEPT !.pinned = call[c].pinned]
<1>1. call[c].at = "pinning" /\ call[c] \in LedgerPinning /\ LedgerGoing(c)
  BY LedgerInHand DEF Facts!Pins
<1>2. i \in Facts!Ids /\ call[c].pinned \in BOOLEAN /\ c \in Windows
  BY <1>1 DEF LedgerPinning, LedgerGoing
<1>3. UNCHANGED <<made, scenes>> /\ Facts!Ends(c) /\ IF call[c].pinned THEN held' = held ELSE Facts!LetsGo(i)
  BY DEF Facts!Pins
<1>4. CASE Facts!There(i) /\ row' = [row EXCEPT ![i] = new]
  <2>1. row[i] \in LedgerFact
    BY <1>2, <1>4 DEF Facts!There, LedgerTypes
  <2>2. new \in LedgerFact /\ new.pinned = call[c].pinned /\ new.by = row[i].by
    BY <1>2, <2>1 DEF LedgerFact
  <2>3. new # Facts!Gone /\ (new.by # Facts!None => new.by \in i + 1 .. made)
    BY <2>2, <1>2, <1>4, LedgerShapes DEF LedgerRows
  <2>4. c \in Agents => i \notin held[c]
    BY <1>1 DEF LedgerGoing
  <2>5. \A d \in Facts!Users : i \in held'[d] => new # Facts!Gone /\ new.pinned
    BY <1>3, <2>2, <2>3 DEF Facts!LetsGo
  <2>6. ~new.pinned => \E d \in Windows : call[d].at = "pinning" /\ call[d].id = i
    BY <1>1, <1>2
  <2>7. held' = held \/ Facts!LetsGo(i)
    BY <1>3
  <2> HIDE DEF new, i
  <2> QED BY <1>2, <1>3, <1>4, <2>2, <2>3, <2>4, <2>5, <2>6, <2>7, LedgerEndsWriting
<1>5. CASE row' = row
  BY <1>2, <1>3, <1>5, LedgerEndsIdly
<1> QED BY <1>4, <1>5 DEF Facts!Pins

LEMMA LedgerReplacesKeeps ==
    ASSUME LedgerInv, NEW c \in Facts!Users, Facts!Replaces(c)
    PROVE  LedgerInv' /\ LedgerFair
<1> USE DEF LedgerInv
<1> DEFINE i == call[c].id
           new == [row[i] EXCEPT !.by = call[c].new,
                                 !.to = IF call[c].scene = Facts!None THEN @ ELSE call[c].scene]
<1>1. call[c].at = "replacing" /\ call[c] \in LedgerReplacing /\ LedgerGoing(c)
  BY LedgerInHand DEF Facts!Replaces
<1>2. i \in Facts!Ids /\ call[c].new \in Facts!Ids /\ call[c].scene \in Scenes \cup {Facts!None}
      /\ call[c].new \in i + 1 .. made
  BY <1>1 DEF LedgerReplacing, LedgerGoing
<1>3. UNCHANGED <<made, scenes, held>> /\ Facts!Ends(c)
  BY DEF Facts!Replaces
<1>4. CASE Facts!There(i) /\ row' = [row EXCEPT ![i] = new]
  <2>1. row[i] \in LedgerFact
    BY <1>2, <1>4 DEF Facts!There, LedgerTypes
  <2>2. new \in LedgerFact /\ new.pinned = row[i].pinned /\ new.by = call[c].new
    <3>1. call[c].new \in 0 .. MaxRows
      BY <1>2, RowsAssumption DEF Facts!Ids
    <3> QED BY <1>2, <2>1, <3>1 DEF LedgerFact
  <2>3. new # Facts!Gone /\ new.by \in i + 1 .. made /\ new.by # Facts!None
    BY <2>2, <1>2, <1>4, RowsAssumption, LedgerShapes DEF Facts!Ids, Facts!None
  <2>4. c \in Agents => i \notin held[c]
    BY <1>1 DEF LedgerGoing
  <2>5. \A d \in Facts!Users : i \in held'[d] => new # Facts!Gone /\ new.pinned
    BY <1>3, <2>2, <2>3 DEF LedgerHolds
  <2> HIDE DEF new, i
  <2> QED BY <1>2, <1>3, <1>4, <2>2, <2>3, <2>4, <2>5, LedgerEndsWriting
<1>5. CASE row' = row
  BY <1>2, <1>3, <1>5, LedgerEndsIdly
<1>6. \/ row' = row
      \/ Facts!There(i) /\ row' = [row EXCEPT ![i].by = call[c].new,
                                     ![i].to = IF call[c].scene = Facts!None THEN @ ELSE call[c].scene]
  BY DEF Facts!Replaces
<1>7. ASSUME Facts!There(i), row' = [row EXCEPT ![i].by = call[c].new,
                                     ![i].to = IF call[c].scene = Facts!None THEN @ ELSE call[c].scene]
      PROVE  row' = [row EXCEPT ![i] = new]
  <2>1. row[i] \in LedgerFact
    BY <1>2, <1>7 DEF Facts!There, LedgerTypes
  <2> QED BY <1>7, <2>1, <1>2 DEF LedgerTypes, LedgerFact
<1> QED BY <1>4, <1>5, <1>6, <1>7

LEMMA LedgerDeletesKeeps ==
    ASSUME LedgerInv, NEW c \in Facts!Users, Facts!Deletes(c)
    PROVE  LedgerInv' /\ LedgerFair
<1> USE DEF LedgerInv
<1> DEFINE i == call[c].id
<1>1. call[c].at = "looked" /\ call[c].what = "delete" /\ call[c] \in LedgerAsking /\ LedgerGoing(c)
  BY LedgerInHand DEF Facts!Deletes
<1>2. i \in Facts!Ids
  BY <1>1 DEF LedgerAsking, LedgerGoing, Facts!Ids, Facts!None
<1>3. row' = [row EXCEPT ![i] = Facts!Gone] /\ UNCHANGED <<made, scenes>> /\ Facts!Ends(c) /\ Facts!LetsGo(i)
  BY DEF Facts!Deletes
<1>4. c \in Agents => i \notin held[c]
  BY <1>1 DEF LedgerGoing
<1>5. \A d \in Facts!Users : i \notin held'[d]
  BY <1>3 DEF Facts!LetsGo
<1> HIDE DEF i
<1> QED BY <1>2, <1>3, <1>4, <1>5, LedgerEndsWriting

LEMMA LedgerSceneGoneKeeps ==
    ASSUME LedgerInv, NEW s \in Scenes, Facts!SceneGone(s)
    PROVE  LedgerInv' /\ LedgerFair
<1> USE DEF LedgerInv
<1> DEFINE less(i) == [row[i] EXCEPT !.at = IF @ = s THEN Facts!None ELSE @, !.to = IF @ = s THEN Facts!None
      ELSE @]
<1>1. /\ scenes' = scenes \ {s} /\ UNCHANGED <<made, call, held>>
      /\ row' = [i \in Facts!Ids |-> IF ~Facts!There(i) THEN Facts!Gone ELSE less(i)]
  BY DEF Facts!SceneGone
<1>2. ASSUME NEW i \in Facts!Ids, Facts!There(i)
      PROVE  less(i) \in LedgerFact /\ less(i).pinned = row[i].pinned /\ less(i).by = row[i].by
  <2>1. row[i] \in LedgerFact
    BY <1>2 DEF Facts!There, LedgerTypes
  <2> QED BY <2>1 DEF LedgerFact
<1> HIDE DEF less
<1>3. \A i \in Facts!Ids : Facts!There(i) => Facts!There(i)' /\ row'[i].pinned = row[i].pinned
      /\ row'[i].by = row[i].by
  BY <1>1, <1>2, LedgerShapes DEF Facts!There
<1>4. \A i \in Facts!Ids : ~Facts!There(i) => row'[i] = Facts!Gone
  BY <1>1
<1>5. row' \in [Facts!Ids -> {Facts!Gone} \cup LedgerFact]
  BY <1>1, <1>2
<1>6. LedgerTypes'
  BY <1>1, <1>5 DEF LedgerTypes
<1>7. LedgerRows'
  BY <1>1, <1>3, <1>4 DEF LedgerRows, Facts!There
<1>8. LedgerHolds'
  BY <1>1, <1>3 DEF LedgerHolds, LedgerTypes
<1>9. \A c \in Facts!Users : LedgerGoing(c)'
  BY <1>1 DEF LedgerGoing
<1>10. Facts!NotTheEdits
  BY <1>3 DEF Facts!NotTheEdits
<1>11. Facts!PinsHold
  BY <1>1 DEF Facts!PinsHold
<1> QED BY <1>6, <1>7, <1>8, <1>9, <1>10, <1>11 DEF LedgerFair

LEMMA LedgerNextKeeps == ASSUME LedgerInv, [Facts!Next]_(Facts!vars) PROVE LedgerInv' /\ LedgerFair
<1> USE DEF LedgerInv
<1>1. CASE UNCHANGED Facts!vars
  <2>1. LedgerInv'
    BY <1>1 DEF Facts!vars, LedgerTypes, LedgerRows, LedgerHolds, Facts!There, LedgerGoing
  <2> QED BY <1>1, <2>1, LedgerRowsStay DEF Facts!vars
<1>2. ASSUME NEW c \in Facts!Users, NEW text \in FactTexts, NEW at \in Scenes,
             Facts!Asks(c, "add", Facts!None, text, at)
      PROVE  LedgerInv' /\ LedgerFair
  <2>1. 0 \in 0 .. made
    BY RowsAssumption DEF LedgerTypes
  <2> QED BY <1>2, <2>1, LedgerAsksKeeps DEF LedgerWhats, Facts!None
<1>3. ASSUME NEW c \in Facts!Users, NEW text \in FactTexts, NEW i \in 1 .. made,
             NEW what \in {"edit", "delete", "pin", "unpin", "replace"}, NEW at \in Scenes \cup {Facts!None},
             what \in {"pin", "unpin"} => c \in Windows, Facts!Asks(c, what, i, text, at)
      PROVE  LedgerInv' /\ LedgerFair
  <2>1. i \in 0 .. made /\ i # Facts!None
    BY RowsAssumption DEF LedgerTypes, Facts!None
  <2>2. what \in LedgerWhats
    BY DEF LedgerWhats
  <2> QED BY <1>3, <2>1, <2>2, LedgerAsksKeeps
<1>4. Facts!None \in Scenes \cup {Facts!None}
  OBVIOUS
<1> QED BY <1>1, <1>2, <1>3, <1>4, LedgerLooksKeeps, LedgerAddsKeeps, LedgerGetsKeeps, LedgerWritesKeeps,
           LedgerPinsKeeps, LedgerReplacesKeeps,
           LedgerDeletesKeeps, LedgerSceneGoneKeeps
        DEF Facts!Next

(* Pins hold against agents, and a replacement is never undone by an edit.     *)
(* (ledger/repo.go, mcphost/tools_ledger.go)                                   *)
THEOREM LedgerSafe == Spec => FactsHold
<1> DEFINE I == part = "ledger" => LedgerInv
<1>1. Init => I
  BY LedgerStarts DEF Init
<1>2. I /\ [Next]_vars => I' /\ (part = "ledger" => Facts!PinsHold /\ Facts!NotTheEdits)
  BY PartStays, LedgerNextKeeps DEF LedgerFair
<1>3. I => (part = "ledger" => Facts!PutAsideForLater)
  BY DEF LedgerInv, LedgerRows, Facts!PutAsideForLater, Facts!Standing
<1>4. I /\ [Next]_vars => [part = "ledger" => Facts!PinsHold /\ Facts!NotTheEdits]_vars
  BY <1>2
<1> QED BY <1>1, <1>2, <1>3, <1>4, PTL DEF Spec, FactsHold

-----------------------------------------------------------------------------
(* Continuity. What a check quotes stood in the version it names, and the      *)
(* prose of a version does not change (ChecksDated).                           *)

ChecksPlaces == 1 .. MaxFound
ChecksObserved == [status : {"open", "dismissed", "resolved", "replaced"}, quote : Sentences]
ChecksReading == [at : {"read"}, scene : Scenes, version : Nat]
ChecksTested == [at : {"tested"}, scene : Scenes, version : Nat, findings : SUBSET Sentences]
ChecksLooking == [at : {"looked"}, id : Checks!Numbers \X ChecksPlaces, what : Checks!Decisions \cup {"delete"}]

ChecksCounts == {Cardinality(f) : f \in SUBSET Sentences}
ChecksTypes ==
    /\ scene \in [Scenes -> [version : Nat, says : SUBSET Sentences]]
    /\ checks \in [Checks!Numbers -> {Checks!NoCheck} \cup [scene : Scenes, version : Nat,
                                                            found : ChecksCounts]]
    /\ made \in Nat
    /\ obs \in [Checks!Numbers -> [ChecksPlaces -> {Checks!NoObs} \cup ChecksObserved]]
    /\ call \in [Callers -> {Checks!Idle} \cup ChecksReading \cup ChecksTested \cup ChecksLooking]

ChecksLater == \A k \in Checks!Numbers : k > made => \A j \in ChecksPlaces : obs[k][j] = Checks!NoObs

ChecksDated(s, v, quotes) == v <= scene[s].version /\ (v = scene[s].version => quotes \subseteq scene[s].says)

ChecksQuotes(k) == {obs[k][j].quote : j \in Checks!Found(k)}

ChecksStanding(k) == checks[k] # Checks!NoCheck =>
    /\ ChecksDated(checks[k].scene, checks[k].version, ChecksQuotes(k))
    /\ Checks!Found(k) = {} => checks[k].found = 0

ChecksUnderWay(c) == call[c].at = "tested" => ChecksDated(call[c].scene, call[c].version, call[c].findings)

ChecksInv == ChecksTypes /\ ChecksLater /\ (\A k \in Checks!Numbers : ChecksStanding(k))
      /\ \A c \in Callers : ChecksUnderWay(c)

LEMMA ChecksShapes ==
    /\ Checks!Idle.at = "idle"
    /\ \A o \in ChecksObserved : o # Checks!NoObs /\ o.status # "none"
    /\ Checks!NoObs.status = "none"
    /\ \A r \in ChecksReading : r.at = "read"
    /\ \A r \in ChecksTested : r.at = "tested"
    /\ \A r \in ChecksLooking : r.at = "looked"
  BY DEF Checks!Idle, ChecksObserved, Checks!NoObs, ChecksReading, ChecksTested, ChecksLooking

LEMMA ChecksInHand ==
    ASSUME ChecksTypes, NEW c \in Callers
    PROVE  /\ call[c].at = "read" => call[c] \in ChecksReading
           /\ call[c].at = "tested" => call[c] \in ChecksTested
           /\ call[c].at = "looked" => call[c] \in ChecksLooking
  BY ChecksShapes DEF ChecksTypes

LEMMA ChecksStarts == ASSUME Checks!Init PROVE ChecksInv
<1>1. ChecksTypes
  BY DEF Checks!Init, ChecksTypes, ChecksPlaces
<1>2. ChecksLater
  BY DEF Checks!Init, ChecksLater, ChecksPlaces
<1> QED BY <1>1, <1>2, ChecksShapes DEF Checks!Init, ChecksInv, ChecksStanding, ChecksUnderWay

LEMMA ChecksSteps ==
    ASSUME ChecksTypes, NEW c \in Callers, NEW next,
           next \in {Checks!Idle} \cup ChecksReading \cup ChecksTested \cup ChecksLooking, Checks!Step(c, next)
    PROVE  /\ call' \in [Callers -> {Checks!Idle} \cup ChecksReading \cup ChecksTested \cup ChecksLooking]
               /\ call'[c] = next
           /\ \A d \in Callers \ {c} : call'[d] = call[d]
  BY DEF ChecksTypes, Checks!Step


\* A step that changes calls only: c goes on to next.
LEMMA ChecksOnlyCall ==
    ASSUME ChecksInv, NEW c \in Callers, NEW next,
           next \in {Checks!Idle} \cup ChecksReading \cup ChecksTested \cup ChecksLooking, Checks!Step(c, next),
           next.at = "tested" => ChecksDated(next.scene, next.version, next.findings),
           UNCHANGED <<scene, checks, made, obs>>
    PROVE  ChecksInv' /\ Checks!DecisionsStand
<1> USE DEF ChecksInv
<1>1. /\ call' \in [Callers -> {Checks!Idle} \cup ChecksReading \cup ChecksTested \cup ChecksLooking]
          /\ call'[c] = next
      /\ \A d \in Callers \ {c} : call'[d] = call[d]
  BY ChecksSteps
<1>2. ChecksTypes' /\ ChecksLater'
  BY <1>1 DEF ChecksTypes, ChecksLater
<1>3. \A k \in Checks!Numbers : ChecksStanding(k)'
  BY DEF ChecksStanding, ChecksDated, ChecksQuotes, Checks!Found
<1>4. \A d \in Callers : ChecksUnderWay(d)'
  BY <1>1 DEF ChecksUnderWay, ChecksDated
<1> QED BY <1>2, <1>3, <1>4 DEF Checks!DecisionsStand

LEMMA ChecksEditsKeeps ==
    ASSUME ChecksInv, NEW s \in Scenes, NEW says \in SUBSET Sentences, Checks!Edits(s, says)
                          PROVE  ChecksInv' /\ Checks!DecisionsStand
<1> USE DEF ChecksInv
<1>1. UNCHANGED <<checks, made, obs, call>>
  BY DEF Checks!Edits
<1>2. /\ scene' \in [Scenes -> [version : Nat, says : SUBSET Sentences]]
      /\ scene[s].version \in Nat /\ scene'[s].version = scene[s].version + 1
      /\ \A t \in Scenes : t # s => scene'[t] = scene[t]
  BY DEF Checks!Edits, ChecksTypes
<1>3. ASSUME NEW t \in Scenes, NEW v \in Nat, NEW quotes, ChecksDated(t, v, quotes)
      PROVE  v <= scene'[t].version /\ (v = scene'[t].version => quotes \subseteq scene'[t].says)
  <2>1. CASE t = s
    BY <1>2, <1>3, <2>1 DEF ChecksDated
  <2>2. CASE t # s
    BY <1>2, <1>3, <2>2 DEF ChecksDated
  <2> QED BY <2>1, <2>2
<1>4. ChecksTypes' /\ ChecksLater'
  BY <1>1, <1>2 DEF ChecksTypes, ChecksLater
<1>5. ASSUME NEW k \in Checks!Numbers PROVE ChecksStanding(k)'
  <2>1. Checks!Found(k)' = Checks!Found(k) /\ ChecksQuotes(k)' = ChecksQuotes(k)
    BY <1>1 DEF Checks!Found, ChecksQuotes
  <2>2. checks[k] # Checks!NoCheck => checks[k].scene \in Scenes /\ checks[k].version \in Nat
    BY DEF ChecksTypes
  <2>3. checks[k] # Checks!NoCheck => ChecksDated(checks[k].scene, checks[k].version, ChecksQuotes(k))
    BY DEF ChecksStanding
  <2> HIDE DEF ChecksInv
  <2> QED BY <1>1, <1>3, <1>5, <2>1, <2>2, <2>3 DEF ChecksStanding, ChecksDated, ChecksInv
<1>6. ASSUME NEW c \in Callers PROVE ChecksUnderWay(c)'
  <2>1. call[c].at = "tested" => call[c].scene \in Scenes /\ call[c].version \in Nat
    BY ChecksInHand DEF ChecksTested
  <2> QED BY <1>1, <1>3, <2>1 DEF ChecksUnderWay, ChecksDated
<1>7. Checks!DecisionsStand
  BY <1>1 DEF Checks!DecisionsStand
<1> QED BY <1>4, <1>5, <1>6, <1>7

LEMMA ChecksReadsKeeps ==
    ASSUME ChecksInv, NEW c \in Callers, NEW s \in Scenes, Checks!Reads(c, s)
    PROVE  ChecksInv' /\ Checks!DecisionsStand
<1> DEFINE next == [at |-> "read", scene |-> s, version |-> scene[s].version]
<1>1. next \in ChecksReading /\ next.at = "read"
  BY DEF ChecksReading, ChecksInv, ChecksTypes
<1>2. Checks!Step(c, next) /\ UNCHANGED <<scene, checks, made, obs>>
  BY DEF Checks!Reads
<1> HIDE DEF next
<1> QED BY <1>1, <1>2, ChecksOnlyCall

LEMMA ChecksTestsKeeps ==
    ASSUME ChecksInv, NEW c \in Callers, NEW findings \in SUBSET Sentences, Checks!Tests(c, findings)
                          PROVE  ChecksInv' /\ Checks!DecisionsStand
<1> USE DEF ChecksInv
<1> DEFINE s == call[c].scene
           next == [at |-> "tested", scene |-> s, version |-> call[c].version, findings |-> findings]
<1>1. call[c].at = "read" /\ call[c] \in ChecksReading /\ UNCHANGED <<scene, checks, made, obs>>
  BY ChecksInHand DEF Checks!Tests
<1>2. CASE Checks!Ends(c)
  BY <1>1, <1>2, ChecksOnlyCall, ChecksShapes DEF Checks!Ends
<1>3. CASE Checks!CurrentVersion(c) /\ (\A f \in findings : Checks!Validate(f, s)) /\ Checks!Step(c, next)
  <2>1. next \in ChecksTested /\ next.scene = s /\ next.version = call[c].version /\ next.findings = findings
    BY <1>1 DEF ChecksTested, ChecksReading
  <2>2. call[c].version = scene[s].version /\ findings \subseteq scene[s].says /\ scene[s].version \in Nat
    BY <1>1, <1>3 DEF Checks!CurrentVersion, Checks!Validate, ChecksTypes, ChecksReading
  <2> HIDE DEF next, s
  <2>3. ChecksDated(next.scene, next.version, next.findings)
    BY <2>1, <2>2 DEF ChecksDated
  <2> QED BY <1>1, <1>3, <2>1, <2>3, ChecksOnlyCall
<1> QED BY <1>2, <1>3 DEF Checks!Tests

LEMMA ChecksLooksKeeps ==
    ASSUME ChecksInv, NEW c \in Callers, NEW o \in Checks!Numbers \X ChecksPlaces,
           NEW what \in Checks!Decisions \cup {"delete"},
                                 Checks!Looks(c, o, what)
                          PROVE  ChecksInv' /\ Checks!DecisionsStand
<1> DEFINE next == [at |-> "looked", id |-> o, what |-> what]
<1>1. next \in ChecksLooking /\ next.at = "looked"
  BY DEF ChecksLooking
<1>2. Checks!Step(c, next) /\ UNCHANGED <<scene, checks, made, obs>>
  BY DEF Checks!Looks
<1> HIDE DEF next
<1> QED BY <1>1, <1>2, ChecksOnlyCall

\* A call ends, or none does.
ChecksOneEnds == call' = call \/ \E c \in Callers : Checks!Ends(c)

LEMMA ChecksCallsLeft ==
    ASSUME ChecksInv, ChecksOneEnds, UNCHANGED scene
    PROVE  /\ call' \in [Callers -> {Checks!Idle} \cup ChecksReading \cup ChecksTested \cup ChecksLooking]
           /\ \A d \in Callers : ChecksUnderWay(d)'
<1> USE DEF ChecksInv
<1>1. /\ call' \in [Callers -> {Checks!Idle} \cup ChecksReading \cup ChecksTested \cup ChecksLooking]
      /\ \A d \in Callers : call'[d] \in {call[d], Checks!Idle}
  <2>1. CASE call' = call
    BY <2>1 DEF ChecksTypes
  <2>2. CASE \E c \in Callers : Checks!Ends(c)
    <3>1. PICK c \in Callers : Checks!Step(c, Checks!Idle)
      BY <2>2 DEF Checks!Ends
    <3> QED BY <3>1, ChecksSteps
  <2> QED BY <2>1, <2>2 DEF ChecksOneEnds
<1>2. ASSUME NEW d \in Callers PROVE ChecksUnderWay(d)'
  BY <1>1, ChecksShapes DEF ChecksUnderWay, ChecksDated
<1> QED BY <1>1, <1>2

LEMMA ChecksDecidesKeeps ==
    ASSUME ChecksInv, NEW chosen, NEW status \in Checks!Decisions, Checks!Set(chosen, status),
           \A o \in Checks!Numbers \X ChecksPlaces : o \in chosen => Checks!Movable(o),
           ChecksOneEnds, UNCHANGED <<scene, checks, made>>
    PROVE  ChecksInv' /\ Checks!DecisionsStand
<1> USE DEF ChecksInv
<1>1. ASSUME NEW k \in Checks!Numbers, NEW j \in ChecksPlaces
      PROVE  \/ <<k, j>> \notin chosen /\ obs'[k][j] = obs[k][j]
             \/ /\ <<k, j>> \in chosen /\ obs[k][j] \in ChecksObserved /\ obs'[k][j] \in ChecksObserved
                /\ obs[k][j].status # "replaced" /\ obs'[k][j].quote = obs[k][j].quote
  <2>1. CASE <<k, j>> \notin chosen
    BY <2>1 DEF Checks!Set, ChecksPlaces
  <2>2. CASE <<k, j>> \in chosen
    <3>1. obs'[k][j] = [obs[k][j] EXCEPT !.status = status]
      BY <2>2 DEF Checks!Set, ChecksPlaces
    <3>2. obs[k][j].status # "none" /\ obs[k][j].status # "replaced"
      BY <2>2 DEF Checks!Movable, Checks!There, Checks!Status
    <3>3. obs[k][j] \in ChecksObserved
      BY <3>2, ChecksShapes DEF ChecksTypes
    <3> QED BY <2>2, <3>1, <3>2, <3>3 DEF ChecksObserved, Checks!Decisions
  <2> QED BY <2>1, <2>2
<1>2. obs' \in [Checks!Numbers -> [ChecksPlaces -> {Checks!NoObs} \cup ChecksObserved]]
  <2>1. \A k \in Checks!Numbers, j \in ChecksPlaces : obs'[k][j] \in {Checks!NoObs} \cup ChecksObserved
    BY <1>1 DEF ChecksTypes
  <2> QED BY <2>1 DEF Checks!Set, ChecksPlaces
<1>3. ChecksTypes'
  BY <1>2, ChecksCallsLeft DEF ChecksTypes
<1>4. ChecksLater'
  BY <1>1, ChecksShapes DEF ChecksLater
<1>5. ASSUME NEW k \in Checks!Numbers PROVE ChecksStanding(k)'
  <2>1. \A j \in ChecksPlaces : (obs'[k][j] # Checks!NoObs <=> obs[k][j] # Checks!NoObs)
        /\ (obs[k][j] # Checks!NoObs => obs'[k][j].quote = obs[k][j].quote)
    BY <1>1, ChecksShapes
  <2>2. Checks!Found(k)' = Checks!Found(k)
    BY <2>1 DEF Checks!Found, ChecksPlaces
  <2>3. ChecksQuotes(k)' = ChecksQuotes(k)
    BY <2>1, <2>2 DEF ChecksQuotes, Checks!Found, ChecksPlaces
  <2> QED BY <2>2, <2>3 DEF ChecksStanding, ChecksDated
<1>6. Checks!DecisionsStand
  <2> SUFFICES ASSUME NEW o \in Checks!Numbers \X ChecksPlaces, Checks!Status(o) = "replaced"
               PROVE  obs'[o[1]][o[2]] = obs[o[1]][o[2]]
    BY DEF Checks!DecisionsStand, ChecksPlaces
  <2>1. o = <<o[1], o[2]>> /\ o[1] \in Checks!Numbers /\ o[2] \in ChecksPlaces
    OBVIOUS
  <2> QED BY <1>1, <2>1 DEF Checks!Status
<1> QED BY <1>3, <1>4, <1>5, <1>6, ChecksCallsLeft

LEMMA ChecksDeletesKeeps ==
    ASSUME ChecksInv, NEW chosen, Checks!DeleteMany(chosen), ChecksOneEnds, UNCHANGED <<scene, made>>
    PROVE  ChecksInv' /\ Checks!DecisionsStand
<1> USE DEF ChecksInv
<1>1. ASSUME NEW k \in Checks!Numbers, NEW j \in ChecksPlaces
      PROVE  obs'[k][j] = obs[k][j] \/ (obs'[k][j] = Checks!NoObs /\ Checks!Movable(<<k, j>>))
  BY DEF Checks!DeleteMany, ChecksPlaces
<1>2. obs' \in [Checks!Numbers -> [ChecksPlaces -> {Checks!NoObs} \cup ChecksObserved]]
  <2>1. \A k \in Checks!Numbers, j \in ChecksPlaces : obs'[k][j] \in {Checks!NoObs} \cup ChecksObserved
    BY <1>1 DEF ChecksTypes
  <2> QED BY <2>1 DEF Checks!DeleteMany, ChecksPlaces
<1>3. \A k \in Checks!Numbers : checks'[k] = IF obs'[k] # obs[k]
      /\ \A j \in ChecksPlaces : obs'[k][j] = Checks!NoObs
                                             THEN Checks!NoCheck ELSE checks[k]
  BY DEF Checks!DeleteMany, Checks!EmptiedGo, ChecksPlaces
<1>4. ChecksTypes'
  <2>1. checks' \in [Checks!Numbers -> {Checks!NoCheck} \cup [scene : Scenes, version : Nat,
                                                              found : ChecksCounts]]
    BY <1>3 DEF ChecksTypes, Checks!DeleteMany, Checks!EmptiedGo
  <2> QED BY <2>1, <1>2, ChecksCallsLeft DEF ChecksTypes
<1>5. ChecksLater'
  BY <1>1 DEF ChecksLater
<1>6. ASSUME NEW k \in Checks!Numbers, checks'[k] # Checks!NoCheck PROVE ChecksStanding(k)'
  <2>1. checks'[k] = checks[k] /\ (obs'[k] = obs[k] \/ \E j \in ChecksPlaces : obs'[k][j] # Checks!NoObs)
    BY <1>3, <1>6
  <2>2. ChecksQuotes(k)' \subseteq ChecksQuotes(k)
    BY <1>1 DEF ChecksQuotes, Checks!Found, ChecksPlaces
  <2>3. Checks!Found(k)' = {} => Checks!Found(k) = {}
    BY <2>1 DEF Checks!Found, ChecksPlaces
  <2> QED BY <1>6, <2>1, <2>2, <2>3 DEF ChecksStanding, ChecksDated
<1>7. Checks!DecisionsStand
  <2> SUFFICES ASSUME NEW o \in Checks!Numbers \X ChecksPlaces, Checks!Status(o) = "replaced"
               PROVE  obs'[o[1]][o[2]] = obs[o[1]][o[2]]
    BY DEF Checks!DecisionsStand, ChecksPlaces
  <2>1. o = <<o[1], o[2]>> /\ o[1] \in Checks!Numbers /\ o[2] \in ChecksPlaces
    OBVIOUS
  <2> QED BY <1>1, <2>1 DEF Checks!Movable
<1>8. \A k \in Checks!Numbers : ChecksStanding(k)'
  BY <1>6 DEF ChecksStanding
<1> QED BY <1>4, <1>5, <1>7, <1>8, ChecksCallsLeft

LEMMA ChecksSetStatusKeeps ==
    ASSUME ChecksInv, NEW c \in Callers, Checks!SetStatus(c)
    PROVE  ChecksInv' /\ Checks!DecisionsStand
<1>1. call[c] \in ChecksLooking /\ call[c].what # "delete"
  BY ChecksInHand DEF Checks!SetStatus, ChecksInv
<1>2. call[c].what \in Checks!Decisions
  BY <1>1 DEF ChecksLooking
<1>3. ChecksOneEnds
  BY DEF Checks!SetStatus, ChecksOneEnds
<1> QED BY <1>2, <1>3, ChecksDecidesKeeps DEF Checks!SetStatus

LEMMA ChecksDeleteKeeps ==
    ASSUME ChecksInv, NEW c \in Callers, Checks!Delete(c)
    PROVE  ChecksInv' /\ Checks!DecisionsStand
<1>1. ChecksOneEnds
  BY DEF Checks!Delete, ChecksOneEnds
<1> QED BY <1>1, ChecksDeletesKeeps DEF Checks!Delete

LEMMA ChecksUpdateKeeps ==
    ASSUME ChecksInv, NEW k \in Checks!Numbers, NEW what \in Checks!Decisions \cup {"delete"},
           Checks!UpdateContinuity(k, what)
                           PROVE  ChecksInv' /\ Checks!DecisionsStand
<1>1. ChecksOneEnds
  BY DEF Checks!UpdateContinuity, ChecksOneEnds
<1>2. CASE what = "delete"
  BY <1>1, <1>2, ChecksDeletesKeeps DEF Checks!UpdateContinuity
<1>3. CASE what # "delete"
  <2>1. \A o \in Checks!Numbers \X ChecksPlaces : o \in Checks!SelectObservations(k, what) => Checks!Movable(o)
    BY <1>3 DEF Checks!SelectObservations, Checks!Movable, Checks!There, Checks!Settled
  <2>2. what \in Checks!Decisions
    BY <1>3
  <2> QED BY <1>1, <1>3, <2>1, <2>2, ChecksDecidesKeeps DEF Checks!UpdateContinuity
<1> QED BY <1>2, <1>3

LEMMA ChecksRecordsKeeps ==
    ASSUME ChecksInv, NEW c \in Callers, Checks!Records(c)
    PROVE  ChecksInv' /\ Checks!DecisionsStand
<1> USE DEF ChecksInv
<1> DEFINE s == call[c].scene  found == call[c].findings
<1>1. call[c].at = "tested" /\ call[c] \in ChecksTested /\ made < MaxChecks /\ made' = made + 1
      /\ UNCHANGED scene
  BY ChecksInHand DEF Checks!Records
<1>2. made \in Nat /\ made' \in Checks!Numbers /\ s \in Scenes /\ call[c].version \in Nat
      /\ found \subseteq Sentences
  BY <1>1, ChecksAssumption DEF ChecksTypes, ChecksTested, Checks!Numbers
<1>3. checks' = [checks EXCEPT ![made'] = [scene |-> s, version |-> call[c].version,
                                                                         found |-> Cardinality(found)]]
  BY CountsAgree DEF Checks!Records, Checks!VersionTested
<1>4. PICK place \in [found -> ChecksPlaces] :
        obs' = [k \in Checks!Numbers |-> [j \in ChecksPlaces |->
              IF k = made'
              THEN IF \E f \in found : place[f] = j
                   THEN [status |-> "open", quote |-> CHOOSE f \in found : place[f] = j] ELSE Checks!NoObs
              ELSE IF checks[k].scene = s /\ Checks!Superseded(<<k, j>>)
                   THEN [obs[k][j] EXCEPT !.status = "replaced"] ELSE obs[k][j]]]
  BY DEF Checks!Records, ChecksPlaces
<1>5. ASSUME NEW j \in ChecksPlaces
      PROVE  /\ (\E f \in found : place[f] = j) => obs'[made'][j] \in ChecksObserved
                 /\ obs'[made'][j].quote \in found
             /\ ~(\E f \in found : place[f] = j) => obs'[made'][j] = Checks!NoObs
  <2>1. CASE \E f \in found : place[f] = j
    <3> DEFINE quote == CHOOSE f \in found : place[f] = j
    <3>1. quote \in found
      BY <2>1
    <3>2. obs'[made'][j] = [status |-> "open", quote |-> quote]
      BY <1>2, <1>4, <2>1
    <3> HIDE DEF quote
    <3> QED BY <2>1, <3>1, <3>2, <1>2 DEF ChecksObserved
  <2>2. CASE ~(\E f \in found : place[f] = j)
    BY <1>2, <1>4, <2>2
  <2> QED BY <2>1, <2>2
<1>6. ASSUME NEW k \in Checks!Numbers, k # made', NEW j \in ChecksPlaces
      PROVE  \/ obs'[k][j] = obs[k][j]
             \/ /\ obs[k][j] \in ChecksObserved /\ obs[k][j].status = "open" /\ obs'[k][j] \in ChecksObserved
                /\ obs'[k][j].quote = obs[k][j].quote
  <2>1. CASE checks[k].scene = s /\ Checks!Superseded(<<k, j>>)
    <3>1. obs'[k][j] = [obs[k][j] EXCEPT !.status = "replaced"]
      BY <1>4, <1>6, <2>1
    <3>2. obs[k][j].status = "open"
      BY <2>1 DEF Checks!Superseded, Checks!Status
    <3>3. obs[k][j] \in ChecksObserved
      BY <3>2, ChecksShapes DEF ChecksTypes
    <3> QED BY <3>1, <3>2, <3>3 DEF ChecksObserved
  <2>2. CASE ~(checks[k].scene = s /\ Checks!Superseded(<<k, j>>))
    BY <1>4, <1>6, <2>2
  <2> QED BY <2>1, <2>2
<1>7. obs' \in [Checks!Numbers -> [ChecksPlaces -> {Checks!NoObs} \cup ChecksObserved]]
  <2>1. ASSUME NEW k \in Checks!Numbers, NEW j \in ChecksPlaces
        PROVE  obs'[k][j] \in {Checks!NoObs} \cup ChecksObserved
    BY <1>5, <1>6 DEF ChecksTypes
  <2> QED BY <1>4, <2>1
<1>8. ChecksOneEnds
  BY DEF ChecksOneEnds, Checks!Records
<1>9. ChecksTypes'
  <2>1. checks' \in [Checks!Numbers -> {Checks!NoCheck} \cup [scene : Scenes, version : Nat,
                                                              found : ChecksCounts]]
    BY <1>2, <1>3 DEF ChecksTypes, ChecksCounts
  <2> QED BY <1>1, <1>2, <1>7, <1>8, <2>1, ChecksCallsLeft DEF ChecksTypes
<1>10. ChecksLater'
  <2>1. \A k \in Checks!Numbers : k > made' => k # made' /\ k > made
    BY <1>1, <1>2 DEF Checks!Numbers
  <2> QED BY <2>1, <1>6, ChecksShapes DEF ChecksLater
<1>11. ASSUME NEW k \in Checks!Numbers, k # made' PROVE ChecksStanding(k)'
  <2>1. \A j \in ChecksPlaces : (obs'[k][j] # Checks!NoObs <=> obs[k][j] # Checks!NoObs)
        /\ (obs[k][j] # Checks!NoObs => obs'[k][j].quote = obs[k][j].quote)
    BY <1>6, <1>11, ChecksShapes
  <2>2. Checks!Found(k)' = Checks!Found(k)
    BY <2>1 DEF Checks!Found, ChecksPlaces
  <2>3. ChecksQuotes(k)' = ChecksQuotes(k)
    BY <2>1, <2>2 DEF ChecksQuotes, Checks!Found, ChecksPlaces
  <2>4. checks'[k] = checks[k]
    BY <1>2, <1>3, <1>11 DEF ChecksTypes
  <2> QED BY <1>1, <2>2, <2>3, <2>4 DEF ChecksStanding, ChecksDated
<1>12. ASSUME NEW n \in Checks!Numbers, n = made' PROVE ChecksStanding(n)'
  <2>1. checks'[n] = [scene |-> s, version |-> call[c].version, found |-> Cardinality(found)]
    BY <1>2, <1>3, <1>12 DEF ChecksTypes
  <2>2. \A j \in ChecksPlaces : obs'[n][j] # Checks!NoObs => obs'[n][j].quote \in found
    BY <1>5, <1>12
  <2>3. {obs'[n][j].quote : j \in {j \in ChecksPlaces : obs'[n][j] # Checks!NoObs}} \subseteq found
    BY <2>2
  <2>4. ChecksDated(s, call[c].version, found)
    BY <1>1 DEF ChecksUnderWay
  <2>5. ChecksDated(s, call[c].version, {obs'[n][j].quote : j \in {j \in ChecksPlaces : obs'[n][j] # Checks!NoObs}})
    BY <2>3, <2>4 DEF ChecksDated
  <2>6. {j \in ChecksPlaces : obs'[n][j] # Checks!NoObs} = {} => Cardinality(found) = 0
    <3> SUFFICES ASSUME {j \in ChecksPlaces : obs'[n][j] # Checks!NoObs} = {} PROVE found = {}
      BY FS_EmptySet
    <3>1. \A f \in found : place[f] \in ChecksPlaces /\ obs'[n][place[f]] # Checks!NoObs
      BY <1>5, <1>12, ChecksShapes
    <3> QED BY <3>1
  <2> QED BY <1>1, <2>1, <2>5, <2>6 DEF ChecksStanding, ChecksDated, ChecksQuotes, Checks!Found, ChecksPlaces
<1>13. Checks!DecisionsStand
  <2> SUFFICES ASSUME NEW o \in Checks!Numbers \X ChecksPlaces,
                      Checks!Status(o) \in {"replaced"} \cup Checks!Settled
               PROVE  obs'[o[1]][o[2]] = obs[o[1]][o[2]]
    BY DEF Checks!DecisionsStand, ChecksPlaces
  <2>1. o[1] \in Checks!Numbers /\ o[2] \in ChecksPlaces
    OBVIOUS
  <2>2. obs[o[1]][o[2]].status # "none" /\ obs[o[1]][o[2]].status # "open"
    BY DEF Checks!Status, Checks!Settled
  <2>3. o[1] # made'
    <3> SUFFICES ASSUME o[1] = made' PROVE FALSE
      OBVIOUS
    <3>1. made' > made
      BY <1>1, <1>2
    <3>2. obs[made'][o[2]] = Checks!NoObs
      BY <1>2, <2>1, <3>1 DEF ChecksLater
    <3> QED BY <2>2, <3>2, ChecksShapes
  <2> QED BY <1>6, <2>1, <2>2, <2>3
<1>14. \A k \in Checks!Numbers : ChecksStanding(k)'
  BY <1>11, <1>12
<1> QED BY <1>1, <1>8, <1>9, <1>10, <1>13, <1>14, ChecksCallsLeft

LEMMA ChecksNextKeeps == ASSUME ChecksInv, [Checks!Next]_(Checks!vars) PROVE ChecksInv' /\ Checks!DecisionsStand
<1>1. CASE UNCHANGED Checks!vars
  <2>1. ChecksInv'
    BY <1>1 DEF Checks!vars, ChecksInv, ChecksTypes, ChecksLater, ChecksStanding, ChecksUnderWay, ChecksDated,
       ChecksQuotes, Checks!Found
  <2> QED BY <1>1, <2>1 DEF Checks!vars, Checks!DecisionsStand
<1>2. CASE Checks!Next
  BY <1>2, ChecksEditsKeeps, ChecksReadsKeeps, ChecksTestsKeeps, ChecksRecordsKeeps, ChecksLooksKeeps,
     ChecksSetStatusKeeps, ChecksDeleteKeeps, ChecksUpdateKeeps
  DEF Checks!Next, ChecksPlaces
<1> QED BY <1>1, <1>2

LEMMA ChecksInvSound == ASSUME ChecksInv PROVE Checks!Sound
<1>1. Checks!QuotesStand
  <2> SUFFICES ASSUME NEW k \in Checks!Numbers, checks[k] # Checks!NoCheck, ~Checks!Stale(k),
                      NEW j \in Checks!Found(k)
               PROVE  obs[k][j].quote \in scene[checks[k].scene].says
    BY DEF Checks!QuotesStand
  <2>1. obs[k][j].quote \in ChecksQuotes(k)
    BY DEF ChecksQuotes
  <2> QED BY <2>1 DEF ChecksInv, ChecksStanding, ChecksDated, Checks!Stale
<1>2. Checks!CleanWasClean
  BY DEF ChecksInv, ChecksStanding, Checks!CleanWasClean
<1> QED BY <1>1, <1>2 DEF Checks!Sound

-----------------------------------------------------------------------------
(* Samples. What is marked as compared was handed to a pass (PairsHanded); the *)
(* scene just before another is among the recent ones whatever their number.   *)

PairsCompared == SampledScenes \X Nat \X SampledScenes \X Nat
PairsSampling == [at : {"picked", "started"}, target : SampledScenes, pairs : SUBSET PairsCompared]

PairsTypes ==
    /\ version \in [SampledScenes -> Nat]
    /\ call \in [Callers -> {Pairs!Idle} \cup PairsSampling]

PairsHanded ==
    /\ seen \subseteq handed
    /\ \A c \in Callers : call[c].at = "started" => call[c].pairs \subseteq handed

PairsInv == PairsTypes /\ PairsHanded

LEMMA PairsStarts == ASSUME Pairs!Init PROVE PairsInv
  BY DEF Pairs!Init, PairsInv, PairsTypes, PairsHanded, Pairs!Idle

LEMMA PairsShapes == Pairs!Idle.at = "idle" /\ \A r \in PairsSampling : r.at \in {"picked", "started"}
  BY DEF Pairs!Idle, PairsSampling

LEMMA PairsPicksKeeps ==
    ASSUME PairsInv, NEW c \in Callers, NEW t \in SampledScenes, NEW force \in BOOLEAN, Pairs!Picks(c, t, force)
    PROVE  /\ PairsInv'
           /\ \E extra \in Pairs!Extras(t) : call' = [call EXCEPT ![c] =
                [at |-> "picked", target |-> t, pairs |-> Pairs!SamplePairs(t, extra, force)]]
<1> USE DEF PairsInv
<1>1. PICK extra \in Pairs!Extras(t) : call' = [call EXCEPT ![c] =
                [at |-> "picked", target |-> t, pairs |-> Pairs!SamplePairs(t, extra, force)]]
  BY DEF Pairs!Picks, Pairs!Step
<1> DEFINE next == [at |-> "picked", target |-> t, pairs |-> Pairs!SamplePairs(t, extra, force)]
<1>2. next \in PairsSampling /\ next.at = "picked"
  <2>1. \A e \in Pairs!Always(t) \cup extra : e \in SampledScenes
    BY DEF Pairs!Always, Pairs!Recent, Pairs!Extras, Pairs!Before, Pairs!Written
  <2>2. \A e \in SampledScenes : Pairs!Pair(e, t) \in PairsCompared
    BY DEF Pairs!Pair, PairsCompared, PairsTypes
  <2>3. Pairs!SamplePairs(t, extra, force) \in SUBSET PairsCompared
    BY <2>1, <2>2 DEF Pairs!SamplePairs
  <2> QED BY <2>3 DEF PairsSampling
<1> HIDE DEF next
<1>3. call' = [call EXCEPT ![c] = next]
  BY <1>1 DEF next
<1>4. PairsTypes' /\ PairsHanded'
  BY <1>2, <1>3 DEF Pairs!Picks, PairsTypes, PairsHanded
<1> QED BY <1>1, <1>4

LEMMA PairsNextKeeps == ASSUME PairsInv, [Pairs!Next]_(Pairs!vars) PROVE PairsInv'
<1> USE DEF PairsInv
<1>1. CASE UNCHANGED Pairs!vars
  BY <1>1 DEF Pairs!vars, PairsTypes, PairsHanded
<1>2. ASSUME NEW s \in SampledScenes, Pairs!Edits(s) PROVE PairsInv'
  BY <1>2 DEF Pairs!Edits, PairsTypes, PairsHanded
<1>3. ASSUME NEW c \in Callers, NEW starts \in BOOLEAN, Pairs!StartSampleCheck(c, starts) PROVE PairsInv'
  <2>1. call[c].at = "picked" /\ call[c] \in PairsSampling
    BY <1>3, PairsShapes DEF Pairs!StartSampleCheck, PairsTypes
  <2>2. CASE handed' = handed \cup call[c].pairs /\ Pairs!Step(c, [call[c] EXCEPT !.at = "started"])
    <3> DEFINE next == [call[c] EXCEPT !.at = "started"]
    <3>1. next \in PairsSampling /\ next.pairs = call[c].pairs
      BY <2>1 DEF PairsSampling
    <3>2. call' = [call EXCEPT ![c] = next]
      BY <2>2 DEF Pairs!Step
    <3> HIDE DEF next
    <3> QED BY <1>3, <2>2, <3>1, <3>2 DEF Pairs!StartSampleCheck, PairsTypes, PairsHanded
  <2>3. CASE UNCHANGED handed /\ Pairs!Step(c, Pairs!Idle)
    BY <1>3, <2>3, PairsShapes DEF Pairs!StartSampleCheck, Pairs!Step, PairsTypes, PairsHanded
  <2> QED BY <1>3, <2>2, <2>3 DEF Pairs!StartSampleCheck
<1>4. ASSUME NEW c \in Callers, NEW some \in SUBSET handed, Pairs!RecordPairs(c, some) PROVE PairsInv'
  BY <1>4, PairsShapes DEF Pairs!RecordPairs, Pairs!Step, PairsTypes, PairsHanded
<1> QED BY <1>1, <1>2, <1>3, <1>4, PairsPicksKeeps DEF Pairs!Next

\* A scene just before another is among the recent ones.
LEMMA PairsJustBefore ==
    ASSUME PairsTypes, NEW t \in SampledScenes, NEW e \in Pairs!Before(t),
           Cardinality({u \in Pairs!Written : e < u /\ u < t}) < RecentPairs
    PROVE  e \in Pairs!Recent(t)
<1> DEFINE between == {u \in Pairs!Written : e < u /\ u < t}
<1>1. Pairs!Written \subseteq SampledScenes /\ IsFiniteSet(between) /\ e \in Nat /\ t \in Nat
  <2>1. between \subseteq SampledScenes
    BY DEF Pairs!Written
  <2> QED BY <2>1, ScenesAssumption, FS_Subset DEF Pairs!Written, Pairs!Before
<1>2. {s \in Pairs!Before(t) : s >= e} = between \cup {e}
  <2>1. \A s \in Pairs!Written : s \in Nat
    BY <1>1, ScenesAssumption
  <2>2. e \in Pairs!Written /\ e < t
    BY DEF Pairs!Before
  <2>3. \A s : s \in {u \in Pairs!Before(t) : u >= e} <=> s \in between \cup {e}
    <3>1. ASSUME NEW s \in Pairs!Written PROVE s >= e /\ s < t <=> (e < s /\ s < t) \/ s = e
      BY <1>1, <2>1, <2>2
    <3>2. \A s : s \in {u \in Pairs!Before(t) : u >= e} <=> s \in Pairs!Written /\ s >= e /\ s < t
      BY DEF Pairs!Before
    <3>3. \A s : s \in between \cup {e} <=> (s \in Pairs!Written /\ e < s /\ s < t) \/ s = e
      OBVIOUS
    <3> HIDE DEF between
    <3> QED BY <3>1, <3>2, <3>3, <2>2
  <2> QED BY <2>3
<1>3. e \notin between
  BY <1>1
<1> HIDE DEF between
<1>4. Cardinality(between \cup {e}) = Cardinality(between) + 1 /\ Cardinality(between) \in Nat
  BY <1>1, <1>3, FS_AddElement, FS_CardinalityType
<1>5. Cardinality(between) < RecentPairs
  BY DEF between
<1> QED BY <1>2, <1>4, <1>5, ScenesAssumption, CountsAgree DEF Pairs!Recent

LEMMA PairsPicksAllLeft == ASSUME PairsInv, [Pairs!Next]_(Pairs!vars) PROVE Pairs!PicksWhatIsLeft
<1> USE DEF PairsInv
<1> SUFFICES ASSUME NEW c \in Callers, call[c] = Pairs!Idle, call'[c].at = "picked"
             PROVE  LET t == call'[c].target IN
                    {Pairs!Pair(e, t) : e \in {s \in Pairs!Before(t) :
                        \/ Cardinality({u \in Pairs!Written : s < u /\ u < t}) < RecentPairs
                        \/ s \in Pairs!Anchors}} \ call'[c].pairs \subseteq handed
  BY CountsAgree DEF Pairs!PicksWhatIsLeft
<1>1. PICK t \in SampledScenes, force \in BOOLEAN : Pairs!Picks(c, t, force)
  <2>1. \A d \in Callers : call[d].at # "idle" => d # c
    BY PairsShapes
  <2>2. ASSUME NEW d \in Callers, NEW starts \in BOOLEAN, Pairs!StartSampleCheck(d, starts) PROVE FALSE
    <3>1. d # c
      BY <2>2, PairsShapes DEF Pairs!StartSampleCheck
    <3> QED BY <2>2, <3>1, PairsShapes DEF Pairs!StartSampleCheck, Pairs!Step, PairsTypes
  <2>3. ASSUME NEW d \in Callers, NEW some, Pairs!RecordPairs(d, some) PROVE FALSE
    <3>1. d # c
      BY <2>3, PairsShapes DEF Pairs!RecordPairs
    <3> QED BY <2>3, <3>1, PairsShapes DEF Pairs!RecordPairs, Pairs!Step, PairsTypes
  <2>4. \A s \in SampledScenes : ~Pairs!Edits(s)
    BY PairsShapes DEF Pairs!Edits
  <2>5. ~UNCHANGED Pairs!vars
    BY PairsShapes DEF Pairs!vars
  <2>6. ASSUME NEW d \in Callers, NEW t \in SampledScenes, NEW force \in BOOLEAN, Pairs!Picks(d, t, force)
        PROVE  d = c
    BY <2>6, PairsShapes DEF Pairs!Picks, Pairs!Step, PairsTypes
  <2> QED BY <2>2, <2>3, <2>4, <2>5, <2>6 DEF Pairs!Next
<1>2. PICK extra \in Pairs!Extras(t) : call' = [call EXCEPT ![c] =
                [at |-> "picked", target |-> t, pairs |-> Pairs!SamplePairs(t, extra, force)]]
  BY <1>1, PairsPicksKeeps
<1>3. call'[c].target = t /\ call'[c].pairs = Pairs!SamplePairs(t, extra, force)
  BY <1>2 DEF PairsTypes
<1>4. ASSUME NEW e \in Pairs!Before(t),
             Cardinality({u \in Pairs!Written : e < u /\ u < t}) < RecentPairs \/ e \in Pairs!Anchors,
             Pairs!Pair(e, t) \notin Pairs!SamplePairs(t, extra, force)
      PROVE  Pairs!Pair(e, t) \in handed
  <2>1. e \in Pairs!Always(t)
    BY <1>4, PairsJustBefore DEF Pairs!Always
  <2>2. Pairs!PairSeen(Pairs!Pair(e, t))
    BY <1>4, <2>1 DEF Pairs!SamplePairs
  <2> QED BY <2>2 DEF Pairs!PairSeen, PairsHanded
<1> QED BY <1>3, <1>4

(* A check's quotes stand in what it read, a clean check was clean, what the   *)
(* writer decided stays, and a sample passes over no pair that is left.        *)
(* (continuity/repo.go, validate.go, sampling.go)                              *)
THEOREM ChecksSafe == Spec => ChecksHold
<1> DEFINE I == /\ part = "checks" => ChecksInv
                /\ part = "pairs" => PairsInv
           Fine == /\ part = "checks" => Checks!DecisionsStand
                   /\ part = "pairs" => Pairs!PicksWhatIsLeft
<1>1. Init => I
  BY ChecksStarts, PairsStarts DEF Init
<1>2. I /\ [Next]_vars => I' /\ Fine
  BY PartStays, ChecksNextKeeps, PairsNextKeeps, PairsPicksAllLeft
<1>3. I => (part = "checks" => Checks!Sound)
  BY ChecksInvSound
<1>4. I /\ [Next]_vars => [Fine]_vars
  BY <1>2
<1> QED BY <1>1, <1>2, <1>3, <1>4, PTL DEF Spec, ChecksHold

-----------------------------------------------------------------------------
(* Forecasts. What a call has read is the canon of now unless an edit has      *)
(* overtaken it (PlansDrawing), and what a list did not take in was saved with *)
(* the canon of now; a branch is chosen in the work the forecast is of.        *)

PlansVals == Values \cup {First, Plans!NoRow}
PlansCanons == [plain : PlansVals, rows : [CanonRows -> PlansVals]]
PlansSaved == [work : Works, plain : PlansVals, rows : [CanonRows -> PlansVals],
                                                        chosen : {Plans!None} \cup Plans!Branches,
                                                                  true : BOOLEAN]
PlansReading == [at : {"drawn", "half", "read"}, what : {"save", "list"}, work : Works,
                                                         listed : SUBSET Plans!Ids,
                 still : BOOLEAN, plain : PlansVals, rows : [CanonRows -> PlansVals]]
PlansListing == [at : {"listed"}, work : Works, stale : SUBSET Plans!Ids]
PlansChoosing == [at : {"choosing"}, work : Works, id : Plans!Ids, branch : Plans!Branches]

PlansTypes ==
    /\ canon \in [Works -> PlansCanons]
    /\ forecast \in [Plans!Ids -> {Plans!Gone} \cup PlansSaved]
    /\ made \in Nat
    /\ call \in [Windows -> {Plans!Idle} \cup PlansReading \cup PlansListing \cup PlansChoosing]

PlansMade == \A i \in Plans!Ids : Plans!There(i) => i <= made

PlansIsNow(i) == forecast[i].plain = canon[forecast[i].work].plain
      /\ forecast[i].rows = canon[forecast[i].work].rows

PlansDrawing(c) ==
    /\ \A i \in call[c].listed : i <= made
    /\ call[c].still =>
        /\ call[c].at \in {"half", "read"} => call[c].plain = canon[call[c].work].plain
        /\ call[c].at = "read" => call[c].rows = canon[call[c].work].rows
        /\ call[c].what = "list" => \A i \in Plans!Ids :
            Plans!There(i) /\ forecast[i].work = call[c].work /\ forecast[i].true /\ i \notin call[c].listed
                  => PlansIsNow(i)

PlansListen(c) ==
    /\ \A i \in call[c].stale : i <= made
    /\ \A i \in Plans!Ids : Plans!There(i) /\ forecast[i].work = call[c].work /\ forecast[i].true =>
        (i \in call[c].stale <=> ~PlansIsNow(i))

PlansChooses(c) == call[c].id <= made /\ (Plans!There(call[c].id) => forecast[call[c].id].work = call[c].work)

PlansGoing(c) ==
    /\ call[c].at \in {"drawn", "half", "read"} => PlansDrawing(c)
    /\ call[c].at = "listed" => PlansListen(c)
    /\ call[c].at = "choosing" => PlansChooses(c)

PlansInv == PlansTypes /\ PlansMade /\ Plans!OneChosen /\ \A c \in Windows : PlansGoing(c)

PlansCalls == {Plans!Idle} \cup PlansReading \cup PlansListing \cup PlansChoosing

LEMMA PlansShapes ==
    /\ Plans!Idle.at = "idle" /\ Plans!Gone.work = Plans!None /\ Plans!Gone \notin PlansSaved
    /\ \A r \in PlansReading : r.at \in {"drawn", "half", "read"}
    /\ \A r \in PlansListing : r.at = "listed"
    /\ \A r \in PlansChoosing : r.at = "choosing"
  BY ForecastsAssumption DEF Plans!Idle, Plans!Gone, PlansSaved, PlansReading, PlansListing, PlansChoosing

LEMMA PlansInHand ==
    ASSUME PlansTypes, NEW c \in Windows
    PROVE  /\ call[c].at \in {"drawn", "half", "read"} => call[c] \in PlansReading
           /\ call[c].at = "listed" => call[c] \in PlansListing
           /\ call[c].at = "choosing" => call[c] \in PlansChoosing
  BY PlansShapes DEF PlansTypes

LEMMA PlansStarts == ASSUME Plans!Init PROVE PlansInv
<1>1. PlansTypes
  BY DEF Plans!Init, PlansTypes, PlansCanons, PlansVals
<1>2. PlansMade /\ Plans!OneChosen /\ \A c \in Windows : PlansGoing(c)
  BY PlansShapes DEF Plans!Init, PlansMade, Plans!OneChosen, PlansGoing, Plans!There
<1> QED BY <1>1, <1>2 DEF PlansInv

LEMMA PlansSteps ==
    ASSUME PlansTypes, NEW c \in Windows, NEW next, next \in PlansCalls, Plans!Step(c, next)
    PROVE  /\ call' \in [Windows -> PlansCalls] /\ call'[c] = next
           /\ \A d \in Windows \ {c} : call'[d] = call[d]
  BY DEF PlansTypes, Plans!Step, PlansCalls

LEMMA PlansOnlyCall ==
    ASSUME PlansInv, NEW c \in Windows, NEW next, next \in PlansCalls, Plans!Step(c, next),
           UNCHANGED <<canon, forecast, made>>, PlansGoing(c)'
    PROVE  PlansInv'
<1> USE DEF PlansInv
<1>1. /\ call' \in [Windows -> PlansCalls] /\ call'[c] = next
      /\ \A d \in Windows \ {c} : call'[d] = call[d]
  BY PlansSteps
<1>2. PlansTypes' /\ PlansMade' /\ Plans!OneChosen'
  BY <1>1 DEF PlansTypes, PlansCalls, PlansMade, Plans!OneChosen, Plans!There
<1>3. \A d \in Windows \ {c} : PlansGoing(d)'
  BY <1>1 DEF PlansGoing, PlansDrawing, PlansListen, PlansChooses, Plans!There, PlansIsNow
<1> QED BY <1>2, <1>3

LEMMA PlansOver == ASSUME NEW c, call'[c] = Plans!Idle PROVE PlansGoing(c)'
  BY PlansShapes DEF PlansGoing

LEMMA PlansEnding ==
    ASSUME PlansInv, NEW c \in Windows, Plans!Ends(c), UNCHANGED <<canon, forecast, made>>
    PROVE  PlansInv'
<1>1. call'[c] = Plans!Idle /\ Plans!Step(c, Plans!Idle) /\ Plans!Idle \in PlansCalls
  BY PlansSteps DEF Plans!Ends, PlansCalls, PlansInv
<1> QED BY <1>1, PlansOver, PlansOnlyCall

LEMMA PlansAsksKeeps ==
    ASSUME PlansInv, NEW c \in Windows, NEW what \in {"save", "list"}, NEW w \in Works,
           NEW listed \in SUBSET Plans!Ids,
           \A i \in listed : i <= made,
           what = "list" => \A i \in Plans!Ids : Plans!There(i) /\ forecast[i].work = w => i \in listed,
           Plans!Asks(c, what, w, listed), UNCHANGED <<canon, forecast, made>>
    PROVE  PlansInv'
<1> DEFINE next == [at |-> "drawn", what |-> what, work |-> w, listed |-> listed, still |-> TRUE,
                    plain |-> Plans!NoRow, rows |-> [r \in CanonRows |-> Plans!NoRow]]
<1>1. next \in PlansReading
  BY DEF PlansReading, PlansVals
<1>2. /\ next.at = "drawn" /\ next.what = what /\ next.work = w /\ next.listed = listed /\ next \in PlansCalls
      /\ Plans!Step(c, next)
  BY <1>1 DEF Plans!Asks, PlansCalls
<1> HIDE DEF next
<1>3. call'[c] = next
  BY <1>2, PlansSteps DEF PlansInv
<1>4. PlansGoing(c)'
  BY <1>2, <1>3 DEF PlansGoing, PlansDrawing, Plans!There, PlansIsNow
<1> QED BY <1>2, <1>4, PlansOnlyCall

LEMMA PlansSaveForecastKeeps ==
    ASSUME PlansInv, NEW c \in Windows, NEW w \in Works, NEW names \in SUBSET CanonRows,
           Plans!SaveForecast(c, w, names)
    PROVE  PlansInv'
  BY PlansAsksKeeps DEF Plans!SaveForecast

LEMMA PlansListForecastsKeeps ==
    ASSUME PlansInv, NEW c \in Windows, NEW w \in Works, Plans!ListForecasts(c, w) PROVE PlansInv'
<1> DEFINE listed == {i \in Plans!Ids : forecast[i].work = w}
<1>1. \A i \in listed : i <= made
  BY ForecastsAssumption, PlansShapes DEF PlansInv, PlansMade, Plans!There
<1>2. listed \in SUBSET Plans!Ids /\ \A i \in Plans!Ids : Plans!There(i) /\ forecast[i].work = w => i \in listed
  OBVIOUS
<1>3. Plans!Asks(c, "list", w, listed) /\ UNCHANGED <<canon, forecast, made>>
  BY DEF Plans!ListForecasts
<1> HIDE DEF listed
<1> QED BY <1>1, <1>2, <1>3, PlansAsksKeeps

LEMMA PlansInputsKeeps == ASSUME PlansInv, NEW c \in Windows, Plans!Inputs(c) PROVE PlansInv'
<1> USE DEF PlansInv
<1> DEFINE now == canon[call[c].work]
<1>0. UNCHANGED <<canon, forecast, made>> /\ PlansGoing(c)
  BY DEF Plans!Inputs
<1>1. CASE call[c].at = "drawn" /\ Plans!Step(c, [call[c] EXCEPT !.at = "half", !.plain = now.plain])
  <2> DEFINE next == [call[c] EXCEPT !.at = "half", !.plain = now.plain]
  <2>1. call[c] \in PlansReading
    BY <1>1, PlansInHand
  <2>2. now.plain \in PlansVals
    BY <2>1 DEF PlansTypes, PlansCanons, PlansReading
  <2>3. /\ next \in PlansReading /\ next.at = "half" /\ next.what = call[c].what /\ next.work = call[c].work
        /\ next.listed = call[c].listed /\ next.still = call[c].still /\ next.plain = now.plain
    BY <2>1, <2>2 DEF PlansReading
  <2>4. next \in PlansCalls /\ Plans!Step(c, next)
    BY <1>1, <2>3 DEF PlansCalls
  <2> HIDE DEF next
  <2>5. call'[c] = next
    BY <2>4, PlansSteps
  <2>6. PlansGoing(c)'
    BY <1>0, <1>1, <2>3, <2>5 DEF PlansGoing, PlansDrawing, Plans!There, PlansIsNow
  <2> QED BY <1>0, <2>4, <2>6, PlansOnlyCall
<1>2. CASE call[c].at = "half" /\ Plans!Step(c, [call[c] EXCEPT !.at = "read", !.rows = now.rows])
  <2> DEFINE next == [call[c] EXCEPT !.at = "read", !.rows = now.rows]
  <2>1. call[c] \in PlansReading
    BY <1>2, PlansInHand
  <2>2. now.rows \in [CanonRows -> PlansVals]
    BY <2>1 DEF PlansTypes, PlansCanons, PlansReading
  <2>3. /\ next \in PlansReading /\ next.at = "read" /\ next.what = call[c].what /\ next.work = call[c].work
        /\ next.listed = call[c].listed /\ next.still = call[c].still /\ next.plain = call[c].plain
        /\ next.rows = now.rows
    BY <2>1, <2>2 DEF PlansReading
  <2>4. next \in PlansCalls /\ Plans!Step(c, next)
    BY <1>2, <2>3 DEF PlansCalls
  <2> HIDE DEF next
  <2>5. call'[c] = next
    BY <2>4, PlansSteps
  <2>6. PlansGoing(c)'
    BY <1>0, <1>2, <2>3, <2>5 DEF PlansGoing, PlansDrawing, Plans!There, PlansIsNow
  <2> QED BY <1>0, <2>4, <2>6, PlansOnlyCall
<1> QED BY <1>1, <1>2 DEF Plans!Inputs

LEMMA PlansInsertKeeps == ASSUME PlansInv, NEW c \in Windows, Plans!Insert(c) PROVE PlansInv'
<1> USE DEF PlansInv
<1> DEFINE new == [work |-> call[c].work, plain |-> call[c].plain, rows |-> call[c].rows,
                   chosen |-> Plans!None, true |-> call[c].still]
<1>1. call[c].at = "read" /\ call[c] \in PlansReading /\ made < MaxForecasts /\ made' = made + 1
      /\ UNCHANGED canon /\ Plans!Ends(c)
  BY PlansInHand DEF Plans!Insert
<1>2. made \in Nat /\ made' \in Plans!Ids
  BY <1>1, ForecastsAssumption DEF PlansTypes, Plans!Ids
<1>3. new \in PlansSaved /\ new.work = call[c].work /\ new.chosen = Plans!None
  BY <1>1 DEF PlansReading, PlansSaved
<1>4. new.true => new.plain = canon[new.work].plain /\ new.rows = canon[new.work].rows
  BY <1>1 DEF PlansGoing, PlansDrawing
<1> HIDE DEF new
<1>5. forecast' = [forecast EXCEPT ![made'] = new]
  BY DEF Plans!Insert, new
<1>6. forecast' \in [Plans!Ids -> {Plans!Gone} \cup PlansSaved] /\ forecast'[made'] = new
      /\ \A i \in Plans!Ids : i # made' => forecast'[i] = forecast[i]
  BY <1>2, <1>3, <1>5 DEF PlansTypes
<1>7. /\ call' \in [Windows -> PlansCalls] /\ call'[c] = Plans!Idle
      /\ \A d \in Windows \ {c} : call'[d] = call[d]
  BY <1>1, PlansSteps DEF Plans!Ends, PlansCalls
<1>8. \A i \in Plans!Ids : i <= made => i # made' /\ i <= made'
  BY <1>1, <1>2, ForecastsAssumption DEF Plans!Ids
<1>9. PlansTypes'
  BY <1>1, <1>2, <1>6, <1>7 DEF PlansTypes, PlansCalls
<1>10. PlansMade'
  BY <1>2, <1>6, <1>8, ForecastsAssumption DEF PlansMade, Plans!There, Plans!Ids
<1>11. Plans!OneChosen'
  BY <1>3, <1>6 DEF Plans!OneChosen, Plans!There
<1>13. ASSUME NEW i \in Plans!Ids, Plans!There(i)', i # made'
       PROVE  Plans!There(i) /\ (PlansIsNow(i)' <=> PlansIsNow(i))
  <2>1. forecast'[i] = forecast[i]
    BY <1>6, <1>13
  <2> QED BY <2>1, <1>1, <1>13 DEF Plans!There, PlansIsNow
<1>14. ASSUME NEW n \in Plans!Ids, n = made', new.true PROVE PlansIsNow(n)'
  <2>1. forecast'[n] = new
    BY <1>6, <1>14
  <2> QED BY <2>1, <1>1, <1>4, <1>14 DEF PlansIsNow
<1>15. ASSUME NEW d \in Windows \ {c} PROVE PlansGoing(d)'
  <2>1. CASE call[d].at \in {"drawn", "half", "read"}
    <3>1. call[d] \in PlansReading /\ PlansDrawing(d)
      BY <2>1, PlansInHand DEF PlansGoing
    <3>2. \A i \in call[d].listed : i <= made' /\ i # made'
      BY <1>8, <3>1 DEF PlansDrawing, PlansReading
    <3>3. ASSUME call[d].still, call[d].what = "list", NEW i \in Plans!Ids, Plans!There(i)',
                 forecast'[i].work = call[d].work, forecast'[i].true, i \notin call[d].listed
          PROVE  PlansIsNow(i)'
      <4>1. CASE i = made'
        BY <3>3, <4>1, <1>2, <1>6, <1>14
      <4>2. CASE i # made'
        BY <3>1, <3>3, <4>2, <1>6, <1>13 DEF PlansDrawing
      <4> QED BY <4>1, <4>2
    <3>4. PlansDrawing(d)'
      BY <1>1, <1>7, <3>1, <3>2, <3>3 DEF PlansDrawing
    <3> QED BY <2>1, <3>4, <1>7 DEF PlansGoing
  <2>2. CASE call[d].at = "listed"
    <3>1. call[d] \in PlansListing /\ PlansListen(d)
      BY <2>2, PlansInHand DEF PlansGoing
    <3>2. \A i \in call[d].stale : i <= made' /\ i # made'
      BY <1>8, <3>1 DEF PlansListen, PlansListing
    <3>3. ASSUME NEW i \in Plans!Ids, Plans!There(i)', forecast'[i].work = call[d].work, forecast'[i].true
          PROVE  i \in call[d].stale <=> ~PlansIsNow(i)'
      <4>1. CASE i = made'
        BY <3>2, <3>3, <4>1, <1>6, <1>14
      <4>2. CASE i # made'
        BY <3>1, <3>3, <4>2, <1>6, <1>13 DEF PlansListen
      <4> QED BY <4>1, <4>2
    <3>4. PlansListen(d)'
      BY <1>7, <3>2, <3>3 DEF PlansListen
    <3> QED BY <2>2, <3>4, <1>7 DEF PlansGoing
  <2>3. CASE call[d].at = "choosing"
    <3>1. call[d].id \in Plans!Ids /\ PlansChooses(d)
      BY <2>3, PlansInHand DEF PlansGoing, PlansChoosing
    <3>2. PlansChooses(d)'
      BY <1>6, <1>7, <1>8, <3>1 DEF PlansChooses, Plans!There
    <3> QED BY <2>3, <3>2, <1>7 DEF PlansGoing
  <2> QED BY <2>1, <2>2, <2>3, <1>7 DEF PlansGoing
<1> QED BY <1>7, <1>9, <1>10, <1>11, <1>15, PlansOver

LEMMA PlansListedKeeps == ASSUME PlansInv, NEW c \in Windows, Plans!Listed(c) PROVE PlansInv'
<1> USE DEF PlansInv
<1> DEFINE w == call[c].work
           next == [at |-> "listed", work |-> w, stale |->
                {i \in call[c].listed : Plans!There(i) /\ Plans!Diff(forecast[i], call[c].plain, call[c].rows)}]
<1>1. call[c].at = "read" /\ call[c].what = "list" /\ call[c] \in PlansReading /\ PlansDrawing(c)
      /\ UNCHANGED <<canon, forecast, made>>
  BY PlansInHand DEF Plans!Listed, PlansGoing
<1>2. CASE Plans!Ends(c)
  BY <1>1, <1>2, PlansEnding
<1>3. CASE call[c].still /\ Plans!Step(c, next)
  <2>1. next \in PlansListing /\ next.at = "listed" /\ next.work = w
        /\ next.stale = {i \in call[c].listed : Plans!There(i)
            /\ Plans!Diff(forecast[i], call[c].plain, call[c].rows)}
    BY <1>1 DEF PlansReading, PlansListing
  <2> HIDE DEF next
  <2>2. next \in PlansCalls
    BY <2>1 DEF PlansCalls
  <2>3. call'[c] = next
    BY <2>2, <1>3, PlansSteps
  <2>4. ASSUME NEW i \in Plans!Ids, Plans!There(i), forecast[i].work = w, forecast[i].true
        PROVE  i \in next.stale <=> ~PlansIsNow(i)
    <3>1. call[c].plain = canon[w].plain /\ call[c].rows = canon[w].rows
      BY <1>1, <1>3 DEF PlansDrawing
    <3>2. forecast[i].rows \in [CanonRows -> PlansVals] /\ canon[w].rows \in [CanonRows -> PlansVals]
      BY <2>4, <1>1 DEF PlansTypes, Plans!There, PlansSaved, PlansCanons, PlansReading
    <3>3. Plans!ChangedRowIDs(forecast[i].rows, canon[w].rows) # {} <=> forecast[i].rows # canon[w].rows
      <4>1. CASE forecast[i].rows = canon[w].rows
        BY <4>1 DEF Plans!ChangedRowIDs
      <4>2. CASE forecast[i].rows # canon[w].rows
        <5>1. PICK r \in CanonRows : forecast[i].rows[r] # canon[w].rows[r]
          BY <3>2, <4>2
        <5>2. r \in Plans!ChangedRowIDs(forecast[i].rows, canon[w].rows)
          BY <5>1 DEF Plans!ChangedRowIDs
        <5> QED BY <4>2, <5>2
      <4> QED BY <4>1, <4>2
    <3>4. Plans!Diff(forecast[i], call[c].plain, call[c].rows) <=> ~PlansIsNow(i)
      BY <2>4, <3>1, <3>3 DEF Plans!Diff, PlansIsNow
    <3>5. i \in call[c].listed \/ PlansIsNow(i)
      BY <1>1, <1>3, <2>4 DEF PlansDrawing
    <3> QED BY <2>1, <2>4, <3>4, <3>5
  <2>5. \A i \in next.stale : i <= made
    BY <1>1, <2>1 DEF PlansDrawing
  <2>6. PlansGoing(c)'
    BY <1>1, <2>1, <2>3, <2>4, <2>5 DEF PlansGoing, PlansListen, Plans!There, PlansIsNow
  <2> QED BY <1>1, <1>3, <2>2, <2>6, PlansOnlyCall
<1> QED BY <1>2, <1>3 DEF Plans!Listed

LEMMA PlansAnsweredKeeps == ASSUME PlansInv, NEW c \in Windows, Plans!Answered(c) PROVE PlansInv'
  BY PlansEnding DEF Plans!Answered

LEMMA PlansSelectForecastKeeps ==
    ASSUME PlansInv, NEW c \in Windows, NEW w \in Works, NEW i \in Plans!Ids, NEW b \in Plans!Branches,
           Plans!SelectForecast(c, w, i, b)
    PROVE  PlansInv'
<1> USE DEF PlansInv
<1> DEFINE next == [at |-> "choosing", work |-> forecast[i].work, id |-> i, branch |-> b]
<1>1. Plans!There(i) /\ forecast[i] \in PlansSaved /\ Plans!Step(c, next) /\ UNCHANGED <<canon, forecast, made>>
  BY DEF Plans!SelectForecast, Plans!There, PlansTypes
<1>2. next \in PlansChoosing /\ next.at = "choosing" /\ next.work = forecast[i].work /\ next.id = i
  BY <1>1 DEF PlansChoosing, PlansSaved
<1> HIDE DEF next
<1>3. next \in PlansCalls
  BY <1>2 DEF PlansCalls
<1>4. call'[c] = next
  BY <1>1, <1>3, PlansSteps
<1>5. PlansGoing(c)'
  BY <1>1, <1>2, <1>4 DEF PlansGoing, PlansChooses, PlansMade, Plans!There
<1> QED BY <1>1, <1>3, <1>5, PlansOnlyCall

\* Forecasts go, or are chosen or not, and nothing else is said of them.
PlansSame(i) ==
    forecast'[i] = Plans!Gone \/ (Plans!There(i) /\ forecast'[i] \in PlansSaved
          /\ forecast'[i].work = forecast[i].work
        /\ forecast'[i].plain = forecast[i].plain /\ forecast'[i].rows = forecast[i].rows
        /\ forecast'[i].true = forecast[i].true)

LEMMA PlansSameKeeps ==
    ASSUME PlansInv, \A i \in Plans!Ids : PlansSame(i), DOMAIN forecast' = Plans!Ids,
           forecast' = [i \in Plans!Ids |-> forecast'[i]],
           Plans!OneChosen', UNCHANGED <<canon, made>>,
           call' \in [Windows -> PlansCalls], \A d \in Windows : call'[d] \in {call[d], Plans!Idle}
    PROVE  PlansInv'
<1> USE DEF PlansInv
<1>1. forecast' \in [Plans!Ids -> {Plans!Gone} \cup PlansSaved]
  BY DEF PlansSame
<1>2. PlansTypes' /\ PlansMade'
  BY <1>1 DEF PlansTypes, PlansCalls, PlansMade, Plans!There, PlansSame
<1>3. ASSUME NEW i \in Plans!Ids, Plans!There(i)'
      PROVE  Plans!There(i) /\ forecast'[i].work = forecast[i].work /\ forecast'[i].true = forecast[i].true
             /\ (PlansIsNow(i)' <=> PlansIsNow(i))
  BY <1>3 DEF Plans!There, PlansSame, PlansIsNow
<1>4. ASSUME NEW d \in Windows, call'[d] = call[d] PROVE PlansGoing(d)'
  <2>1. call[d].at \in {"drawn", "half", "read"} => PlansDrawing(d)'
    BY <1>3, <1>4 DEF PlansGoing, PlansDrawing
  <2>2. call[d].at = "listed" => PlansListen(d)'
    BY <1>3, <1>4 DEF PlansGoing, PlansListen
  <2>3. call[d].at = "choosing" => PlansChooses(d)'
    BY <1>3, <1>4, PlansInHand DEF PlansGoing, PlansChooses, PlansChoosing
  <2> QED BY <1>4, <2>1, <2>2, <2>3 DEF PlansGoing
<1> QED BY <1>2, <1>4, PlansOver

LEMMA PlansUnchosenSame ==
    ASSUME PlansTypes, NEW i \in Plans!Ids, NEW w \in Works
    PROVE  /\ ~Plans!There(i) => Plans!Unchosen(forecast[i], w) = Plans!Gone
           /\ Plans!There(i) => /\ Plans!Unchosen(forecast[i], w) \in PlansSaved
                                /\ Plans!Unchosen(forecast[i], w).work = forecast[i].work
                                /\ Plans!Unchosen(forecast[i], w).plain = forecast[i].plain
                                /\ Plans!Unchosen(forecast[i], w).rows = forecast[i].rows
                                /\ Plans!Unchosen(forecast[i], w).true = forecast[i].true
                                /\ Plans!Unchosen(forecast[i], w).chosen \in {Plans!None, forecast[i].chosen}
                                /\ forecast[i].work = w => Plans!Unchosen(forecast[i], w).chosen = Plans!None
<1>1. ~Plans!There(i) => Plans!Unchosen(forecast[i], w) = Plans!Gone
  BY PlansShapes, ForecastsAssumption DEF Plans!There, Plans!Unchosen
<1>2. Plans!There(i) => forecast[i] \in PlansSaved
  BY DEF Plans!There, PlansTypes
<1> QED BY <1>1, <1>2 DEF Plans!Unchosen, PlansSaved

LEMMA PlansSelectKeeps == ASSUME PlansInv, NEW c \in Windows, Plans!Select(c) PROVE PlansInv'
<1> USE DEF PlansInv
<1> DEFINE i == call[c].id  w == call[c].work  b == call[c].branch
<1>1. call[c].at = "choosing" /\ call[c] \in PlansChoosing /\ PlansChooses(c) /\ UNCHANGED <<canon, made>>
      /\ Plans!Ends(c)
  BY PlansInHand DEF Plans!Select, PlansGoing
<1>2. i \in Plans!Ids /\ w \in Works /\ b \in Plans!Branches
  BY <1>1 DEF PlansChoosing
<1>3. forecast' = [j \in Plans!Ids |-> IF j = i /\ Plans!There(i) THEN [forecast[i] EXCEPT !.chosen = b]
                                       ELSE Plans!Unchosen(forecast[j], w)]
  BY DEF Plans!Select
<1>4. Plans!There(i) => /\ forecast'[i] \in PlansSaved /\ forecast'[i].work = w /\ forecast[i].work = w
                        /\ forecast'[i].plain = forecast[i].plain
                        /\ forecast'[i].rows = forecast[i].rows /\ forecast'[i].true = forecast[i].true
  <2> SUFFICES ASSUME Plans!There(i)
               PROVE  /\ forecast'[i] \in PlansSaved /\ forecast'[i].work = w /\ forecast[i].work = w
                      /\ forecast'[i].plain = forecast[i].plain
                      /\ forecast'[i].rows = forecast[i].rows /\ forecast'[i].true = forecast[i].true
    OBVIOUS
  <2>1. forecast[i] \in PlansSaved /\ forecast[i].work = w
    BY <1>1, <1>2 DEF Plans!There, PlansTypes, PlansChooses
  <2>2. forecast'[i] = [forecast[i] EXCEPT !.chosen = b]
    BY <1>2, <1>3
  <2> QED BY <2>1, <2>2, <1>2 DEF PlansSaved
<1> HIDE DEF i, w, b
<1>5. ASSUME NEW j \in Plans!Ids, j # i \/ ~Plans!There(i) PROVE forecast'[j] = Plans!Unchosen(forecast[j], w)
  BY <1>3, <1>5
<1>6. \A j \in Plans!Ids : PlansSame(j)
  BY <1>2, <1>4, <1>5, PlansUnchosenSame DEF PlansSame
<1>7. ASSUME NEW j \in Plans!Ids, Plans!There(j)', j # i \/ ~Plans!There(i), forecast'[j].chosen # Plans!None
      PROVE  Plans!There(j) /\ forecast'[j].work = forecast[j].work /\ forecast[j].work # w
            /\ forecast[j].chosen # Plans!None
  <2>1. Plans!There(j)
    BY <1>5, <1>7, <1>2, PlansUnchosenSame DEF Plans!There
  <2> QED BY <2>1, <1>5, <1>7, <1>2, PlansUnchosenSame
<1>8. Plans!OneChosen'
  <2> SUFFICES ASSUME NEW j \in Plans!Ids, NEW k \in Plans!Ids, Plans!There(j)', Plans!There(k)',
                      forecast'[j].work = forecast'[k].work,
                      forecast'[j].chosen # Plans!None, forecast'[k].chosen # Plans!None
               PROVE  j = k
    BY DEF Plans!OneChosen
  <2>1. CASE Plans!There(i) /\ (j = i \/ k = i)
    BY <2>1, <1>4, <1>7
  <2>2. CASE ~(Plans!There(i) /\ (j = i \/ k = i))
    BY <2>2, <1>7 DEF Plans!OneChosen
  <2> QED BY <2>1, <2>2
<1>9. call' \in [Windows -> PlansCalls] /\ \A d \in Windows : call'[d] \in {call[d], Plans!Idle}
  BY <1>1, PlansSteps DEF Plans!Ends, PlansCalls
<1> QED BY <1>1, <1>3, <1>6, <1>8, <1>9, PlansSameKeeps

LEMMA PlansClearSelectionKeeps == ASSUME PlansInv, NEW w \in Works, Plans!ClearSelection(w) PROVE PlansInv'
<1> USE DEF PlansInv
<1>1. forecast' = [i \in Plans!Ids |-> Plans!Unchosen(forecast[i], w)] /\ UNCHANGED <<canon, made, call>>
  BY DEF Plans!ClearSelection
<1>2. \A i \in Plans!Ids : forecast'[i] = Plans!Unchosen(forecast[i], w)
  BY <1>1
<1>3. \A i \in Plans!Ids : PlansSame(i)
  BY <1>2, PlansUnchosenSame DEF PlansSame
<1>4. ASSUME NEW j \in Plans!Ids, Plans!There(j)', forecast'[j].chosen # Plans!None
      PROVE  Plans!There(j) /\ forecast'[j].work = forecast[j].work /\ forecast[j].chosen # Plans!None
  <2>1. Plans!There(j)
    BY <1>2, <1>4, PlansUnchosenSame DEF Plans!There
  <2> QED BY <2>1, <1>2, <1>4, PlansUnchosenSame
<1>5. Plans!OneChosen'
  BY <1>4 DEF Plans!OneChosen
<1>6. call' \in [Windows -> PlansCalls] /\ \A d \in Windows : call'[d] \in {call[d], Plans!Idle}
  BY <1>1 DEF PlansTypes, PlansCalls
<1> QED BY <1>1, <1>3, <1>5, <1>6, PlansSameKeeps

LEMMA PlansDeleteKeeps ==
    ASSUME PlansInv, NEW w \in Works, NEW i \in Plans!Ids, Plans!Delete(w, i)
    PROVE  PlansInv'
<1> USE DEF PlansInv
<1>1. forecast' = [forecast EXCEPT ![i] = Plans!Gone] /\ UNCHANGED <<canon, made, call>>
  BY DEF Plans!Delete
<1>2. forecast' = [j \in Plans!Ids |-> forecast'[j]] /\ \A j \in Plans!Ids : forecast'[j] = IF j = i
      THEN Plans!Gone ELSE forecast[j]
  BY <1>1 DEF PlansTypes
<1>3. \A j \in Plans!Ids : PlansSame(j)
  BY <1>2 DEF PlansSame, PlansTypes, Plans!There
<1>4. Plans!OneChosen'
  BY <1>2 DEF Plans!OneChosen, Plans!There
<1>5. call' \in [Windows -> PlansCalls] /\ \A d \in Windows : call'[d] \in {call[d], Plans!Idle}
  BY <1>1 DEF PlansTypes, PlansCalls
<1> QED BY <1>1, <1>2, <1>3, <1>4, <1>5, PlansSameKeeps

\* The canon of one work is edited.
LEMMA PlansCanonEdited ==
    ASSUME PlansInv, NEW w \in Works, NEW new \in PlansCanons, canon' = [canon EXCEPT ![w] = new],
           Plans!Overtaken(w), UNCHANGED <<forecast, made>>
    PROVE  PlansInv'
<1> USE DEF PlansInv
<1>1. canon' \in [Works -> PlansCanons] /\ \A v \in Works : v # w => canon'[v] = canon[v]
  BY DEF PlansTypes
<1>2. \A d \in Windows : call'[d] =
        IF call[d].at \in {"drawn", "half", "read"} /\ call[d].work = w
        THEN [call[d] EXCEPT !.still = FALSE]
        ELSE IF call[d].at = "listed" /\ call[d].work = w THEN Plans!Idle ELSE call[d]
  BY DEF Plans!Overtaken
<1>3. ASSUME NEW d \in Windows, call[d].at \in {"drawn", "half", "read"}, call[d].work = w
      PROVE  /\ call'[d] \in PlansReading /\ call'[d].at = call[d].at /\ ~call'[d].still
             /\ call'[d].listed = call[d].listed
  <2>1. call[d] \in PlansReading
    BY <1>3, PlansInHand
  <2>2. call'[d] = [call[d] EXCEPT !.still = FALSE]
    BY <1>2, <1>3
  <2> QED BY <2>1, <2>2 DEF PlansReading
<1>4. call' \in [Windows -> PlansCalls]
  <2>1. \A d \in Windows : call'[d] \in PlansCalls
    BY <1>2, <1>3 DEF PlansCalls, PlansTypes
  <2> QED BY <2>1 DEF Plans!Overtaken
<1>5. PlansTypes' /\ PlansMade' /\ Plans!OneChosen'
  BY <1>1, <1>4 DEF PlansTypes, PlansCalls, PlansMade, Plans!OneChosen, Plans!There
<1>6. ASSUME NEW i \in Plans!Ids, Plans!There(i), forecast[i].work # w PROVE (PlansIsNow(i)' <=> PlansIsNow(i))
  <2>1. forecast[i].work \in Works
    BY <1>6 DEF Plans!There, PlansTypes, PlansSaved
  <2> QED BY <2>1, <1>1, <1>6 DEF PlansIsNow
<1>7. ASSUME NEW d \in Windows PROVE PlansGoing(d)'
  <2>1. CASE call[d].at \in {"drawn", "half", "read"} /\ call[d].work = w
    BY <2>1, <1>3 DEF PlansGoing, PlansDrawing
  <2>2. CASE call[d].at = "listed" /\ call[d].work = w
    BY <2>2, <1>2, PlansOver
  <2>3. CASE call[d].at \in {"drawn", "half", "read", "listed"} /\ call[d].work # w
    <3>1. call'[d] = call[d] /\ call[d].work \in Works
      BY <2>3, <1>2, PlansInHand DEF PlansReading, PlansListing
    <3>2. call[d].at \in {"drawn", "half", "read"} => PlansDrawing(d)'
      BY <3>1, <2>3, <1>1, <1>6 DEF PlansGoing, PlansDrawing, Plans!There
    <3>3. call[d].at = "listed" => PlansListen(d)'
      BY <3>1, <2>3, <1>6 DEF PlansGoing, PlansListen, Plans!There
    <3> QED BY <2>3, <3>1, <3>2, <3>3 DEF PlansGoing
  <2>4. CASE call[d].at \notin {"drawn", "half", "read", "listed"}
    BY <2>4, <1>2 DEF PlansGoing, PlansChooses, Plans!There
  <2> QED BY <2>1, <2>2, <2>3, <2>4
<1> QED BY <1>5, <1>7

LEMMA PlansEditsPlainKeeps ==
    ASSUME PlansInv, NEW w \in Works, NEW v \in Values, Plans!EditsPlain(w, v)
    PROVE  PlansInv'
<1> DEFINE new == [canon[w] EXCEPT !.plain = v]
<1>1. new \in PlansCanons /\ canon' = [canon EXCEPT ![w] = new]
  BY DEF PlansInv, PlansTypes, PlansCanons, PlansVals, Plans!EditsPlain
<1> HIDE DEF new
<1> QED BY <1>1, PlansCanonEdited DEF Plans!EditsPlain

LEMMA PlansEditsRowKeeps ==
    ASSUME PlansInv, NEW w \in Works, NEW r \in CanonRows, NEW v \in Values \cup {Plans!NoRow},
           Plans!EditsRow(w, r, v)
    PROVE  PlansInv'
<1> DEFINE new == [canon[w] EXCEPT !.rows[r] = v]
<1>1. new \in PlansCanons /\ canon' = [canon EXCEPT ![w] = new]
  <2>1. canon[w] \in PlansCanons /\ v \in PlansVals
    BY DEF PlansInv, PlansTypes, PlansVals
  <2>2. new \in PlansCanons
    BY <2>1 DEF PlansCanons
  <2> QED BY <2>2 DEF Plans!EditsRow
<1> HIDE DEF new
<1> QED BY <1>1, PlansCanonEdited DEF Plans!EditsRow

LEMMA PlansNextKeeps == ASSUME PlansInv, [Plans!Next]_(Plans!vars) PROVE PlansInv'
<1>1. CASE UNCHANGED Plans!vars
  BY <1>1 DEF Plans!vars, PlansInv, PlansTypes, PlansMade, Plans!OneChosen, PlansGoing, PlansDrawing,
     PlansListen, PlansChooses, PlansIsNow, Plans!There
<1> QED BY <1>1, PlansEditsPlainKeeps, PlansEditsRowKeeps, PlansDeleteKeeps, PlansClearSelectionKeeps,
           PlansSaveForecastKeeps, PlansInputsKeeps,
           PlansInsertKeeps, PlansListForecastsKeeps, PlansListedKeeps, PlansAnsweredKeeps,
           PlansSelectForecastKeeps, PlansSelectKeeps
        DEF Plans!Next

LEMMA PlansInvTold == ASSUME PlansInv PROVE Plans!Told
<1> USE DEF PlansInv
<1>1. Plans!StaleIsTrue
  <2> SUFFICES ASSUME NEW c \in Windows, call[c].at = "listed", NEW i \in Plans!Ids, Plans!There(i),
                      forecast[i].work = call[c].work, forecast[i].true
               PROVE  i \in call[c].stale <=> [plain |-> forecast[i].plain,
                                                                  rows |-> forecast[i].rows] # canon[call[c].work]
    BY DEF Plans!StaleIsTrue
  <2>1. canon[call[c].work] \in PlansCanons
    BY PlansInHand DEF PlansTypes, PlansListing
  <2>2. i \in call[c].stale <=> ~PlansIsNow(i)
    BY DEF PlansGoing, PlansListen
  <2>3. [plain |-> forecast[i].plain, rows |-> forecast[i].rows] = canon[call[c].work] <=> PlansIsNow(i)
    BY <2>1 DEF PlansCanons, PlansIsNow
  <2> QED BY <2>2, <2>3
<1> QED BY <1>1 DEF Plans!Told

(* A forecast reads as out of date just when its canon has changed since, and  *)
(* one branch of a work is chosen at most. (forecast/repo.go, fingerprint.go)  *)
THEOREM PlansSafe == Spec => []ForecastsTold
<1> DEFINE I == part = "plans" => PlansInv
<1>1. Init => I
  BY PlansStarts DEF Init
<1>2. I /\ [Next]_vars => I'
  BY PartStays, PlansNextKeeps
<1>3. I => ForecastsTold
  BY PlansInvTold DEF ForecastsTold
<1> QED BY <1>1, <1>2, <1>3, PTL DEF Spec

-----------------------------------------------------------------------------
(* Skills. A call that has decided to write knows that what it saw is in the   *)
(* log, or was nothing, and that is what stands there unless it has been moved *)
(* since (SkillsGoing).                                                        *)

SkillsDocs == SkillTexts \cup {Absent, Bare, Broken, Unreadable}
SkillsReasons == {"created", "edited", "deleted"}
SkillsCalls == [at : {"look", "compare", "room", "put", "remove", "log"}, kind : Skill!Kinds,
                      name : SkillNames, doc : SkillTexts,
                seen : SkillsDocs, reason : SkillsReasons, moved : BOOLEAN]
SkillsVersions == [name : SkillNames, doc : SkillTexts, reason : SkillsReasons]

SkillsTypes ==
    /\ disk \in [SkillNames -> SkillsDocs]
    /\ log \in Seq(SkillsVersions)
    /\ call \in [Callers -> {Skill!NoCall} \cup SkillsCalls]
    /\ unlogged \subseteq SkillNames

SkillsDecided(c) ==
    /\ call[c].kind = "restore" => call[c].seen \in Skill!Empty \cup Skill!Held(call[c].name)
    /\ call[c].kind = "create" => call[c].seen \in Skill!Empty

SkillsGoing(c) ==
    call[c].at \in {"compare", "room", "put"} =>
        /\ ~call[c].moved => disk[call[c].name] = call[c].seen
        /\ call[c].at = "compare" => call[c].kind = "restore"
        /\ call[c].at \in {"room", "put"} => SkillsDecided(c)

SkillsInv == SkillsTypes /\ Skill!CanBeGoneBackTo /\ \A c \in Callers : SkillsGoing(c)

LEMMA SkillsShapes == Skill!NoCall.at = "idle" /\ \A r \in SkillsCalls : r.at \in {"look", "compare", "room",
                                                                                   "put", "remove", "log"}
  BY DEF Skill!NoCall, SkillsCalls

LEMMA SkillsInHand == ASSUME SkillsTypes, NEW c \in Callers, call[c].at # "idle" PROVE call[c] \in SkillsCalls
  BY SkillsShapes DEF SkillsTypes

LEMMA SkillsStarts == ASSUME Skill!Init PROVE SkillsInv
<1>1. SkillsTypes
  BY DEF Skill!Init, SkillsTypes, SkillsDocs
<1>2. Skill!CanBeGoneBackTo /\ \A c \in Callers : SkillsGoing(c)
  BY SkillsAssumption, SkillsShapes DEF Skill!Init, Skill!CanBeGoneBackTo, SkillsGoing
<1> QED BY <1>1, <1>2 DEF SkillsInv

LEMMA SkillsSteps ==
    ASSUME SkillsTypes, NEW c \in Callers, NEW next \in {Skill!NoCall} \cup SkillsCalls,
           call' = [call EXCEPT ![c] = next]
    PROVE  /\ call' \in [Callers -> {Skill!NoCall} \cup SkillsCalls] /\ call'[c] = next
           /\ \A d \in Callers \ {c} : call'[d] = call[d]
  BY DEF SkillsTypes

LEMMA SkillsOnlyCall ==
    ASSUME SkillsInv, NEW c \in Callers, NEW next \in {Skill!NoCall} \cup SkillsCalls,
           call' = [call EXCEPT ![c] = next],
           UNCHANGED <<disk, log, unlogged>>, SkillsGoing(c)'
    PROVE  SkillsInv'
<1> USE DEF SkillsInv
<1>1. /\ call' \in [Callers -> {Skill!NoCall} \cup SkillsCalls] /\ call'[c] = next
      /\ \A d \in Callers \ {c} : call'[d] = call[d]
  BY SkillsSteps
<1>2. SkillsTypes' /\ Skill!CanBeGoneBackTo'
  BY <1>1 DEF SkillsTypes, Skill!CanBeGoneBackTo, Skill!Held, Skill!Rows
<1>3. \A d \in Callers \ {c} : SkillsGoing(d)'
  BY <1>1 DEF SkillsGoing, SkillsDecided, Skill!Held, Skill!Rows
<1> QED BY <1>2, <1>3

LEMMA SkillsOver == ASSUME NEW c, call'[c] = Skill!NoCall PROVE SkillsGoing(c)'
  BY SkillsShapes DEF SkillsGoing

LEMMA SkillsEndsKeeps ==
    ASSUME SkillsInv, NEW c \in Callers, Skill!Ends(c), UNCHANGED <<disk, log, unlogged>>
    PROVE  SkillsInv'
<1>1. call'[c] = Skill!NoCall
  BY DEF Skill!Ends, SkillsInv, SkillsTypes
<1> QED BY <1>1, SkillsOver, SkillsOnlyCall DEF Skill!Ends

\* A call goes on to at, and keeps what it knows.
LEMMA SkillsGoesKeeps ==
    ASSUME SkillsInv, NEW c \in Callers, call[c].at # "idle", NEW at \in {"compare", "room", "put"},
           Skill!Goes(c, at),
           UNCHANGED <<disk, log, unlogged>>,
           ~call[c].moved => disk[call[c].name] = call[c].seen,
           at = "compare" => call[c].kind = "restore", at \in {"room", "put"} => SkillsDecided(c)
    PROVE  SkillsInv'
<1> DEFINE next == [call[c] EXCEPT !.at = at]
<1>1. call[c] \in SkillsCalls
  BY SkillsInHand DEF SkillsInv
<1>2. /\ next \in SkillsCalls /\ next.at = at /\ next.kind = call[c].kind /\ next.name = call[c].name
      /\ next.seen = call[c].seen /\ next.moved = call[c].moved
  BY <1>1 DEF SkillsCalls
<1>3. call' = [call EXCEPT ![c] = next] /\ call'[c] = next
  BY DEF Skill!Goes, SkillsInv, SkillsTypes
<1> HIDE DEF next
<1>4. SkillsGoing(c)'
  BY <1>2, <1>3 DEF SkillsGoing, SkillsDecided, Skill!Held, Skill!Rows
<1> QED BY <1>2, <1>3, <1>4, SkillsOnlyCall

LEMMA SkillsBeginKeeps ==
    ASSUME SkillsInv, NEW c \in Callers, NEW kind \in Skill!Kinds, NEW n \in SkillNames, NEW doc \in SkillTexts,
           Skill!Begin(c, kind, n, doc)
    PROVE  SkillsInv'
<1> DEFINE next == [at |-> "look", kind |-> kind, name |-> n, doc |-> doc,
                    seen |-> Absent, reason |-> "created", moved |-> FALSE]
<1>1. next \in SkillsCalls /\ next.at = "look"
  BY DEF SkillsCalls, SkillsDocs, SkillsReasons
<1>2. call' = [call EXCEPT ![c] = next] /\ call'[c] = next /\ UNCHANGED <<disk, log, unlogged>>
  BY DEF Skill!Begin, SkillsInv, SkillsTypes
<1> HIDE DEF next
<1>3. SkillsGoing(c)'
  BY <1>1, <1>2 DEF SkillsGoing
<1> QED BY <1>1, <1>2, <1>3, SkillsOnlyCall

LEMMA SkillsOnwardTo ==
    ASSUME NEW kind, NEW doc, NEW found
    PROVE  /\ Skill!Onward(kind, doc, found) \in {"idle", "compare", "room", "remove"}
           /\ Skill!Onward(kind, doc, found) = "room" /\ kind \in {"create", "restore"} => found \in Skill!Empty
           /\ Skill!Onward(kind, doc, found) = "compare" => kind = "restore"
  BY DEF Skill!Onward

LEMMA SkillsLookKeeps == ASSUME SkillsInv, NEW c \in Callers, Skill!Look(c) PROVE SkillsInv'
<1> DEFINE found == disk[call[c].name]
           at == Skill!Onward(call[c].kind, call[c].doc, found)
           reason == IF found \in Skill!Empty THEN "created" ELSE "edited"
           next == [call[c] EXCEPT !.at = at, !.seen = found, !.reason = reason]
<1>1. call[c].at = "look" /\ call[c] \in SkillsCalls /\ UNCHANGED <<disk, log, unlogged>>
      /\ call' = [call EXCEPT ![c] = IF at = "idle" THEN Skill!NoCall ELSE next]
  BY SkillsInHand DEF SkillsInv, Skill!Look
<1>2. found \in SkillsDocs /\ reason \in SkillsReasons
  BY <1>1 DEF SkillsInv, SkillsTypes, SkillsCalls, SkillsReasons
<1>3. /\ at \in {"idle", "compare", "room", "remove"}
      /\ at = "room" /\ call[c].kind \in {"create", "restore"} => found \in Skill!Empty
      /\ at = "compare" => call[c].kind = "restore"
  BY SkillsOnwardTo
<1> HIDE DEF at, reason
<1>4. CASE at = "idle"
  BY <1>1, <1>4, SkillsEndsKeeps DEF Skill!Ends
<1>5. CASE at # "idle"
  <2>1. /\ next \in SkillsCalls /\ next.at = at /\ next.kind = call[c].kind /\ next.name = call[c].name
        /\ next.seen = found
    BY <1>1, <1>2, <1>3, <1>5 DEF SkillsCalls
  <2>2. call' = [call EXCEPT ![c] = next] /\ call'[c] = next
    BY <1>1, <1>5 DEF SkillsInv, SkillsTypes
  <2> HIDE DEF next
  <2>3. SkillsGoing(c)'
    BY <1>1, <1>3, <2>1, <2>2 DEF SkillsGoing, SkillsDecided
  <2> QED BY <1>1, <2>1, <2>2, <2>3, SkillsOnlyCall
<1> QED BY <1>4, <1>5

LEMMA SkillsCompareKeeps == ASSUME SkillsInv, NEW c \in Callers, Skill!Compare(c) PROVE SkillsInv'
<1>1. call[c].at = "compare" /\ call[c] \in SkillsCalls /\ UNCHANGED <<disk, log, unlogged>>
      /\ (~call[c].moved => disk[call[c].name] = call[c].seen) /\ call[c].kind = "restore"
  BY SkillsInHand DEF SkillsInv, Skill!Compare, SkillsGoing
<1>2. CASE Skill!Recorded(call[c].name, call[c].seen) /\ Skill!Goes(c, "room")
  <2>1. call[c].seen \in Skill!Held(call[c].name)
    BY <1>2 DEF Skill!Recorded, Skill!Newest, Skill!Held
  <2> QED BY <1>1, <1>2, <2>1, SkillsGoesKeeps DEF SkillsDecided
<1> QED BY <1>1, <1>2, SkillsEndsKeeps DEF Skill!Compare

LEMMA SkillsRoomKeeps == ASSUME SkillsInv, NEW c \in Callers, Skill!Room(c) PROVE SkillsInv'
<1>1. call[c].at = "room" /\ UNCHANGED <<disk, log, unlogged>> /\ SkillsDecided(c)
      /\ (~call[c].moved => disk[call[c].name] = call[c].seen)
  BY DEF SkillsInv, Skill!Room, SkillsGoing
<1> QED BY <1>1, SkillsEndsKeeps, SkillsGoesKeeps DEF Skill!Room

\* The file of n changes, by a call or by hand.
LEMMA SkillsStandsKeeps ==
    ASSUME SkillsInv, NEW n \in SkillNames, NEW doc \in SkillsDocs, NEW by,
           by.call \in {Skill!NoCall} \cup SkillsCalls,
           Skill!Stands(n, doc, by), by.call.at \notin {"compare", "room", "put"},
           unlogged' \subseteq SkillNames, unlogged \subseteq unlogged', doc \in SkillTexts
                 => n \in unlogged', UNCHANGED log
    PROVE  SkillsInv'
<1> USE DEF SkillsInv
<1>1. disk' \in [SkillNames -> SkillsDocs] /\ \A m \in SkillNames : disk'[m] = IF m = n THEN doc ELSE disk[m]
  BY DEF Skill!Stands, SkillsTypes
<1>2. \A d \in Callers : call'[d] = IF d = by.id THEN by.call
            ELSE IF call[d].at \notin {"idle", "look", "log"} /\ call[d].name = n
            THEN [call[d] EXCEPT !.moved = TRUE] ELSE call[d]
  BY DEF Skill!Stands
<1>3. ASSUME NEW d \in Callers, d # by.id, call[d].at \notin {"idle", "look", "log"}, call[d].name = n
      PROVE  /\ call'[d] \in SkillsCalls /\ call'[d].at = call[d].at /\ call'[d].moved
             /\ call'[d].kind = call[d].kind /\ call'[d].name = call[d].name /\ call'[d].seen = call[d].seen
  <2>1. call[d] \in SkillsCalls
    BY <1>3, SkillsInHand
  <2>2. call'[d] = [call[d] EXCEPT !.moved = TRUE]
    BY <1>2, <1>3
  <2> QED BY <2>1, <2>2 DEF SkillsCalls
<1>4. call' \in [Callers -> {Skill!NoCall} \cup SkillsCalls]
  <2>1. \A d \in Callers : call'[d] \in {Skill!NoCall} \cup SkillsCalls
    BY <1>2, <1>3 DEF SkillsTypes
  <2> QED BY <2>1 DEF Skill!Stands
<1>5. Skill!CanBeGoneBackTo'
  BY <1>1 DEF Skill!CanBeGoneBackTo, Skill!Held, Skill!Rows
<1>6. ASSUME NEW d \in Callers PROVE SkillsGoing(d)'
  <2>1. CASE d = by.id
    BY <2>1, <1>2 DEF SkillsGoing
  <2>2. CASE d # by.id /\ call[d].at \notin {"idle", "look", "log"} /\ call[d].name = n
    BY <2>2, <1>3 DEF SkillsGoing, SkillsDecided, Skill!Held, Skill!Rows
  <2>3. CASE d # by.id /\ call[d].at \notin {"idle", "look", "log"} /\ call[d].name # n
    <3>1. call[d].name \in SkillNames /\ call'[d] = call[d]
      BY <2>3, <1>2, SkillsInHand DEF SkillsCalls
    <3> QED BY <2>3, <3>1, <1>1 DEF SkillsGoing, SkillsDecided, Skill!Held, Skill!Rows
  <2>4. CASE d # by.id /\ call[d].at \in {"idle", "look", "log"}
    BY <2>4, <1>2 DEF SkillsGoing
  <2> QED BY <2>1, <2>2, <2>3, <2>4
<1> QED BY <1>1, <1>4, <1>5, <1>6 DEF SkillsTypes

LEMMA SkillsPutKeeps == ASSUME SkillsInv, NEW c \in Callers, Skill!Put(c) PROVE SkillsInv'
<1> DEFINE n == call[c].name  doc == call[c].doc
           rest == [call[c] EXCEPT !.at = "log"]
           by == [id |-> c, call |-> rest]
<1>1. call[c] \in SkillsCalls /\ Skill!Stands(n, doc, by) /\ unlogged' = unlogged \cup {n} /\ UNCHANGED log
  BY SkillsInHand DEF SkillsInv, Skill!Put
<1>2. n \in SkillNames /\ doc \in SkillsDocs /\ rest \in SkillsCalls /\ rest.at = "log" /\ by.call = rest
  BY <1>1 DEF SkillsCalls, SkillsDocs
<1>3. unlogged' \subseteq SkillNames /\ unlogged \subseteq unlogged' /\ n \in unlogged'
  BY <1>1, <1>2 DEF SkillsInv, SkillsTypes
<1> HIDE DEF n, doc, rest, by
<1> QED BY <1>1, <1>2, <1>3, SkillsStandsKeeps

LEMMA SkillsDeleteKeeps == ASSUME SkillsInv, NEW c \in Callers, Skill!Delete(c) PROVE SkillsInv'
<1> DEFINE n == call[c].name
           last == [call[c] EXCEPT !.at = "log", !.doc = call[c].seen, !.reason = "deleted"]
           rest == IF call[c].seen \in SkillTexts THEN last ELSE Skill!NoCall
           by == [id |-> c, call |-> rest]
<1>1. call[c].at = "remove" /\ call[c] \in SkillsCalls /\ UNCHANGED <<log, unlogged>>
  BY SkillsInHand DEF SkillsInv, Skill!Delete
<1>2. CASE Skill!Ends(c) /\ UNCHANGED disk
  BY <1>1, <1>2, SkillsEndsKeeps
<1>3. CASE Skill!Stands(n, Absent, by)
  <2>1. call[c].seen \in SkillTexts => last \in SkillsCalls /\ last.at = "log"
    BY <1>1 DEF SkillsCalls, SkillsReasons
  <2> HIDE DEF last
  <2>2. n \in SkillNames /\ Absent \in SkillsDocs /\ rest \in {Skill!NoCall} \cup SkillsCalls
        /\ rest.at \in {"idle", "log"} /\ by.call = rest
    BY <1>1, <2>1, SkillsShapes DEF SkillsCalls, SkillsDocs
  <2>3. unlogged' \subseteq SkillNames /\ unlogged \subseteq unlogged' /\ Absent \notin SkillTexts
    BY <1>1, SkillsAssumption DEF SkillsInv, SkillsTypes
  <2> HIDE DEF n, rest, by
  <2> QED BY <1>1, <1>3, <2>2, <2>3, SkillsStandsKeeps
<1> QED BY <1>2, <1>3 DEF Skill!Delete

LEMMA SkillsByHandKeeps ==
    ASSUME SkillsInv, NEW n \in SkillNames, NEW doc \in SkillsDocs, Skill!ByHand(n, doc)
    PROVE  SkillsInv'
<1> DEFINE by == [id |-> Absent, call |-> Skill!NoCall]
<1>1. Skill!Stands(n, doc, by) /\ unlogged' = unlogged \cup {n} /\ UNCHANGED log
  BY DEF Skill!ByHand
<1>2. by.call = Skill!NoCall /\ by.call.at = "idle"
  BY SkillsShapes
<1>3. unlogged' \subseteq SkillNames /\ unlogged \subseteq unlogged' /\ n \in unlogged'
  BY <1>1 DEF SkillsInv, SkillsTypes
<1> HIDE DEF by
<1> QED BY <1>1, <1>2, <1>3, SkillsStandsKeeps

LEMMA SkillsRecordKeeps == ASSUME SkillsInv, NEW c \in Callers, Skill!Record(c) PROVE SkillsInv'
<1> USE DEF SkillsInv
<1>1. call[c].at = "log" /\ call[c] \in SkillsCalls /\ Skill!Ends(c) /\ UNCHANGED disk
  BY SkillsInHand DEF Skill!Record
<1>2. CASE UNCHANGED <<log, unlogged>>
  BY <1>1, <1>2, SkillsEndsKeeps
<1>3. CASE /\ log' = Append(log, Skill!Row(c))
           /\ unlogged' = IF disk[call[c].name] = call[c].doc THEN unlogged \ {call[c].name} ELSE unlogged
  <2>1. Skill!Row(c) \in SkillsVersions /\ Skill!Row(c).name = call[c].name /\ Skill!Row(c).doc = call[c].doc
    BY <1>1 DEF Skill!Row, SkillsVersions, SkillsCalls
  <2>2. /\ log' \in Seq(SkillsVersions) /\ Len(log) \in Nat /\ Len(log') = Len(log) + 1
        /\ DOMAIN log = 1 .. Len(log) /\ DOMAIN log' = 1 .. Len(log')
        /\ log'[Len(log) + 1] = Skill!Row(c) /\ \A k \in 1 .. Len(log) : log'[k] = log[k]
    BY <1>3, <2>1 DEF SkillsTypes
  <2>3. \A m \in SkillNames : Skill!Held(m) \subseteq Skill!Held(m)'
    BY <2>2 DEF Skill!Held, Skill!Rows
  <2>4. ASSUME NEW m, m = call[c].name PROVE call[c].doc \in Skill!Held(m)'
    BY <2>1, <2>2, <2>4 DEF Skill!Held, Skill!Rows
  <2>5. /\ call' \in [Callers -> {Skill!NoCall} \cup SkillsCalls] /\ call'[c] = Skill!NoCall
        /\ \A d \in Callers \ {c} : call'[d] = call[d]
    BY <1>1, SkillsSteps DEF Skill!Ends
  <2>6. SkillsTypes'
    BY <1>1, <1>3, <2>2, <2>5 DEF SkillsTypes
  <2>7. Skill!CanBeGoneBackTo'
    BY <1>1, <1>3, <2>3, <2>4 DEF Skill!CanBeGoneBackTo
  <2>8. ASSUME NEW d \in Callers \ {c} PROVE SkillsGoing(d)'
    <3>1. call[d].at \in {"compare", "room", "put"} => call[d].name \in SkillNames
      BY SkillsInHand DEF SkillsCalls
    <3> QED BY <3>1, <1>1, <2>3, <2>5 DEF SkillsGoing, SkillsDecided
  <2> QED BY <2>5, <2>6, <2>7, <2>8, SkillsOver
<1> QED BY <1>2, <1>3 DEF Skill!Record

LEMMA SkillsStopKeeps == ASSUME SkillsInv, Skill!Stop PROVE SkillsInv'
<1> USE DEF SkillsInv
<1>1. PICK dirs \in SUBSET SkillNames : disk' = [n \in SkillNames |-> IF n \in dirs THEN Bare ELSE disk[n]]
  BY DEF Skill!Stop
<1>2. call' = [c \in Callers |-> Skill!NoCall] /\ UNCHANGED <<log, unlogged>>
  BY DEF Skill!Stop
<1>3. SkillsTypes'
  BY <1>1, <1>2 DEF SkillsTypes, SkillsDocs
<1>4. Skill!CanBeGoneBackTo'
  BY <1>1, <1>2, SkillsAssumption DEF Skill!CanBeGoneBackTo, Skill!Held, Skill!Rows
<1> QED BY <1>2, <1>3, <1>4, SkillsOver

LEMMA SkillsNextKeeps == ASSUME SkillsInv, [Skill!Next]_(Skill!vars) PROVE SkillsInv'
<1>1. CASE UNCHANGED Skill!vars
  BY <1>1 DEF Skill!vars, SkillsInv, SkillsTypes, Skill!CanBeGoneBackTo, SkillsGoing, SkillsDecided, Skill!Held,
     Skill!Rows
<1> QED BY <1>1, SkillsBeginKeeps, SkillsLookKeeps, SkillsCompareKeeps, SkillsRoomKeeps, SkillsPutKeeps,
           SkillsDeleteKeeps, SkillsRecordKeeps, SkillsByHandKeeps, SkillsStopKeeps
        DEF Skill!Next, Skill!Step, SkillsDocs

LEMMA SkillsInvTypeOK == ASSUME SkillsInv PROVE Skill!TypeOK
<1> USE DEF SkillsInv
<1>1. \A k \in DOMAIN log : log[k] \in SkillsVersions
  BY DEF SkillsTypes
<1> QED BY <1>1, SkillsShapes DEF SkillsTypes, Skill!TypeOK, SkillsVersions, SkillsDocs, SkillsReasons

LEMMA SkillsInvBuries == ASSUME SkillsInv PROVE Skill!BuriesNothing
  BY DEF SkillsInv, Skill!BuriesNothing, SkillsGoing, SkillsDecided

(* What the app or an agent wrote can be gone back to, and a restore or a      *)
(* create takes nothing away that it saw. (agentskills/history.go, store.go,   *)
(* rpc/handlers/skills.go, mcphost/tools_write.go)                             *)
THEOREM SkillsSafe == Spec => SkillsKept
<1> DEFINE I == part = "skills" => SkillsInv
<1>1. Init => I
  BY SkillsStarts DEF Init
<1>2. I /\ [Next]_vars => I'
  BY PartStays, SkillsNextKeeps
<1>3. I => (part = "skills" => Skill!TypeOK /\ Skill!CanBeGoneBackTo)
  BY SkillsInvTypeOK DEF SkillsInv
<1>4. I /\ [Next]_vars => [part = "skills" => Skill!BuriesNothing]_vars
  BY SkillsInvBuries
<1> QED BY <1>1, <1>2, <1>3, <1>4, PTL DEF Spec, SkillsKept

-----------------------------------------------------------------------------
(* Settlement. A pass that looked up the version of now has read the text of   *)
(* now (SettlementKnows), so a row that says that version is done is of a text *)
(* a pass has read (SettlementLetOff).                                         *)

SettlementOutcomes == {"none", "done", "failed"}
SettlementTexted == [version : Nat, text : Nat, since : BOOLEAN]
Settlements == [version : Nat, outcome : SettlementOutcomes]
SettlementPartial == UNION {[d -> Nat] : d \in SUBSET SettledScenes}
SettlementRunning == [at : {"reading", "ended"}, scenes : SUBSET SettledScenes, versions : SettlementPartial,
                            read : SettlementPartial,
                      pulled : SUBSET SettledScenes, outcome : SettlementOutcomes]

SettlementTypes ==
    /\ scene \in [SettledScenes -> SettlementTexted]
    /\ row \in [SettledScenes -> Settlements]
    /\ on \in BOOLEAN
    /\ pass \in [Passes -> {Settled!NoPass} \cup SettlementRunning]
    /\ done \in [writes : Nat, passes : Nat]
    /\ caughtUp \in [SettledScenes -> SUBSET Nat]

\* What pass p knows of s.
SettlementKnows(p, s) ==
    /\ s \in DOMAIN pass[p].versions /\ s \in DOMAIN pass[p].read
    /\ pass[p].versions[s] <= scene[s].version
    /\ s \notin pass[p].pulled /\ pass[p].versions[s] = scene[s].version =>
        pass[p].read[s] \in {Settled!Never, scene[s].text}
    /\ pass[p].at = "ended" /\ pass[p].outcome = "done" => pass[p].read[s] # Settled!Never
        /\ pass[p].read[s] \in caughtUp[s]

SettlementGoing(p) == pass[p].at # "idle" => \A s \in pass[p].scenes : SettlementKnows(p, s)

SettlementLetOff(s) ==
    row[s].outcome = "done" =>
        /\ row[s].version <= scene[s].version
        /\ row[s].version = scene[s].version => scene[s].text \in caughtUp[s]

SettlementInv ==
    /\ SettlementTypes
    /\ \A s \in SettledScenes : scene[s].text <= done.writes + 1
    /\ \A s \in SettledScenes : SettlementLetOff(s)
    /\ \A p \in Passes : SettlementGoing(p)

LEMMA SettlementShapes == Settled!NoPass.at = "idle"
      /\ \A r \in SettlementRunning : r.at \in {"reading", "ended"}
  BY DEF Settled!NoPass, SettlementRunning

LEMMA SettlementInHand ==
    ASSUME SettlementTypes, NEW p \in Passes, pass[p].at # "idle"
    PROVE  pass[p] \in SettlementRunning
  BY SettlementShapes DEF SettlementTypes

LEMMA SettlementStarts == ASSUME Settled!Init PROVE SettlementInv
<1>1. SettlementTypes
  BY DEF Settled!Init, SettlementTypes, SettlementTexted, Settlements, SettlementOutcomes, Settled!NoRow,
     Settled!Never
<1>2. /\ \A s \in SettledScenes : scene[s].text <= done.writes + 1
      /\ \A s \in SettledScenes : SettlementLetOff(s)
      /\ \A p \in Passes : SettlementGoing(p)
  BY SettlementShapes DEF Settled!Init, SettlementLetOff, SettlementGoing, Settled!NoRow
<1> QED BY <1>1, <1>2 DEF SettlementInv

LEMMA SettlementCounted ==
    ASSUME SettlementTypes, Settled!Wrote
    PROVE  done' \in [writes : Nat, passes : Nat] /\ done'.writes = done.writes + 1
  BY DEF SettlementTypes, Settled!Wrote

LEMMA SettlementSwitchKeeps == ASSUME SettlementInv, Settled!Switch PROVE SettlementInv'
<1> USE DEF SettlementInv
<1>1. UNCHANGED <<row, pass, caughtUp>> /\ on' \in BOOLEAN
      /\ done' \in [writes : Nat, passes : Nat] /\ done'.writes = done.writes + 1
  BY SettlementCounted DEF Settled!Switch
<1>2. scene' \in [SettledScenes -> SettlementTexted]
      /\ \A s \in SettledScenes : scene'[s].version = scene[s].version /\ scene'[s].text = scene[s].text
  BY DEF Settled!Switch, SettlementTypes, SettlementTexted
<1>3. SettlementTypes'
  BY <1>1, <1>2 DEF SettlementTypes
<1>4. \A s \in SettledScenes : scene'[s].text <= done'.writes + 1
  BY <1>1, <1>2 DEF SettlementTypes, SettlementTexted
<1>5. \A s \in SettledScenes : SettlementLetOff(s)'
  BY <1>1, <1>2 DEF SettlementLetOff
<1>6. ASSUME NEW p \in Passes PROVE SettlementGoing(p)'
  <2>1. pass[p].at # "idle" => pass[p].scenes \subseteq SettledScenes
    BY SettlementInHand DEF SettlementRunning
  <2> QED BY <2>1, <1>1, <1>2 DEF SettlementGoing, SettlementKnows
<1> QED BY <1>3, <1>4, <1>5, <1>6

LEMMA SettlementWriteKeeps ==
    ASSUME SettlementInv, NEW s \in SettledScenes, Settled!Write(s)
    PROVE  SettlementInv'
<1> USE DEF SettlementInv
<1> DEFINE new == [version |-> scene[s].version + 1, text |-> Settled!NewText, since |-> on]
<1>1. UNCHANGED <<row, on, pass, caughtUp>>
      /\ done' \in [writes : Nat, passes : Nat] /\ done'.writes = done.writes + 1
  BY SettlementCounted DEF Settled!Write
<1>2. new \in SettlementTexted /\ new.version = scene[s].version + 1 /\ new.text = done.writes + 2
  BY DEF SettlementTypes, SettlementTexted, Settled!NewText
<1>3. scene' = [scene EXCEPT ![s] = new]
  BY DEF Settled!Write
<1> HIDE DEF new
<1>4. scene' \in [SettledScenes -> SettlementTexted] /\ scene'[s] = new /\ \A t \in SettledScenes : t # s
      => scene'[t] = scene[t]
  BY <1>2, <1>3 DEF SettlementTypes
<1>5. SettlementTypes'
  BY <1>1, <1>4 DEF SettlementTypes
<1>6. \A t \in SettledScenes : scene'[t].text <= done'.writes + 1
  BY <1>1, <1>2, <1>4 DEF SettlementTypes, SettlementTexted
<1>7. \A t \in SettledScenes : scene[t].version \in Nat /\ row[t].version \in Nat
  BY DEF SettlementTypes, SettlementTexted, Settlements
<1>8. \A t \in SettledScenes : SettlementLetOff(t)'
  BY <1>1, <1>2, <1>4, <1>7 DEF SettlementLetOff
<1>9. ASSUME NEW p \in Passes, pass[p].at # "idle", NEW t \in pass[p].scenes PROVE SettlementKnows(p, t)'
  <2>1. t \in SettledScenes /\ SettlementKnows(p, t)
    BY <1>9, SettlementInHand DEF SettlementRunning, SettlementGoing
  <2>2. pass[p].versions[t] \in Nat
    BY <1>9, <2>1, SettlementInHand DEF SettlementRunning, SettlementPartial, SettlementKnows
  <2> QED BY <2>1, <2>2, <1>1, <1>2, <1>4, <1>7 DEF SettlementKnows
<1> QED BY <1>1, <1>5, <1>6, <1>8, <1>9 DEF SettlementGoing

LEMMA SettlementPullKeeps ==
    ASSUME SettlementInv, NEW s \in SettledScenes, NEW v \in {scene[s].version, scene[s].version + 1},
           NEW settled \in BOOLEAN,
           Settled!Pull(s, v, settled)
    PROVE  SettlementInv'
<1> USE DEF SettlementInv
<1> DEFINE new == [version |-> v, text |-> Settled!NewText, since |-> TRUE]
           entry == IF settled THEN [version |-> v, outcome |-> "done"] ELSE Settled!NoRow
<1>0. \A t \in SettledScenes : scene[t].version \in Nat /\ row[t].version \in Nat
  BY DEF SettlementTypes, SettlementTexted, Settlements
<1>1. UNCHANGED on /\ done' \in [writes : Nat, passes : Nat] /\ done'.writes = done.writes + 1
  BY SettlementCounted DEF Settled!Pull
<1>2. new \in SettlementTexted /\ new.version = v /\ new.text = done.writes + 2 /\ v \in Nat
      /\ scene[s].version <= v
  BY <1>0 DEF SettlementTypes, SettlementTexted, Settled!NewText
<1>3. entry \in Settlements /\ (entry.outcome = "done" => entry.version = v /\ settled)
  BY <1>2 DEF Settled!NoRow, Settlements, SettlementOutcomes, Settled!Never
<1>4. scene' = [scene EXCEPT ![s] = new] /\ row' = [row EXCEPT ![s] = entry]
  BY DEF Settled!Pull
<1>5. caughtUp' = IF settled THEN [caughtUp EXCEPT ![s] = @ \cup {new.text}] ELSE caughtUp
  BY DEF Settled!Pull
<1> HIDE DEF new, entry
<1>6. scene' \in [SettledScenes -> SettlementTexted] /\ scene'[s] = new /\ \A t \in SettledScenes : t # s
      => scene'[t] = scene[t]
  BY <1>2, <1>4 DEF SettlementTypes
<1>7. row' \in [SettledScenes -> Settlements] /\ row'[s] = entry /\ \A t \in SettledScenes : t # s
      => row'[t] = row[t]
  BY <1>3, <1>4 DEF SettlementTypes
<1>8. new.text \in Nat
  BY <1>2 DEF SettlementTexted
<1>9. caughtUp' \in [SettledScenes -> SUBSET Nat] /\ (settled => new.text \in caughtUp'[s])
      /\ \A t \in SettledScenes : caughtUp[t] \subseteq caughtUp'[t]
  BY <1>5, <1>8 DEF SettlementTypes
<1>10. \A p \in Passes : pass'[p] = IF pass[p].at # "idle" /\ s \in pass[p].scenes
                                    THEN [pass[p] EXCEPT !.pulled = @ \cup {s}] ELSE pass[p]
  BY DEF Settled!Pull
<1>11. ASSUME NEW p \in Passes, pass[p].at # "idle"
       PROVE  /\ pass'[p] \in SettlementRunning /\ pass'[p].at = pass[p].at /\ pass'[p].scenes = pass[p].scenes
              /\ pass'[p].versions = pass[p].versions /\ pass'[p].read = pass[p].read
              /\ pass'[p].outcome = pass[p].outcome
              /\ pass[p].pulled \subseteq pass'[p].pulled /\ (s \in pass[p].scenes => s \in pass'[p].pulled)
  <2>1. pass[p] \in SettlementRunning
    BY <1>11, SettlementInHand
  <2>2. CASE s \in pass[p].scenes
    <3>1. pass'[p] = [pass[p] EXCEPT !.pulled = @ \cup {s}]
      BY <1>10, <1>11, <2>2
    <3> QED BY <2>1, <3>1 DEF SettlementRunning
  <2>3. CASE s \notin pass[p].scenes
    BY <1>10, <2>1, <2>3
  <2> QED BY <2>2, <2>3
<1>12. pass' \in [Passes -> {Settled!NoPass} \cup SettlementRunning]
  <2>1. \A p \in Passes : pass'[p] \in {Settled!NoPass} \cup SettlementRunning
    BY <1>10, <1>11 DEF SettlementTypes
  <2> QED BY <2>1 DEF Settled!Pull
<1>13. SettlementTypes'
  BY <1>1, <1>6, <1>7, <1>9, <1>12 DEF SettlementTypes
<1>14. \A t \in SettledScenes : scene'[t].text <= done'.writes + 1
  BY <1>1, <1>2, <1>6 DEF SettlementTypes, SettlementTexted
<1>15. \A t \in SettledScenes : SettlementLetOff(t)'
  BY <1>0, <1>2, <1>3, <1>6, <1>7, <1>9 DEF SettlementLetOff
<1>16. ASSUME NEW p \in Passes, pass'[p].at # "idle", NEW t \in pass'[p].scenes PROVE SettlementKnows(p, t)'
  <2>1. pass[p].at # "idle"
    BY <1>10, <1>16
  <2>2. t \in SettledScenes /\ SettlementKnows(p, t) /\ t \in pass[p].scenes
    BY <1>11, <1>16, <2>1, SettlementInHand DEF SettlementRunning, SettlementGoing
  <2>3. pass[p].versions[t] \in Nat
    BY <2>1, <2>2, SettlementInHand DEF SettlementRunning, SettlementPartial, SettlementKnows
  <2>4. CASE t = s
    BY <2>1, <2>2, <2>3, <2>4, <1>0, <1>2, <1>6, <1>9, <1>11 DEF SettlementKnows
  <2>5. CASE t # s
    BY <2>1, <2>2, <2>5, <1>6, <1>9, <1>11 DEF SettlementKnows
  <2> QED BY <2>4, <2>5
<1> QED BY <1>13, <1>14, <1>15, <1>16 DEF SettlementGoing

\* Pass p alone goes on to next, or ends; nothing is unlearnt.
LEMMA SettlementOnlyPass ==
    ASSUME SettlementInv, NEW p \in Passes, NEW next \in {Settled!NoPass} \cup SettlementRunning,
           pass' = [pass EXCEPT ![p] = next],
           UNCHANGED <<scene, on>>, row' \in [SettledScenes -> Settlements],
                                              \A s \in SettledScenes : SettlementLetOff(s)',
           done' \in [writes : Nat, passes : Nat], done'.writes = done.writes,
           caughtUp' \in [SettledScenes -> SUBSET Nat],
                          \A s \in SettledScenes : caughtUp[s] \subseteq caughtUp'[s], SettlementGoing(p)'
    PROVE  SettlementInv'
<1> USE DEF SettlementInv
<1>1. pass' \in [Passes -> {Settled!NoPass} \cup SettlementRunning] /\ \A q \in Passes : q # p
      => pass'[q] = pass[q]
  BY DEF SettlementTypes
<1>2. SettlementTypes'
  BY <1>1 DEF SettlementTypes
<1>3. ASSUME NEW q \in Passes, q # p PROVE SettlementGoing(q)'
  <2>1. pass[q].at # "idle" => pass[q].scenes \subseteq SettledScenes
    BY SettlementInHand DEF SettlementRunning
  <2> QED BY <2>1, <1>1, <1>3 DEF SettlementGoing, SettlementKnows
<1> QED BY <1>2, <1>3

LEMMA SettlementUnlearnt ==
    ASSUME SettlementInv, UNCHANGED caughtUp
    PROVE  caughtUp' \in [SettledScenes -> SUBSET Nat]
          /\ \A s \in SettledScenes : caughtUp[s] \subseteq caughtUp'[s]
  BY DEF SettlementInv, SettlementTypes

LEMMA SettlementSettledStay ==
    ASSUME SettlementInv, UNCHANGED <<scene, row>>, \A s \in SettledScenes : caughtUp[s] \subseteq caughtUp'[s]
    PROVE  row' \in [SettledScenes -> Settlements] /\ \A s \in SettledScenes : SettlementLetOff(s)'
  BY DEF SettlementInv, SettlementTypes, SettlementLetOff

LEMMA SettlementBeginKeeps ==
    ASSUME SettlementInv, NEW p \in Passes, NEW given \in SUBSET SettledScenes, Settled!Begin(p, given)
    PROVE  SettlementInv'
<1> USE DEF SettlementInv
<1> DEFINE versions == [s \in given |-> scene[s].version]
           read == [s \in given |-> Settled!Never]
           next == [at |-> "reading", scenes |-> given, versions |-> versions, read |-> read, pulled |-> {},
                    outcome |-> "none"]
<1>1. /\ UNCHANGED <<scene, row, on, caughtUp>> /\ pass' = [pass EXCEPT ![p] = next]
      /\ done' \in [writes : Nat, passes : Nat] /\ done'.writes = done.writes
  BY DEF Settled!Begin, SettlementTypes
<1>2. versions \in [given -> Nat] /\ read \in [given -> Nat]
  BY DEF SettlementTypes, SettlementTexted, Settled!Never
<1>3. versions \in SettlementPartial /\ read \in SettlementPartial
  BY <1>2 DEF SettlementPartial
<1>4. \A s \in given : s \in DOMAIN versions /\ s \in DOMAIN read /\ versions[s] = scene[s].version
      /\ read[s] = Settled!Never
  OBVIOUS
<1> HIDE DEF versions, read
<1>5. /\ next \in SettlementRunning /\ next.at = "reading" /\ next.scenes = given /\ next.versions = versions
      /\ next.read = read
  BY <1>3 DEF SettlementRunning, SettlementOutcomes
<1> HIDE DEF next
<1>6. pass'[p] = next
  BY <1>1 DEF SettlementTypes
<1>7. \A s \in given : scene[s].version \in Nat
  BY DEF SettlementTypes, SettlementTexted
<1>8. SettlementGoing(p)'
  BY <1>1, <1>4, <1>5, <1>6, <1>7 DEF SettlementGoing, SettlementKnows
<1> QED BY <1>1, <1>5, <1>8, SettlementUnlearnt, SettlementSettledStay, SettlementOnlyPass

LEMMA SettlementReadKeeps ==
    ASSUME SettlementInv, NEW p \in Passes, NEW s \in SettledScenes, Settled!Read(p, s)
    PROVE  SettlementInv'
<1> USE DEF SettlementInv
<1> DEFINE read == [pass[p].read EXCEPT ![s] = scene[s].text]
           next == [pass[p] EXCEPT !.read = read]
<1>1. /\ pass[p].at = "reading" /\ s \in pass[p].scenes /\ pass[p] \in SettlementRunning
      /\ UNCHANGED <<scene, row, on, done, caughtUp>>
  BY SettlementInHand DEF Settled!Read
<1>2. pass' = [pass EXCEPT ![p] = next]
  BY <1>1 DEF Settled!Read, SettlementTypes
<1>3. PICK d \in SUBSET SettledScenes : pass[p].read \in [d -> Nat]
  BY <1>1 DEF SettlementRunning, SettlementPartial
<1>4. scene[s].text \in Nat
  BY DEF SettlementTypes, SettlementTexted
<1>5. read \in [d -> Nat] /\ (s \in d => read[s] = scene[s].text) /\ \A t \in d : t # s
      => read[t] = pass[p].read[t]
  BY <1>3, <1>4
<1> HIDE DEF read
<1>6. /\ next \in SettlementRunning /\ next.at = "reading" /\ next.scenes = pass[p].scenes /\ next.read = read
      /\ next.versions = pass[p].versions /\ next.pulled = pass[p].pulled
  BY <1>1, <1>5 DEF SettlementRunning, SettlementPartial
<1> HIDE DEF next
<1>7. pass'[p] = next
  BY <1>2 DEF SettlementTypes
<1>8. ASSUME NEW t \in pass[p].scenes PROVE SettlementKnows(p, t)'
  <2>1. SettlementKnows(p, t) /\ DOMAIN pass[p].read = d /\ DOMAIN read = d
    BY <1>1, <1>3, <1>5 DEF SettlementGoing
  <2> QED BY <2>1, <1>1, <1>5, <1>6, <1>7 DEF SettlementKnows
<1>9. SettlementGoing(p)'
  BY <1>6, <1>7, <1>8 DEF SettlementGoing
<1>10. done' \in [writes : Nat, passes : Nat] /\ done'.writes = done.writes
  BY <1>1 DEF SettlementTypes
<1> QED BY <1>1, <1>2, <1>6, <1>9, <1>10, SettlementUnlearnt, SettlementSettledStay, SettlementOnlyPass

LEMMA SettlementEndKeeps ==
    ASSUME SettlementInv, NEW p \in Passes, NEW outcome \in {"done", "failed"}, Settled!End(p, outcome)
    PROVE  SettlementInv'
<1> USE DEF SettlementInv
<1> DEFINE next == [pass[p] EXCEPT !.at = "ended", !.outcome = outcome]
<1>1. /\ pass[p].at = "reading" /\ pass[p] \in SettlementRunning /\ UNCHANGED <<scene, row, on, done>>
      /\ (outcome = "done" => \A s \in pass[p].scenes : pass[p].read[s] # Settled!Never)
  BY SettlementInHand DEF Settled!End
<1>2. pass' = [pass EXCEPT ![p] = next]
  BY <1>1 DEF Settled!End, SettlementTypes
<1>3. caughtUp' = IF outcome # "done" THEN caughtUp
                  ELSE [s \in SettledScenes |-> IF s \in pass[p].scenes
                                                THEN caughtUp[s] \cup {pass[p].read[s]} ELSE caughtUp[s]]
  BY DEF Settled!End
<1>4. \A s \in pass[p].scenes : s \in SettledScenes /\ SettlementKnows(p, s) /\ pass[p].read[s] \in Nat
  <2>1. \A s \in pass[p].scenes : s \in SettledScenes /\ SettlementKnows(p, s)
    BY <1>1 DEF SettlementGoing, SettlementRunning
  <2> QED BY <1>1, <2>1 DEF SettlementKnows, SettlementRunning, SettlementPartial
<1>5. /\ caughtUp' \in [SettledScenes -> SUBSET Nat]
          /\ \A s \in SettledScenes : caughtUp[s] \subseteq caughtUp'[s]
      /\ outcome = "done" => \A s \in pass[p].scenes : pass[p].read[s] \in caughtUp'[s]
  BY <1>3, <1>4 DEF SettlementTypes
<1>6. /\ next \in SettlementRunning /\ next.at = "ended" /\ next.outcome = outcome
          /\ next.scenes = pass[p].scenes
      /\ next.read = pass[p].read /\ next.versions = pass[p].versions /\ next.pulled = pass[p].pulled
  BY <1>1 DEF SettlementRunning, SettlementOutcomes
<1> HIDE DEF next
<1>7. pass'[p] = next
  BY <1>2 DEF SettlementTypes
<1>8. SettlementGoing(p)'
  BY <1>1, <1>4, <1>5, <1>6, <1>7 DEF SettlementGoing, SettlementKnows
<1>9. done' \in [writes : Nat, passes : Nat] /\ done'.writes = done.writes
  BY <1>1 DEF SettlementTypes
<1> QED BY <1>1, <1>2, <1>5, <1>6, <1>8, <1>9, SettlementSettledStay, SettlementOnlyPass

LEMMA SettlementRecordKeeps ==
    ASSUME SettlementInv, NEW p \in Passes, NEW s \in SettledScenes, Settled!Record(p, s)
    PROVE  SettlementInv'
<1> USE DEF SettlementInv
<1> DEFINE new == [version |-> Settled!Version(p, s), outcome |-> pass[p].outcome]
           rest == [pass[p] EXCEPT !.scenes = @ \ {s}]
           next == IF pass[p].scenes = {s} THEN Settled!NoPass ELSE rest
<1>1. /\ pass[p].at = "ended" /\ s \in pass[p].scenes /\ pass[p] \in SettlementRunning
          /\ UNCHANGED <<scene, on, done>>
      /\ SettlementKnows(p, s)
  BY SettlementInHand DEF Settled!Record, SettlementGoing
<1>2. pass' = [pass EXCEPT ![p] = next]
  BY <1>1 DEF Settled!Record, SettlementTypes
<1>3. row' = IF Settled!Replaces(row[s], new) THEN [row EXCEPT ![s] = new] ELSE row
  BY DEF Settled!Record
<1>4. caughtUp' = IF s \in pass[p].pulled THEN [caughtUp EXCEPT ![s] = @ \cup {scene[s].text}] ELSE caughtUp
  BY DEF Settled!Record
<1>5. pass[p].versions[s] \in Nat /\ pass[p].outcome \in SettlementOutcomes /\ scene[s].text \in Nat
  BY <1>1 DEF SettlementKnows, SettlementRunning, SettlementPartial, SettlementTypes, SettlementTexted
<1>6. /\ caughtUp' \in [SettledScenes -> SUBSET Nat]
          /\ \A t \in SettledScenes : caughtUp[t] \subseteq caughtUp'[t]
      /\ s \in pass[p].pulled => scene[s].text \in caughtUp'[s]
  BY <1>4, <1>5 DEF SettlementTypes
<1>7. new \in Settlements /\ new.version = pass[p].versions[s] /\ new.outcome = pass[p].outcome
  BY <1>5 DEF Settlements, Settled!Version
<1> HIDE DEF new
<1>8. row' \in [SettledScenes -> Settlements] /\ row'[s] \in {row[s], new} /\ \A t \in SettledScenes : t # s
      => row'[t] = row[t]
  BY <1>3, <1>7 DEF SettlementTypes
<1>9. new.outcome = "done" => /\ new.version <= scene[s].version
                              /\ new.version = scene[s].version => scene[s].text \in caughtUp'[s]
  BY <1>1, <1>6, <1>7 DEF SettlementKnows
<1>10. \A t \in SettledScenes : SettlementLetOff(t)'
  BY <1>1, <1>6, <1>8, <1>9 DEF SettlementLetOff
<1>11. /\ rest \in SettlementRunning /\ rest.at = "ended" /\ rest.outcome = pass[p].outcome
           /\ rest.scenes = pass[p].scenes \ {s}
       /\ rest.read = pass[p].read /\ rest.versions = pass[p].versions /\ rest.pulled = pass[p].pulled
  BY <1>1 DEF SettlementRunning
<1> HIDE DEF rest
<1>12. next \in {Settled!NoPass} \cup SettlementRunning
  BY <1>11
<1>13. pass'[p] = next
  BY <1>2 DEF SettlementTypes
<1>14. \A t \in pass[p].scenes : t \in SettledScenes /\ SettlementKnows(p, t)
  BY <1>1 DEF SettlementGoing, SettlementRunning
<1>15. SettlementGoing(p)'
  BY <1>1, <1>6, <1>11, <1>13, <1>14, SettlementShapes DEF SettlementGoing, SettlementKnows
<1>16. done' \in [writes : Nat, passes : Nat] /\ done'.writes = done.writes
  BY <1>1 DEF SettlementTypes
<1> HIDE DEF next
<1> QED BY <1>1, <1>2, <1>6, <1>8, <1>10, <1>12, <1>15, <1>16, SettlementOnlyPass

LEMMA SettlementNextKeeps == ASSUME SettlementInv, [Settled!Next]_(Settled!vars) PROVE SettlementInv'
<1>1. CASE UNCHANGED Settled!vars
  BY <1>1 DEF Settled!vars, SettlementInv, SettlementTypes, SettlementLetOff, SettlementGoing, SettlementKnows
<1> QED BY <1>1, SettlementSwitchKeeps, SettlementWriteKeeps, SettlementPullKeeps, SettlementBeginKeeps,
           SettlementReadKeeps, SettlementEndKeeps, SettlementRecordKeeps DEF Settled!Next

LEMMA SettlementInvRead == ASSUME SettlementInv PROVE Settled!LetOffMeansRead
  BY DEF SettlementInv, Settled!LetOffMeansRead, Settled!Pending, SettlementLetOff, SettlementTypes, Settlements

LEMMA SettlementWaitsStep == ASSUME SettlementInv, [Settled!Next]_(Settled!vars) PROVE Settled!WaitsForAReason
<1> USE DEF SettlementInv
<1> SUFFICES ASSUME NEW s \in SettledScenes, on, on', scene'[s] = scene[s], s \notin Settled!Pending,
                    s \in Settled!Pending'
             PROVE  \E p \in Passes : /\ pass[p].at = "ended" /\ s \in pass[p].scenes
                                      /\ pass[p].versions[s] # scene[s].version
  BY DEF Settled!WaitsForAReason
<1>1. row[s] = [version |-> scene[s].version, outcome |-> "done"] /\ row'[s] # row[s]
  BY DEF Settled!Pending
<1>2. ASSUME NEW p \in Passes, NEW t \in SettledScenes, Settled!Record(p, t)
      PROVE  pass[p].at = "ended" /\ s \in pass[p].scenes /\ pass[p].versions[s] # scene[s].version
  <2> DEFINE new == [version |-> Settled!Version(p, t), outcome |-> pass[p].outcome]
  <2>1. row' = IF Settled!Replaces(row[t], new) THEN [row EXCEPT ![t] = new] ELSE row
    BY <1>2 DEF Settled!Record
  <2>2. new.version = pass[p].versions[t] /\ new.outcome = pass[p].outcome
    BY DEF Settled!Version
  <2>3. row[s].version = scene[s].version /\ row[s].outcome = "done"
    BY <1>1
  <2>4. new.version = scene[s].version /\ new.outcome = "done" => new = row[s]
    BY <1>1
  <2> HIDE DEF new
  <2>5. t = s /\ Settled!Replaces(row[s], new) /\ new # row[s]
    BY <1>1, <2>1 DEF SettlementTypes
  <2> QED BY <1>2, <2>2, <2>3, <2>4, <2>5 DEF Settled!Record, Settled!Replaces
<1>3. ASSUME NEW t \in SettledScenes, NEW v, NEW settled \in BOOLEAN, Settled!Pull(t, v, settled) PROVE FALSE
  <2>1. t = s
    BY <1>1, <1>3 DEF Settled!Pull, SettlementTypes
  <2>2. scene'[s].text = done.writes + 2
    BY <1>3, <2>1 DEF Settled!Pull, SettlementTypes, Settled!NewText
  <2> QED BY <2>2 DEF SettlementTypes, SettlementTexted
<1>4. row' # row
  BY <1>1
<1>5. (\E p \in Passes, t \in SettledScenes : Settled!Record(p, t))
      \/ (\E t \in SettledScenes : \E v \in {scene[t].version, scene[t].version + 1}, settled \in BOOLEAN :
            Settled!Pull(t, v, settled))
  BY <1>4 DEF Settled!Next, Settled!vars, Settled!Switch, Settled!Write, Settled!Begin, Settled!Read,
     Settled!End
<1> QED BY <1>2, <1>3, <1>5

(* A scene is only let off when a pass that ended well has read the words it   *)
(* has, and waits again only for a reason. (ledger/settlement.go,              *)
(* agent/settlement.go)                                                        *)
THEOREM SettlementSafe == Spec => SettledWasRead
<1> DEFINE I == part = "settled" => SettlementInv
<1>1. Init => I
  BY SettlementStarts DEF Init
<1>2. I /\ [Next]_vars => I'
  BY PartStays, SettlementNextKeeps
<1>3. I => (part = "settled" => Settled!LetOffMeansRead)
  BY SettlementInvRead
<1>4. I /\ [Next]_vars => [part = "settled" => Settled!WaitsForAReason]_vars
  BY PartStays, SettlementWaitsStep
<1> QED BY <1>1, <1>2, <1>3, <1>4, PTL DEF Spec, SettledWasRead

-----------------------------------------------------------------------------
(* SyncRunner. A work flagged since the loop last set out is on its mind: the  *)
(* call that flagged it has RunNow before it, woken is still set, or the loop  *)
(* is on its way to a run. A sleep that woken finds has been cut short, and    *)
(* nobody sleeps once the last run has begun.                                  *)
RunnerWakes ==
  /\ phase \in {"up", "stopping"} => unseen \subseteq calling \/ woken \/ pc = "tick"
  /\ pc = "asleep" /\ woken => canceled
  /\ phase \in {"flushing", "down"} => pc # "asleep"

(* Every variable keeps to its type, through every handler and every step of   *)
(* the loop.  (runner.go Runner)                                               *)
THEOREM RunnerTyped == Runner!Spec => []Runner!TypeOK
<1>1. Runner!Init => Runner!TypeOK
  <2> SUFFICES ASSUME Runner!Init PROVE Runner!TypeOK
    OBVIOUS
  <2>1. edited \in [SyncedWorks -> Runner!Ages] /\ unsent \in SUBSET SyncedWorks
    BY RunnerAssumption DEF Runner!Init, Runner!Ages
  <2> QED BY <2>1, RunnerAssumption DEF Runner!Init, Runner!TypeOK, Runner!Spots, Runner!Phases
<1>2. ASSUME Runner!TypeOK, [Runner!Next]_(Runner!vars) PROVE Runner!TypeOK'
  <2> USE <1>2 DEF Runner!TypeOK, Runner!Spots, Runner!Phases, Runner!Ages, Runner!flags, Runner!alarm,
                   Runner!run, Runner!content, Runner!around, Runner!bounds
  <2>1. CASE Runner!Loop
    <3>1. CASE Runner!Tick \/ Runner!RunMirrors \/ Runner!MirrorsDone \/ Runner!FallAsleep \/ Runner!GetUp
      BY <3>1 DEF Runner!Tick, Runner!SetOut, Runner!RunMirrors, Runner!MirrorsDone, Runner!FallAsleep,
         Runner!GetUp
    <3>2. CASE Runner!RunEnds
      BY <3>2 DEF Runner!RunEnds, Runner!Unsettled
    <3>3. ASSUME NEW w \in SyncedWorks,
                 Runner!Turn(w) \/ Runner!PushLands(w) \/ Runner!PullLands(w) \/ Runner!MirrorTurn(w)
          PROVE  Runner!TypeOK'
      BY <3>3 DEF Runner!Turn, Runner!PushLands, Runner!PullLands, Runner!MirrorTurn
    <3>4. CASE Runner!LastFlush \/ Runner!GoDown
      BY <3>4 DEF Runner!LastFlush, Runner!GoDown, Runner!Edited
    <3> QED BY <2>1, <3>1, <3>2, <3>3, <3>4 DEF Runner!Loop
  <2>2. CASE Runner!RunNow \/ Runner!SetAuto \/ Runner!ManualBegins \/ Runner!ManualEnds
    <3>1. CASE Runner!RunNow
      BY <3>1 DEF Runner!RunNow, Runner!Wake
    <3>2. CASE Runner!SetAuto
      BY <3>2 DEF Runner!SetAuto, Runner!Calls
    <3>3. CASE Runner!ManualBegins \/ Runner!ManualEnds
      BY <3>3 DEF Runner!ManualBegins, Runner!ManualEnds, Runner!Setback
    <3> QED BY <2>2, <3>1, <3>2, <3>3
  <2>3. CASE Runner!RunFails \/ Runner!MirrorFails \/ Runner!Stop
    BY <2>3 DEF Runner!RunFails, Runner!MirrorFails, Runner!Stop, Runner!Setback
  <2>4. ASSUME NEW w \in SyncedWorks, Runner!Goes(w) PROVE Runner!TypeOK'
    BY <2>4 DEF Runner!Goes, Runner!OpenSync, Runner!MarkOpen, Runner!Settle, Runner!AgentEnds
  <2>5. ASSUME NEW w \in SyncedWorks, Runner!Around(w) PROVE Runner!TypeOK'
    <3>1. CASE Runner!Write(w) \/ Runner!BeginOpen(w)
      BY <3>1 DEF Runner!Write, Runner!BeginOpen, Runner!Changes, Runner!Move
    <3>2. CASE Runner!Close(w)
      BY <3>2 DEF Runner!Close, Runner!Flag, Runner!Calls
    <3>3. CASE Runner!Flush(w)
      <4>1. moves' \in Nat
        BY <3>3 DEF Runner!Flush, Runner!Move
      <4> QED BY <3>3, <4>1 DEF Runner!Flush, Runner!Flag, Runner!Calls
    <3>4. CASE Runner!AgentBegins(w) \/ Runner!AgentWrites(w) \/ Runner!Arrive(w) \/ Runner!Problem(w)
      BY <3>4 DEF Runner!AgentBegins, Runner!AgentWrites, Runner!Arrive, Runner!Problem, Runner!Changes,
         Runner!Move, Runner!Setback
    <3> QED BY <2>5, <3>1, <3>2, <3>3, <3>4 DEF Runner!Around
  <2>6. ASSUME NEW c \in SyncedWorks \cup {"auto"}, Runner!CallsRunNow(c) PROVE Runner!TypeOK'
    BY <2>6 DEF Runner!CallsRunNow, Runner!Wake
  <2>7. CASE UNCHANGED Runner!vars
    BY <2>7 DEF Runner!vars
  <2> QED BY <2>1, <2>2, <2>3, <2>4, <2>5, <2>6, <2>7, <1>2 DEF Runner!Next
<1> QED BY <1>1, <1>2, PTL DEF Runner!Spec

(* Each step keeps every flagged work on the loop's mind.                      *)
LEMMA RunnerWakesKeeps == ASSUME RunnerWakes, [Runner!Next]_(Runner!vars) PROVE RunnerWakes'
<1> USE DEF RunnerWakes, Runner!flags, Runner!alarm, Runner!run, Runner!content, Runner!around, Runner!bounds
<1>1. CASE Runner!Loop
  <2>1. CASE Runner!Tick \/ Runner!FallAsleep \/ Runner!GetUp
    BY <2>1 DEF Runner!Tick, Runner!SetOut, Runner!FallAsleep, Runner!GetUp
  <2>2. CASE Runner!RunEnds \/ Runner!RunMirrors \/ Runner!MirrorsDone
    BY <2>2 DEF Runner!RunEnds, Runner!RunMirrors, Runner!MirrorsDone
  <2>3. ASSUME NEW w \in SyncedWorks,
               Runner!Turn(w) \/ Runner!PushLands(w) \/ Runner!PullLands(w) \/ Runner!MirrorTurn(w)
        PROVE  RunnerWakes'
    BY <2>3 DEF Runner!Turn, Runner!PushLands, Runner!PullLands, Runner!MirrorTurn
  <2>4. CASE Runner!LastFlush \/ Runner!GoDown
    BY <2>4 DEF Runner!LastFlush, Runner!GoDown
  <2> QED BY <1>1, <2>1, <2>2, <2>3, <2>4 DEF Runner!Loop
<1>2. CASE Runner!RunNow \/ Runner!SetAuto \/ Runner!ManualBegins \/ Runner!ManualEnds
  <2>1. CASE Runner!RunNow
    BY <2>1 DEF Runner!RunNow, Runner!Wake
  <2>2. CASE Runner!SetAuto
    BY <2>2 DEF Runner!SetAuto, Runner!Calls
  <2>3. CASE Runner!ManualBegins \/ Runner!ManualEnds
    BY <2>3 DEF Runner!ManualBegins, Runner!ManualEnds
  <2> QED BY <1>2, <2>1, <2>2, <2>3
<1>3. CASE Runner!RunFails \/ Runner!MirrorFails \/ Runner!Stop
  BY <1>3 DEF Runner!RunFails, Runner!MirrorFails, Runner!Stop
<1>4. ASSUME NEW w \in SyncedWorks, Runner!Goes(w) PROVE RunnerWakes'
  BY <1>4 DEF Runner!Goes, Runner!OpenSync, Runner!MarkOpen, Runner!Settle, Runner!AgentEnds
<1>5. ASSUME NEW w \in SyncedWorks, Runner!Around(w) PROVE RunnerWakes'
  <2>1. CASE Runner!Close(w) \/ Runner!Flush(w)
    BY <2>1 DEF Runner!Close, Runner!Flush, Runner!Flag, Runner!Calls, Runner!Move
  <2>2. CASE Runner!Write(w) \/ Runner!BeginOpen(w) \/ Runner!Arrive(w) \/ Runner!Problem(w)
    BY <2>2 DEF Runner!Write, Runner!BeginOpen, Runner!Arrive, Runner!Problem, Runner!Changes, Runner!Move
  <2>3. CASE Runner!AgentBegins(w) \/ Runner!AgentWrites(w)
    BY <2>3 DEF Runner!AgentBegins, Runner!AgentWrites, Runner!Changes, Runner!Move
  <2> QED BY <1>5, <2>1, <2>2, <2>3 DEF Runner!Around
<1>6. ASSUME NEW c \in SyncedWorks \cup {"auto"}, Runner!CallsRunNow(c) PROVE RunnerWakes'
  BY <1>6 DEF Runner!CallsRunNow, Runner!Wake
<1>7. CASE UNCHANGED Runner!vars
  BY <1>7 DEF Runner!vars
<1> QED BY <1>1, <1>2, <1>3, <1>4, <1>5, <1>6, <1>7 DEF Runner!Next

(* A Close or a Flush is not slept over, wherever its flag and its RunNow fall *)
(* between the steps of the loop.                                              *)
(* (runner.go sleep, RunNow)                                                   *)
THEOREM WakesUp == Runner!Spec => []NoMissedWake
<1>1. Runner!Init => RunnerWakes
  BY DEF Runner!Init, RunnerWakes
<1>2. Runner!TypeOK /\ RunnerWakes => NoMissedWake
  BY DEF Runner!TypeOK, Runner!Phases, RunnerWakes, NoMissedWake, Runner!NoMissedWake
<1> QED BY <1>1, <1>2, RunnerWakesKeeps, RunnerTyped, PTL DEF Runner!Spec
=============================================================================
