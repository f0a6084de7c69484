------------------------------ MODULE Settings ------------------------------
(* settings.json, the credentials beside it in the system's secret store, and  *)
(* the keys older versions left in the file in plain text                      *)
(* (internal/settings). A patch changes the secret store, then the file, then  *)
(* memory, and takes back what it did when a step fails; a start moves the     *)
(* keys it finds in the file, and what cannot be moved stays there, is shown,  *)
(* and is put back into the file by every later save.                          *)
(*                                                                             *)
(* One action is one call of the secret store, one write of the file, or the   *)
(* assignment to memory. The secret store is there or not (unsupported, on     *)
(* Linux) and any call of it may fail, with its effect or without.             *)
(*                                                                             *)
(* Left out: patches that do not validate (they return first), which setting   *)
(* was set (one stands for all), the tokens with a file of their own.          *)
EXTENDS Naturals, Sequences, FiniteSets

CONSTANTS
    Names,          \* whose keys there are: providers, and Web
    Web,            \* the web search key, which no patch sets any more
    Keys,
    OldKeys,        \* the keys an older version may have left in the file
    Callers,        \* the requests that may be under way
    MaxPatches,     \* bound: patches there ever are
    MaxFaults       \* bound: calls that fail, and stops

None == "none"
Prefs == {"light", "dark"}
Accounts == {None, "account"}

VARIABLES
    backend,        \* whether this build has a secret store
    secrets,        \* what it holds
    file,           \* settings.json: plain keys, a preference, the account
    cfg,            \* memory: preference and account
    notice,         \* legacyPlaintext: the keys that could not be moved
    up,             \* "down", "loading", "up"
    load,           \* the keys load() has still to move, and those it moved
    call,
    done,
    owned           \* for the properties: what each key may be

vars == <<backend, secrets, file, cfg, notice, up, load, call, done, owned>>

NoKeys == [n \in Names |-> None]
NoCall == [at |-> "idle"]
NoLoad == [todo |-> {}, moved |-> {}]
Patches ==
    {<<>>} \cup {<<[name |-> n, key |-> k]>> : n \in Names \ {Web}, k \in Keys \cup {None}}
    \cup {<<[name |-> p[1], key |-> k], [name |-> p[2], key |-> l]>> :
            p \in {q \in (Names \ {Web}) \X (Names \ {Web}) : q[1] # q[2]}, k, l \in Keys \cup {None}}

Init ==
    /\ backend \in BOOLEAN /\ secrets = NoKeys
    /\ \E plain \in [Names -> OldKeys \cup {None}] :
        /\ file = [plain |-> plain, pref |-> "light", account |-> None]
        /\ owned = [n \in Names |-> {plain[n]}]
    /\ cfg = [pref |-> "light", account |-> None] /\ notice = NoKeys
    /\ up = "down" /\ load = NoLoad
    /\ call = [c \in Callers |-> NoCall]
    /\ done = [patches |-> 0, faults |-> 0]

Fault == done.faults < MaxFaults /\ done' = [done EXCEPT !.faults = @ + 1]

(* setSecret of the platform: an empty key deletes, and on a build with no     *)
(* store deleting is fine and storing is not.                                  *)
Stores(n, k) ==
    /\ backend \/ k = None
    /\ secrets' = IF backend THEN [secrets EXCEPT ![n] = k] ELSE secrets
    /\ UNCHANGED done

(* A store that errors is not promising it changed nothing.                    *)
StoreFails(n, k) ==
    \/ /\ ~backend /\ k # None /\ UNCHANGED <<secrets, done>>
    \/ /\ backend /\ Fault
       /\ secrets' \in {secrets, [secrets EXCEPT ![n] = k]}

-----------------------------------------------------------------------------
(* Starting.                                                                   *)

(* load(), up to the keys: everything else is taken over from the file.        *)
Load ==
    /\ up = "down" /\ up' = "loading"
    /\ cfg' = [pref |-> file.pref, account |-> file.account] /\ notice' = NoKeys
    /\ load' = [todo |-> {n \in Names : file.plain[n] # None}, moved |-> {}]
    /\ UNCHANGED <<backend, secrets, file, call, done, owned>>

(* migrateLegacySecrets, one key: moved, or noted and left where it is.        *)
Migrate(n) ==
    /\ up = "loading" /\ n \in load.todo
    /\ \/ /\ Stores(n, file.plain[n]) /\ UNCHANGED notice
          /\ load' = [todo |-> load.todo \ {n}, moved |-> load.moved \cup {n}]
       \/ /\ StoreFails(n, file.plain[n])
          /\ notice' = [notice EXCEPT ![n] = file.plain[n]]
          /\ load' = [load EXCEPT !.todo = @ \ {n}]
    /\ UNCHANGED <<backend, file, cfg, up, call, owned>>

SavedClean(next, legacy) == [plain |-> NoKeys, pref |-> next.pref, account |-> next.account]

(* persistWith: a file that is replaced whole, or not at all. Plain keys are   *)
(* in it exactly as far as they were given.                                    *)
Saved(next, legacy) == [plain |-> legacy, pref |-> next.pref, account |-> next.account]

(* The end of load(): the file is written again when a key moved, and a load   *)
(* that cannot write it fails.                                                 *)
Loaded ==
    /\ up = "loading" /\ load.todo = {} /\ load' = NoLoad
    /\ \/ /\ up' = "up" /\ file' = IF load.moved = {} THEN file ELSE Saved(cfg, notice)
          /\ UNCHANGED done
       \/ /\ load.moved # {} /\ Fault /\ up' = "down" /\ UNCHANGED file
    /\ UNCHANGED <<backend, secrets, cfg, notice, call, owned>>

-----------------------------------------------------------------------------
(* Patching.                                                                   *)

FreeAlways == TRUE

(* writeMu.                                                                    *)
Free == \A c \in Callers : call[c] = NoCall

Pending(patch) == {patch[i].name : i \in DOMAIN patch}

(* without: a key stored or cleared now supersedes that provider's old one.    *)
Remaining(patch, clear) ==
    [n \in Names |-> IF clear \/ n \in Pending(patch) THEN None ELSE notice[n]]

(* Set. What is there now is read first; a read that fails changes nothing.    *)
Set(c, patch, pref, clear) ==
    /\ up = "up" /\ Free /\ call[c] = NoCall /\ done.patches < MaxPatches
    /\ done' = [done EXCEPT !.patches = @ + 1]
    /\ call' = [call EXCEPT ![c] =
            [at |-> "keys", patch |-> patch, i |-> 1, clear |-> clear,
             next |-> [cfg EXCEPT !.pref = pref], legacy |-> Remaining(patch, clear),
             prior |-> [i \in DOMAIN patch |-> secrets[patch[i].name]],
             before |-> <<secrets, file, cfg, notice>>, clean |-> TRUE]]
    /\ UNCHANGED <<backend, secrets, file, cfg, notice, up, load, owned>>

(* SetPublishAccount, which no patch reaches.                                  *)
SetPublishAccount(c, account) ==
    /\ up = "up" /\ Free /\ call[c] = NoCall /\ done.patches < MaxPatches
    /\ done' = [done EXCEPT !.patches = @ + 1]
    /\ call' = [call EXCEPT ![c] =
            [at |-> "keys", patch |-> <<>>, i |-> 1, clear |-> FALSE,
             next |-> [cfg EXCEPT !.account = account], legacy |-> notice, prior |-> <<>>,
             before |-> <<secrets, file, cfg, notice>>, clean |-> TRUE]]
    /\ UNCHANGED <<backend, secrets, file, cfg, notice, up, load, owned>>

KeysDone(c) == call[c].at = "keys" /\ call[c].i > Len(call[c].patch)

BeforeThis(c) == call[c].i - 1

(* The refused write is taken back too.                                        *)
ToRestore(c) == call[c].i

(* applyPendingSecrets: a key at a time, and back when one is refused.         *)
WriteKey(c) ==
    /\ call[c].at = "keys" /\ ~KeysDone(c)
    /\ LET ps == call[c].patch[call[c].i]
       IN /\ owned' = [owned EXCEPT ![ps.name] = @ \cup {ps.key}]
          /\ \/ Stores(ps.name, ps.key) /\ call' = [call EXCEPT ![c].i = @ + 1]
             \/ /\ StoreFails(ps.name, ps.key)
                /\ call' = [call EXCEPT ![c].at = "undo", ![c].i = ToRestore(c)]
    /\ UNCHANGED <<backend, file, cfg, notice, up, load>>

(* restore, from the last back. One that fails is logged and passed over.      *)
Undo(c) ==
    /\ call[c].at = "undo" /\ call[c].i > 0
    /\ LET n == call[c].patch[call[c].i].name
           k == call[c].prior[call[c].i]
       IN \/ Stores(n, k) /\ call' = [call EXCEPT ![c].i = @ - 1]
          \/ StoreFails(n, k) /\ call' = [call EXCEPT ![c].i = @ - 1, ![c].clean = FALSE]
    /\ UNCHANGED <<backend, file, cfg, notice, up, load, owned>>

Refuse(c) ==
    /\ call[c].at = "undo" /\ call[c].i = 0
    /\ call' = [call EXCEPT ![c] = NoCall]
    /\ UNCHANGED <<backend, secrets, file, cfg, notice, up, load, done, owned>>

WriteFile(c) ==
    /\ KeysDone(c)
    /\ \/ /\ file' = Saved(call[c].next, call[c].legacy)
          /\ owned' = IF call[c].clear
                      THEN [n \in Names |-> IF notice[n] # None THEN owned[n] \cup {None} ELSE owned[n]]
                      ELSE owned
          /\ call' = [call EXCEPT ![c].at = "memory"] /\ UNCHANGED done
       \/ /\ Fault /\ UNCHANGED <<file, owned>>
          /\ call' = [call EXCEPT ![c].at = "undo", ![c].i = Len(call[c].patch)]
    /\ UNCHANGED <<backend, secrets, cfg, notice, up, load>>

(* The patch is in force: what it stored is what the writer has now.           *)
Memory(c) ==
    /\ call[c].at = "memory"
    /\ cfg' = call[c].next /\ notice' = call[c].legacy
    /\ owned' = [n \in Names |->
            IF \E i \in DOMAIN call[c].patch : call[c].patch[i].name = n
            THEN {call[c].patch[i].key : i \in {j \in DOMAIN call[c].patch : call[c].patch[j].name = n}}
            ELSE owned[n]]
    /\ call' = [call EXCEPT ![c] = NoCall]
    /\ UNCHANGED <<backend, secrets, file, up, load, done>>

(* The app ends, wherever it is.                                               *)
Stop ==
    /\ up # "down" /\ Fault /\ up' = "down"
    /\ call' = [c \in Callers |-> NoCall] /\ load' = NoLoad
    /\ UNCHANGED <<backend, secrets, file, cfg, notice, owned>>

-----------------------------------------------------------------------------
Step(c) == WriteKey(c) \/ Undo(c) \/ Refuse(c) \/ WriteFile(c) \/ Memory(c)

Next ==
    \/ Load \/ (\E n \in Names : Migrate(n)) \/ Loaded \/ Stop
    \/ \E c \in Callers :
        \/ \E patch \in Patches, pref \in Prefs, clear \in BOOLEAN : Set(c, patch, pref, clear)
        \/ \E account \in Accounts : SetPublishAccount(c, account)
        \/ Step(c)

Spec == Init /\ [][Next]_vars

-----------------------------------------------------------------------------
(* No key is lost between the two places: it is in the secret store or in the  *)
(* file as it was before a change or after it, unless the writer cleared it.   *)
KeyHeld ==
    \A n \in Names : owned[n] \cap {None, secrets[n], file.plain[n]} # {}

(* No key lies in the file in plain text that the settings do not show, not    *)
(* between two steps of a patch either.                                        *)
NoticeTrue ==
    up = "up" => \A n \in Names : file.plain[n] \in {None, notice[n]}

(* With no change under way memory says what the file will say at next start.  *)
MemoryIsFile ==
    up = "up" /\ (\A c \in Callers : call[c] = NoCall) =>
        file = [plain |-> notice, pref |-> cfg.pref, account |-> cfg.account]

Accounted == KeyHeld /\ NoticeTrue /\ MemoryIsFile

(* A refused patch leaves the secret store, the file and memory exactly as     *)
(* they were, as settings.set promises, unless taking a key back failed too.   *)
RefusalChangesNothing ==
    \A c \in Callers :
        call[c].at = "undo" /\ call'[c] = NoCall /\ up' = "up" /\ call[c].clean =>
            <<secrets, file, cfg, notice>>' = call[c].before

RefusedMeansNothing == [][RefusalChangesNothing]_vars

=============================================================================
