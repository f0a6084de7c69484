------------------------------- MODULE Skills -------------------------------
(* The agent's skills: files the writer may edit, move and break by hand       *)
(* (internal/agentskills/store.go), the log of every version a change through  *)
(* the app or an agent left (history.go), and the calls that change both: the  *)
(* settings pane's write, delete and restore (internal/rpc/handlers/skills.go) *)
(* and the agent's linetta_edit_skill (internal/mcphost/tools_write.go).       *)
(*                                                                             *)
(* Nothing locks: every call looks, decides, writes the file and records its   *)
(* row in steps of their own, and others come in between. One action is one    *)
(* such step.                                                                  *)
(*                                                                             *)
(* Left out: what makes a name or a text acceptable, the enabled flag and the  *)
(* times, line endings. A text stands for body, description and author.        *)
EXTENDS Naturals, FiniteSets, Sequences

CONSTANTS
    Names,          \* of one scope of one work
    Texts,          \* the skills a file can hold
    Absent, Bare,   \* no directory; one with no SKILL.md in it
    Broken,         \* a file that does not parse
    Unreadable,     \* one too large to read
    Callers,        \* the calls that can be under way at one time
    MaxSkills,      \* MaxSkillsPerScope
    MaxCalls,       \* bound: calls there ever are
    MaxByHand,      \* bound: changes by hand
    MaxFaults       \* bound: rows that are not recorded, and stops

Empty == {Absent, Bare}
Kinds == {"write", "create", "patch", "restore", "delete", "agent_delete"}

VARIABLES
    disk,       \* what stands at each name
    log,        \* skill_snapshots, in the order of the rows
    call,       \* the calls under way
    done,       \* how often the bounded things happened
    unlogged    \* names changed by hand, or without a row, since they last had one

vars == <<disk, log, call, done, unlogged>>

-----------------------------------------------------------------------------
NoCall == [at |-> "idle"]

Rows(n) == {k \in DOMAIN log : log[k].name = n}
Newest(n) == {k \in Rows(n) : \A j \in Rows(n) : j <= k}
Held(n) == {log[k].doc : k \in Rows(n)}

AnyRow(n, doc) == \E k \in Newest(n) : log[k].reason # "deleted"

(* recordsSkill, of History.Newest: the log holds a copy of what stands there. *)
Recorded(n, doc) == \E k \in Newest(n) : log[k].doc = doc

Init ==
    /\ disk = [n \in Names |-> Absent] /\ log = <<>>
    /\ call = [c \in Callers |-> NoCall]
    /\ done = [calls |-> 0, byHand |-> 0, faults |-> 0]
    /\ unlogged = {}

(* A change of the file: whoever looked at that name before it did not see it. *)
Stands(n, doc, by) ==
    /\ disk' = [disk EXCEPT ![n] = doc]
    /\ call' = [c \in Callers |->
            IF c = by.id THEN by.call
            ELSE IF call[c].at \notin {"idle", "look", "log"} /\ call[c].name = n
            THEN [call[c] EXCEPT !.moved = TRUE] ELSE call[c]]

Goes(c, at) == call' = [call EXCEPT ![c].at = at]
Ends(c) == call' = [call EXCEPT ![c] = NoCall]

-----------------------------------------------------------------------------
(* A call comes in. A restore names a row, and takes name and text from it.    *)
Begin(c, kind, n, doc) ==
    /\ call[c] = NoCall /\ done.calls < MaxCalls
    /\ kind = "restore" => doc \in Held(n)
    /\ done' = [done EXCEPT !.calls = @ + 1]
    /\ call' = [call EXCEPT ![c] = [at |-> "look", kind |-> kind, name |-> n, doc |-> doc,
                                    seen |-> Absent, reason |-> "created", moved |-> FALSE]]
    /\ UNCHANGED <<disk, log, unlogged>>

(* What each call makes of what it finds: inspectBeforeOverwrite for the pane, *)
(* Store.Read for the agent. Where it goes next, or "idle" when it refuses.    *)
Onward(kind, doc, found) ==
    CASE kind = "write" /\ found # Unreadable -> "room"
      [] kind = "create" /\ found \in Empty -> "room"
      [] kind = "patch" /\ found \in Texts \ {doc} -> "room"
      [] kind = "restore" /\ found \in Empty -> "room"
      [] kind = "restore" /\ found \in Texts -> "compare"
      [] kind = "delete" -> "remove"
      [] kind = "agent_delete" /\ found \in Texts -> "remove"
      [] OTHER -> "idle"

Look(c) ==
    /\ call[c].at = "look"
    /\ LET found == disk[call[c].name]
           at == Onward(call[c].kind, call[c].doc, found)
       IN call' = [call EXCEPT ![c] =
            IF at = "idle" THEN NoCall
            ELSE [@ EXCEPT !.at = at, !.seen = found,
                           !.reason = IF found \in Empty THEN "created" ELSE "edited"]]
    /\ UNCHANGED <<disk, log, done, unlogged>>

(* refuseUnrecordedSkill: a restore over a text the log does not hold is not   *)
(* made. The log is read after the file was.                                   *)
Compare(c) ==
    /\ call[c].at = "compare"
    /\ IF Recorded(call[c].name, call[c].seen) THEN Goes(c, "room") ELSE Ends(c)
    /\ UNCHANGED <<disk, log, done, unlogged>>

(* Store.Write. Only a skill that is not there yet can be one too many, and    *)
(* the directory it would fill does not count.                                 *)
Room(c) ==
    /\ call[c].at = "room"
    /\ LET n == call[c].name
           others == {x \in Names \ {n} : disk[x] # Absent}
       IN IF (disk[n] \in Empty) /\ (Cardinality(others) >= MaxSkills) THEN Ends(c) ELSE Goes(c, "put")
    /\ UNCHANGED <<disk, log, done, unlogged>>

Put(c) ==
    /\ call[c].at = "put"
    /\ LET n == call[c].name
       IN /\ Stands(n, call[c].doc, [id |-> c, call |-> [call[c] EXCEPT !.at = "log"]])
          /\ unlogged' = unlogged \cup {n}
    /\ UNCHANGED <<log, done>>

(* Store.Delete, of a name that is there. The row will say what was read; when *)
(* nothing could be, there is none.                                            *)
Delete(c) ==
    /\ call[c].at = "remove"
    /\ LET n == call[c].name
           rest == IF call[c].seen \in Texts
                   THEN [call[c] EXCEPT !.at = "log", !.doc = call[c].seen, !.reason = "deleted"]
                   ELSE NoCall
       IN IF disk[n] = Absent THEN Ends(c) /\ UNCHANGED disk
          ELSE Stands(n, Absent, [id |-> c, call |-> rest])
    /\ UNCHANGED <<log, done, unlogged>>

Before(c) == [name |-> call[c].name, doc |-> call[c].seen, reason |-> call[c].reason]

(* The row holds the state a write just made, never the one before it.         *)
Row(c) == [name |-> call[c].name, doc |-> call[c].doc, reason |-> call[c].reason]

(* recordVersion. A row that cannot be recorded leaves the change, and says so.*)
Record(c) ==
    /\ call[c].at = "log" /\ Ends(c)
    /\ \/ /\ log' = Append(log, Row(c)) /\ UNCHANGED done
          /\ unlogged' = IF disk[call[c].name] = call[c].doc THEN unlogged \ {call[c].name} ELSE unlogged
       \/ /\ done.faults < MaxFaults /\ done' = [done EXCEPT !.faults = @ + 1]
          /\ UNCHANGED <<log, unlogged>>
    /\ UNCHANGED disk

(* The writer, in a file manager or an editor of their own.                    *)
ByHand(n, doc) ==
    /\ done.byHand < MaxByHand /\ disk[n] # doc
    /\ done' = [done EXCEPT !.byHand = @ + 1]
    /\ Stands(n, doc, [id |-> Absent, call |-> NoCall])
    /\ unlogged' = unlogged \cup {n} /\ UNCHANGED log

(* The engine stops. A directory may have been made and not yet filled.        *)
Stop ==
    /\ done.faults < MaxFaults /\ \E c \in Callers : call[c] # NoCall
    /\ done' = [done EXCEPT !.faults = @ + 1]
    /\ call' = [c \in Callers |-> NoCall]
    /\ \E made \in SUBSET {n \in Names : disk[n] = Absent
                            /\ \E c \in Callers : call[c].at = "put" /\ call[c].name = n} :
            disk' = [n \in Names |-> IF n \in made THEN Bare ELSE disk[n]]
    /\ UNCHANGED <<log, unlogged>>

-----------------------------------------------------------------------------
Step(c) == Look(c) \/ Compare(c) \/ Room(c) \/ Put(c) \/ Delete(c) \/ Record(c)

Next ==
    \/ \E c \in Callers, kind \in Kinds, n \in Names, doc \in Texts : Begin(c, kind, n, doc)
    \/ \E c \in Callers : Step(c)
    \/ \E n \in Names, doc \in Texts \cup {Absent, Bare, Broken, Unreadable} : ByHand(n, doc)
    \/ Stop

Spec == Init /\ [][Next]_vars

-----------------------------------------------------------------------------
TypeOK ==
    /\ disk \in [Names -> Texts \cup {Absent, Bare, Broken, Unreadable}]
    /\ \A k \in DOMAIN log : log[k].name \in Names /\ log[k].doc \in Texts
                              /\ log[k].reason \in {"created", "edited", "deleted"}
    /\ \A c \in Callers : call[c].at \in {"idle", "look", "compare", "room", "put", "remove", "log"}
    /\ unlogged \subseteq Names

(* A restore never takes away the only copy of a text, and an agent's create   *)
(* never takes away a skill at all - unless what stood there came after the    *)
(* call had looked, which nothing in the code prevents.                        *)
BuriesNothing ==
    \A c \in Callers :
        call[c].at = "put" /\ call'[c].at = "log" /\ ~call[c].moved =>
            LET n == call[c].name
            IN /\ call[c].kind = "restore" => disk[n] \in Empty \cup Held(n)
               /\ call[c].kind = "create" => disk[n] \in Empty

NothingBuried == [][BuriesNothing]_vars

(* What the app or an agent wrote can be gone back to: a skill nobody touched  *)
(* by hand is in the log once the call that wrote it has recorded its row, and *)
(* so is one that is gone, whoever came in between.                            *)
CanBeGoneBackTo ==
    \A n \in Names : n \notin unlogged /\ disk[n] \in Texts => disk[n] \in Held(n)

=============================================================================
