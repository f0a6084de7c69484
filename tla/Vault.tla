------------------------------- MODULE Vault -------------------------------
(***************************************************************************)
(* One work kept in step on several devices through a vault: the push, the *)
(* pull, the answer to a conflict, the deletion marker and the automatic   *)
(* run of engine/internal/vault, each cut where the engine lets somebody   *)
(* else in (the site is asked, a transaction ends), so that a writer, an   *)
(* agent or another device may act between any two of its steps.           *)
(*                                                                         *)
(* A text is the set of the words in it, which is as much of a manuscript  *)
(* as the properties tell apart: two texts hash alike exactly when they    *)
(* are equal, and a word is lost when no text that can still be opened     *)
(* holds it.  The vault is the site: revisions of one item, numbered from  *)
(* 1, and a commit that is refused unless its base is the head.            *)
(***************************************************************************)
EXTENDS Naturals, Sequences

CONSTANTS
  Devices,      \* the writer's computers, each with its own library
  Words,        \* what can be written into the work
  Conversation, \* the words of a category only newer versions carry
  MaxRevision,  \* bound: the vault takes no more revisions than this
  MaxFaults,    \* bound: operations cut short and answers lost
  Manual,       \* devices whose writer pushes, pulls and answers by hand
  Deleters,     \* devices whose writer may delete the work
  Racers        \* devices where a write may fall inside a pull of the work

ASSUME ConversationAssumption == Conversation \subseteq Words
ASSUME BoundsAssumption == MaxRevision \in Nat /\ MaxFaults \in Nat

VARIABLES
  hist,    \* the vault: the item's revisions, the head last
  held,    \* the devices whose library has the work
  text,    \* the work's text on each device, {} where it is not held
  linked,  \* the devices with a link row (vault_items)
  base,    \* Link.BaseRevision
  last,    \* Link.LastHash, as the text it is the hash of
  pending, \* devices with a queued deletion (vault_deletions)
  leaving, \* devices between queueing a deletion and deleting the row
  kept,    \* words in each device's snapshots and kept copies
  today,   \* TookVaultPullToday on each device
  op,      \* the one operation each device's Service may be running
  faults,  \* faults so far
  written,   \* history: every word ever written
  forfeited, \* history: words the engine could not be held to (see Forfeit)
  discarded  \* history: words a writer's own answer took out of the head

vault   == <<hist, discarded>>
library == <<held, text, linked, base, last>>
queue   == <<pending, leaving>>
shelf   == <<kept, today>>
ghosts  == <<written, forfeited>>
vars == <<vault, library, queue, shelf, op, faults, ghosts>>

-----------------------------------------------------------------------------
(* The state of an operation.  words is the text it carries: the export of *)
(* a push, the bundle of a pull.  rev is the revision it was reading: the  *)
(* base to commit on, the head it saw, the number to record.               *)

Steps == {"idle",
          "resolve", "match", "commit", "record",          \* push
          "open", "check", "snapshot", "apply", "rehash",  \* pull
          "marker", "scan", "decide"}                      \* SyncAll

Idle == [pc |-> "idle", auto |-> FALSE, decided |-> FALSE, words |-> {},
         rev |-> 0, atHead |-> TRUE, merge |-> FALSE]

HeadRev == Len(hist)
Alive(r) == r > 0 /\ hist[r].alive

\* The text, and so the hash, of revision r; 0 is the item that is not there.
Body(r) == IF r = 0 THEN {} ELSE hist[r].words

\* Mutant of Base: a work without a link builds on whatever the head is.
BaseOfHead(d) == IF d \in linked THEN base[d] ELSE HeadRev

\* getLink's zero Link stands in where there is no row: base 0, no hash.
Base(d) == IF d \in linked THEN base[d] ELSE 0
\* Mutant of Changed: a work without a link counts as unchanged.
ChangedIfLinked(d) == d \in linked /\ text[d] # last[d]

Changed(d) == d \notin linked \/ text[d] # last[d]

\* onlyNewlyCarried: without the newly carried category, the work is still
\* what was last synced.
OnlyNewlyCarried(d) ==
  d \in linked /\ last[d] # {} /\ text[d] \ Conversation = last[d]

Begin(d, o) == op[d] = Idle /\ op' = [op EXCEPT ![d] = o]
Goto(d, from, step) ==
  op[d].pc = from /\ op' = [op EXCEPT ![d].pc = step]
Finish(d, from) == op[d].pc = from /\ op' = [op EXCEPT ![d] = Idle]

PutLink(d, revision, hash) ==
  /\ linked' = linked \cup {d}
  /\ base' = [base EXCEPT ![d] = revision]
  /\ last' = [last EXCEPT ![d] = hash]

Commit(d, alive, words) ==
  hist' = Append(hist, [alive |-> alive, words |-> words, by |-> d])

\* Words on d that no link vouches for.
Unsent(d) == IF d \in linked THEN text[d] \ last[d] ELSE text[d]

-----------------------------------------------------------------------------
Init ==
  /\ \E d \in Devices, w \in Words :
       /\ held = {d}
       /\ text = [e \in Devices |-> IF e = d THEN {w} ELSE {}]
       /\ written = {w}
  /\ hist = <<>>
  /\ linked = {}
  /\ base = [d \in Devices |-> 0]
  /\ last = [d \in Devices |-> {}]
  /\ pending = {} /\ leaving = {}
  /\ kept = [d \in Devices |-> {}]
  /\ today = [d \in Devices |-> FALSE]
  /\ op = [d \in Devices |-> Idle]
  /\ faults = 0
  /\ forfeited = {} /\ discarded = {}

-----------------------------------------------------------------------------
(* The writer, or an agent over MCP.  Nothing stops either of them while a *)
(* pull of the same work runs.                                             *)

\* The steps of a pull in which a new word may go unnoticed: the check is
\* past and no snapshot will hold it, or the hash is about to be taken.
Exposed(d) ==
  \/ op[d].pc = "snapshot" /\ op[d].auto /\ today[d]
  \/ op[d].pc = "apply"
  \/ op[d].pc = "rehash" /\ ~op[d].merge

Write(d, w) ==
  /\ d \in held /\ w \notin text[d]
  /\ Exposed(d) => d \in Racers
  /\ text' = [text EXCEPT ![d] = @ \cup {w}]
  /\ written' = written \cup {w}
  /\ forfeited' = IF Exposed(d) THEN forfeited \cup {w} ELSE forfeited
  /\ UNCHANGED <<vault, held, linked, base, last, queue, shelf, op, faults>>

\* projects.delete, first half: QueueDeletion, for what a link says is kept.
QueueDeletion(d) ==
  /\ d \in Deleters /\ d \in held /\ d \notin leaving
  /\ pending' = IF d \in linked THEN pending \cup {d} ELSE pending
  /\ leaving' = leaving \cup {d}
  /\ UNCHANGED <<vault, library, shelf, op, faults, ghosts>>

\* Second half: the project row goes, and the link with it (ON DELETE CASCADE).
DeleteRow(d) ==
  /\ d \in leaving
  /\ leaving' = leaving \ {d}
  /\ held' = held \ {d}
  /\ linked' = linked \ {d}
  /\ forfeited' = forfeited \cup Unsent(d)
  /\ text' = [text EXCEPT ![d] = {}]
  /\ UNCHANGED <<vault, base, last, pending, shelf, op, faults, written>>

\* A crash, or an error of the second half: the queue already says otherwise.
DeleteFails(d) ==
  /\ d \in leaving /\ faults < MaxFaults
  /\ leaving' = leaving \ {d}
  /\ faults' = faults + 1
  /\ UNCHANGED <<vault, library, pending, shelf, op, ghosts>>

NextDay(d) ==
  /\ today[d]
  /\ today' = [today EXCEPT ![d] = FALSE]
  /\ UNCHANGED <<vault, library, queue, kept, op, faults, ghosts>>

-----------------------------------------------------------------------------
(* push *)

\* export, and what follows it.
Exported(d, overwrite) ==
  [Idle EXCEPT !.pc = "resolve", !.decided = overwrite, !.words = text[d]]

\* Push and, with overwrite, ResolveConflict answered keep_local.
BeginPush(d, overwrite) ==
  /\ d \in Manual /\ d \in held
  /\ Begin(d, Exported(d, overwrite))
  /\ UNCHANGED <<vault, library, queue, shelf, faults, ghosts>>

\* resolve, then push's comparison of revisions.  The item is on the site
\* whenever it has a revision: without deleteItem it never leaves.
PushResolve(d) ==
  LET onto == IF op[d].decided THEN HeadRev ELSE Base(d)
      upToDate == d \in linked /\ HeadRev = base[d] /\ op[d].words = last[d]
      next == IF HeadRev # onto THEN "match" ELSE "commit"
  IN /\ op[d].pc = "resolve"
     /\ op' = [op EXCEPT ![d] =
          IF HeadRev = onto /\ upToDate
            THEN Idle
            ELSE [@ EXCEPT !.pc = next, !.rev = HeadRev]]
     /\ UNCHANGED <<vault, library, queue, shelf, faults, ghosts>>

\* matchesHead: the digest kept for the head that resolve saw, or, when none
\* was kept, whatever is the head by now.  A difference is the conflict error;
\* the same text is recorded under the number that resolve saw.
PushMatch(d) ==
  /\ Finish(d, "match")
  /\ \E r \in {op[d].rev, HeadRev} :
       IF Alive(r) /\ Body(r) = op[d].words /\ d \in held
         THEN PutLink(d, op[d].rev, op[d].words)
         ELSE UNCHANGED <<linked, base, last>>
  /\ UNCHANGED <<vault, held, text, queue, shelf, faults, ghosts>>

\* send: the commit that finds its blobs in place.  The site takes it only on
\* the head it names; an overwritten head stays behind as a restore point.
PushCommit(d) ==
  /\ op[d].pc = "commit" /\ HeadRev = op[d].rev /\ HeadRev < MaxRevision
  /\ Commit(d, TRUE, op[d].words)
  /\ discarded' = IF op[d].decided
                    THEN discarded \cup (Body(HeadRev) \ op[d].words)
                    ELSE discarded
  /\ \/ /\ op' = [op EXCEPT ![d].pc = "record", ![d].rev = HeadRev + 1]
        /\ UNCHANGED faults
     \/ \* the site took it and the answer never came
        /\ faults < MaxFaults
        /\ faults' = faults + 1
        /\ op' = [op EXCEPT ![d] = Idle]
  /\ UNCHANGED <<library, queue, shelf, ghosts>>

PushRefused(d) ==
  /\ op[d].pc = "commit" /\ HeadRev # op[d].rev
  /\ op' = [op EXCEPT ![d] = Idle]
  /\ UNCHANGED <<vault, library, queue, shelf, faults, ghosts>>

\* Mutant of PushRecord: the hash of the text as it is by now, not as sent.
RecordAsItIs(d) ==
  /\ Finish(d, "record")
  /\ IF d \in held THEN PutLink(d, op[d].rev, text[d])
                   ELSE UNCHANGED <<linked, base, last>>
  /\ UNCHANGED <<vault, held, text, queue, shelf, faults, ghosts>>

\* recordPushed.  The row refers to the project: deleted meanwhile, it fails.
PushRecord(d) ==
  /\ Finish(d, "record")
  /\ IF d \in held THEN PutLink(d, op[d].rev, op[d].words)
                   ELSE UNCHANGED <<linked, base, last>>
  /\ UNCHANGED <<vault, held, text, queue, shelf, faults, ghosts>>

-----------------------------------------------------------------------------
(* pull *)

\* target, Revisions and fetch: what a pull may come away with.  What a
\* revision holds never changes, so the download is one step; a marker has
\* nothing to fetch.  Only a writer asks for a revision other than the head.
Fetched(auto, force) ==
  {[Idle EXCEPT !.pc = "check", !.auto = auto, !.decided = force,
                !.words = Body(r), !.rev = HeadRev, !.atHead = (r = HeadRev)] :
     r \in {i \in 1 .. HeadRev : Alive(i) /\ (auto \/ force => i = HeadRev)}}

\* Pull, and ResolveConflict answered take_remote (force, keeping a copy).
BeginPull(d, force) ==
  /\ d \in Manual
  /\ \E o \in Fetched(FALSE, force) : Begin(d, o)
  /\ UNCHANGED <<vault, library, queue, shelf, faults, ghosts>>

PullOpen(d) ==
  /\ op[d].pc = "open"
  /\ \E o \in IF Alive(HeadRev) THEN Fetched(TRUE, FALSE) ELSE {Idle} :
       op' = [op EXCEPT ![d] = o]
  /\ UNCHANGED <<vault, library, queue, shelf, faults, ghosts>>

\* Mutant of Acceptable: a work without a link has nothing to protect.
AcceptableUnlinked(d) ==
  \/ op[d].decided \/ d \notin linked \/ text[d] \in {last[d], op[d].words}

\* refuseIfChanged, unless the writer has chosen already.
Acceptable(d) ==
  \/ op[d].decided \/ ~Changed(d) \/ text[d] = op[d].words

PullCheck(d) ==
  /\ op[d].pc = "check"
  /\ op' = [op EXCEPT ![d] =
       CASE d \notin held       -> [@ EXCEPT !.pc = "apply"]
         [] d \in held /\ Acceptable(d) -> [@ EXCEPT !.pc = "snapshot"]
         [] d \in held /\ ~Acceptable(d) /\ OnlyNewlyCarried(d) ->
              [@ EXCEPT !.pc = "snapshot", !.merge = TRUE]
         [] OTHER -> Idle]
  /\ UNCHANGED <<vault, library, queue, shelf, faults, ghosts>>

\* Mutant of PullSnapshot: the snapshot is of what the pull brings.
SnapshotOfBundle(d) ==
  /\ Goto(d, "snapshot", "apply")
  /\ kept' = [kept EXCEPT ![d] = @ \cup op[d].words]
  /\ today' = [today EXCEPT ![d] = TRUE]
  /\ UNCHANGED <<vault, library, queue, faults, ghosts>>

\* snapshotBeforePull, and keepCopy, which clones out of that snapshot.
PullSnapshot(d) ==
  /\ Goto(d, "snapshot", "apply")
  /\ IF op[d].auto /\ today[d]
       THEN UNCHANGED shelf
       ELSE /\ kept' = [kept EXCEPT ![d] = @ \cup text[d]]
            /\ today' = [today EXCEPT ![d] = TRUE]
  /\ UNCHANGED <<vault, library, queue, faults, ghosts>>

\* applyBundle: the rows and the link in one transaction.  The link's hash is
\* the head's even when an older revision was asked for; reading that digest
\* anew may find a later head.
PullApply(d) ==
  LET new == IF op[d].merge THEN op[d].words \cup (text[d] \cap Conversation)
                            ELSE op[d].words
  IN /\ op[d].pc = "apply"
     /\ held' = held \cup {d}
     /\ text' = [text EXCEPT ![d] = new]
     /\ IF op[d].atHead
          THEN /\ PutLink(d, op[d].rev, op[d].words)
               /\ op' = [op EXCEPT ![d].pc = "rehash"]
               /\ UNCHANGED discarded
          ELSE /\ \E r \in op[d].rev .. HeadRev : PutLink(d, op[d].rev, Body(r))
               /\ op' = [op EXCEPT ![d] = Idle]
               /\ discarded' = discarded \cup (Body(op[d].rev) \ new)
     /\ UNCHANGED <<hist, queue, shelf, faults, ghosts>>

\* finishPull: the work is exported again and that hash recorded, unless rows
\* were merged.  A work deleted since has nothing to export.
PullRehash(d) ==
  /\ Finish(d, "rehash")
  /\ IF d \in held
       THEN PutLink(d, op[d].rev,
                    IF op[d].merge THEN op[d].words ELSE text[d])
       ELSE UNCHANGED <<linked, base, last>>
  /\ UNCHANGED <<vault, held, text, queue, shelf, faults, ghosts>>

-----------------------------------------------------------------------------
(* SyncAll *)

\* Mutant of BeginMarker: it names the number it is about to get.
BeginMarkerOnNext(d) ==
  /\ d \in pending
  /\ Begin(d, [Idle EXCEPT !.pc = "marker", !.auto = TRUE, !.rev = HeadRev + 1])
  /\ UNCHANGED <<vault, library, queue, shelf, faults, ghosts>>

\* flushDeletions: a marker on top of whatever the head is by now.
BeginMarker(d) ==
  /\ d \in pending
  /\ Begin(d, [Idle EXCEPT !.pc = "marker", !.auto = TRUE, !.rev = HeadRev])
  /\ UNCHANGED <<vault, library, queue, shelf, faults, ghosts>>

MarkerCommit(d) ==
  /\ op[d].pc = "marker" /\ HeadRev = op[d].rev /\ HeadRev < MaxRevision
  /\ Commit(d, FALSE, {})
  /\ discarded' = discarded \cup Body(HeadRev)
  /\ \/ /\ pending' = pending \ {d}
        /\ op' = [op EXCEPT ![d].pc = "scan"]
        /\ UNCHANGED faults
     \/ /\ faults < MaxFaults
        /\ faults' = faults + 1
        /\ op' = [op EXCEPT ![d] = Idle]
        /\ UNCHANGED pending
  /\ UNCHANGED <<library, leaving, shelf, ghosts>>

\* Another device moved the item: the next run goes on top of that.
MarkerRefused(d) ==
  /\ op[d].pc = "marker" /\ HeadRev # op[d].rev
  /\ op' = [op EXCEPT ![d].pc = "scan"]
  /\ UNCHANGED <<vault, library, queue, shelf, faults, ghosts>>

\* scanRemote.  An item with a deletion queued is left out of the run.  An
\* item no work here claims is pulled, unless its head is a marker.
Scan(d) ==
  /\ op[d].pc = "scan" \/ (op[d] = Idle /\ d \notin pending)
  /\ op' = [op EXCEPT ![d] =
       CASE d \in held /\ d \notin pending ->
              [Idle EXCEPT !.pc = "decide", !.auto = TRUE, !.rev = HeadRev]
         [] d \notin held /\ d \notin pending /\ Alive(HeadRev) ->
              [Idle EXCEPT !.pc = "open", !.auto = TRUE]
         [] OTHER -> Idle]
  /\ UNCHANGED <<vault, library, queue, shelf, faults, ghosts>>

\* compare, against the head the scan saw.  A manifest read for that head may
\* be of one that came after the list of items; an item not listed has none.
Seen(d) == IF op[d].rev = 0 THEN {} ELSE op[d].rev .. HeadRev
SameHead(d) == op[d].rev = Base(d)
Matches(d, r) == Alive(r) /\ text[d] = Body(r)
BothMoved(d) == ~SameHead(d) /\ Changed(d)

\* Mutant of IsMarker: a deletion is taken only by a work nobody changed.
IsMarkerIfUnchanged(d, r) == ~Alive(r) /\ ~Changed(d)

IsMarker(d, r) == ~Alive(r) /\ ~(d \in linked /\ SameHead(d))

LocalChanges(d) == SameHead(d) /\ Changed(d)
RemoteChanges(d, r) ==
  /\ ~SameHead(d)
  /\ ~Changed(d) \/ (~Matches(d, r) /\ OnlyNewlyCarried(d))

\* A work not uploaded, or changed only here, and settled: push.
DecidePush(d) ==
  /\ op[d].pc = "decide" /\ d \in held
  /\ LocalChanges(d)
  /\ op' = [op EXCEPT ![d] = Exported(d, FALSE)]
  /\ UNCHANGED <<vault, library, queue, shelf, faults, ghosts>>

\* Changed only there, and not on screen: pull.
DecidePull(d) ==
  /\ op[d].pc = "decide" /\ d \in held
  /\ \E r \in Seen(d) : ~IsMarker(d, r) /\ RemoteChanges(d, r)
  /\ op' = [op EXCEPT ![d].pc = "open", ![d].rev = 0]
  /\ UNCHANGED <<vault, library, queue, shelf, faults, ghosts>>

\* A work deleted since the scan began claims its item no more, and the queue
\* was read before: the item is taken for one to download.
DecideBack(d) ==
  /\ op[d].pc = "decide" /\ d \notin held
  /\ \E r \in Seen(d) : Alive(r)
  /\ op' = [op EXCEPT ![d].pc = "open", ![d].rev = 0]
  /\ UNCHANGED <<vault, library, queue, shelf, faults, ghosts>>

\* Both moved and arrived at the same text: only the link changes.
DecideMatch(d) ==
  /\ d \in held /\ BothMoved(d)
  /\ \E r \in Seen(d) : Matches(d, r)
  /\ Finish(d, "decide")
  /\ PutLink(d, op[d].rev, text[d])
  /\ UNCHANGED <<vault, held, text, queue, shelf, faults, ghosts>>

\* Mutant of DecideArchive: a deletion made elsewhere deletes the work here.
DecideDelete(d) ==
  /\ d \in held
  /\ \E r \in Seen(d) : IsMarker(d, r)
  /\ Finish(d, "decide")
  /\ held' = held \ {d}
  /\ linked' = linked \ {d}
  /\ text' = [text EXCEPT ![d] = {}]
  /\ UNCHANGED <<vault, base, last, queue, shelf, faults, ghosts>>

\* takeDeletion: the work is archived where it stands, and the link moves to
\* the marker with the hash of the text as it is, sent or not.
DecideArchive(d) ==
  /\ d \in held
  /\ \E r \in Seen(d) : IsMarker(d, r)
  /\ Finish(d, "decide")
  /\ PutLink(d, op[d].rev, text[d])
  /\ forfeited' = forfeited \cup Unsent(d)
  /\ UNCHANGED <<vault, held, text, queue, shelf, faults, written>>

\* In step, in conflict, deleted meanwhile, or put off: not settled, on
\* screen, or an agent at work.
DecideNothing(d) ==
  /\ Finish(d, "decide")
  /\ UNCHANGED <<vault, library, queue, shelf, faults, ghosts>>

\* A lost connection, a database error, a cancelled run or a crash: what was
\* done stays done, and the rest of the operation does not happen.
Abort(d) ==
  /\ op[d].pc # "idle" /\ faults < MaxFaults
  /\ op' = [op EXCEPT ![d] = Idle]
  /\ faults' = faults + 1
  /\ UNCHANGED <<vault, library, queue, shelf, ghosts>>

-----------------------------------------------------------------------------
Push(d) == \/ PushResolve(d) \/ PushMatch(d) \/ PushCommit(d)
           \/ PushRefused(d) \/ PushRecord(d)

Pull(d) == \/ PullOpen(d) \/ PullCheck(d) \/ PullSnapshot(d)
           \/ PullApply(d) \/ PullRehash(d)

Marker(d) == BeginMarker(d) \/ MarkerCommit(d) \/ MarkerRefused(d)

Settle(d) == \/ DecidePush(d) \/ DecidePull(d)
             \/ DecideMatch(d) \/ DecideArchive(d)

Sync(d) == Scan(d) \/ Settle(d) \/ DecideBack(d) \/ DecideNothing(d)

Writer(d) ==
  \/ \E w \in Words : Write(d, w)
  \/ QueueDeletion(d) \/ DeleteRow(d)
  \/ \E choice \in BOOLEAN : BeginPush(d, choice) \/ BeginPull(d, choice)

Step(d) == \/ Writer(d) \/ Push(d) \/ Pull(d) \/ Marker(d) \/ Sync(d)
           \/ NextDay(d) \/ DeleteFails(d) \/ Abort(d)

Next == \E d \in Devices : Step(d)

Spec == Init /\ [][Next]_vars

\* The runner calls SyncAll for as long as the engine runs, an operation once
\* begun goes on, and a handler that queued a deletion goes on to the row.  A
\* run may put a work off while it is on screen, unsettled or under an agent;
\* nobody keeps it so for good, so a decision open again and again is taken.
Fairness == \A d \in Devices :
  /\ WF_vars(Push(d) \/ Pull(d) \/ Marker(d) \/ Sync(d))
  /\ SF_vars(Settle(d))
  /\ WF_vars(DeleteRow(d))

LiveSpec == Spec /\ Fairness

-----------------------------------------------------------------------------
(* Properties *)

Revision == [alive : BOOLEAN, words : SUBSET Words, by : Devices]

Operation ==
  [pc : Steps, auto : BOOLEAN, decided : BOOLEAN, words : SUBSET Words,
   rev : Nat, atHead : BOOLEAN, merge : BOOLEAN]

\* What each variable holds, over every step of service.go and auto.go.
TypeOK ==
  /\ hist \in Seq(Revision)
  /\ held \in SUBSET Devices
  /\ text \in [Devices -> SUBSET Words]
  /\ linked \in SUBSET Devices
  /\ base \in [Devices -> Nat]
  /\ last \in [Devices -> SUBSET Words]
  /\ pending \in SUBSET Devices
  /\ leaving \in SUBSET Devices
  /\ kept \in [Devices -> SUBSET Words]
  /\ today \in [Devices -> BOOLEAN]
  /\ op \in [Devices -> Operation]
  /\ \A d \in Devices : op[d].rev <= HeadRev
  /\ faults \in Nat
  /\ written \in SUBSET Words
  /\ forfeited \in SUBSET Words
  /\ discarded \in SUBSET Words

Stored == {w \in Words : \E r \in 1 .. HeadRev : w \in Body(r)}
Shelved == {w \in Words : \E d \in Devices : w \in kept[d]}
OnScreen == {w \in Words : \E d \in Devices : w \in text[d]}

\* What can be opened, or was given up, whatever happens to the libraries' rows.
Safe == Stored \cup Shelved \cup forfeited

\* Every word ever written can still be opened: in the work on some device,
\* in a revision of the vault, in a snapshot or in a kept copy.  The words
\* excepted are those written in the steps of a pull that look at the text no
\* more (Exposed), those unsent when a marker is taken, and those unsent in a
\* work the writer deletes.  (service.go pull, auto.go takeDeletion)
NoWordLost ==
  written \subseteq OnScreen \cup Stored \cup Shelved \cup forfeited

\* Step by step: pushes, pulls, markers and deletions, cut off anywhere, only
\* move words, from a device to where they are safe and from there to devices;
\* none leaves a device before it is safe, and none comes from nowhere.
\* (service.go push, pull)
Copies == INSTANCE WordCopies WITH copy <- text, safe <- Safe
MovesWords == Copies!Spec

\* No device undoes what it never saw: whatever an earlier revision has and a
\* later one lacks was taken out by a writer's answer to a conflict, a marker,
\* or an older revision asked for.  (service.go push, send)
NoLostUpdate ==
  \A i \in DOMAIN hist : \A j \in i .. HeadRev :
    hist[i].words \ hist[j].words \subseteq discarded

\* A work whose link reads as in step with a living head is that head, word
\* for word.  What finishPull leaves out of the hash must go up with the next
\* push.  (service.go finishPull, recordPushed, compare)
InStep ==
  \A d \in linked :
    base[d] = HeadRev /\ Alive(HeadRev) /\ text[d] = last[d]
      => text[d] = Body(HeadRev)

\* A pull that goes ahead without the writer's word replaces nothing but text
\* that the vault holds, or that was given up when a marker was taken.
\* (service.go refuseIfChanged, auto.go takeDeletion)
PullSparesUnsent ==
  [][\A d \in Devices :
       /\ op[d].pc = "check" /\ op[d]'.pc = "snapshot" /\ d \in held
       /\ ~op[d].decided /\ ~op[d]'.merge
       => text[d] \subseteq Stored \cup forfeited]_vars

\* An automatic pull replaces a work only while it is what was last synced, or
\* what it is replaced with.  (auto.go snapshotBeforePull)
AutoPullReplacesUnchanged ==
  [][\A d \in held :
       /\ op[d].pc = "apply" /\ op[d].auto /\ ~op[d].merge
       /\ op[d]'.pc = "rehash"
       => ~Changed(d) \/ text[d] = op[d].words]_vars

\* A work at rest without a link has no revision of its own in the vault, so
\* its deletion needs no marker.  (auto.go QueueDeletion)
NoLinkNeverLeft ==
  \A d \in held \ linked :
    op[d] = Idle => \A r \in 1 .. HeadRev : hist[r].by # d

\* While a deletion waits for its marker, no run brings the work back.
\* (auto.go scanRemote)
DeletedStaysGone ==
  [][\A d \in pending \ held : op[d].auto => d \notin held']_vars

\* With nobody writing any more, the runs alone bring every device to the head
\* of the vault, leave it in a conflict only the writer can answer, or leave it
\* without a work that is gone from the vault; and no deletion stays queued.
\* (auto.go SyncAll)
InSync(d) ==
  /\ d \in linked /\ base[d] = HeadRev /\ text[d] = last[d]
  /\ Alive(HeadRev) => text[d] = Body(HeadRev)

Stuck(d) ==
  /\ d \in held /\ Alive(HeadRev) /\ Base(d) # HeadRev
  /\ Changed(d) /\ text[d] # Body(HeadRev)

Settles ==
  <>[](\A d \in Devices :
         /\ d \notin pending
         /\ \/ d \in held /\ (InSync(d) \/ Stuck(d))
            \/ d \notin held /\ ~Alive(HeadRev))

=============================================================================
