------------------------------ MODULE SceneText ------------------------------
(***************************************************************************)
(* One scene's text, everyone who writes it, and the summary kept of it.   *)
(*                                                                         *)
(* A scene is a row with its text, a content version that every write of   *)
(* the text moves on by one, and a summary with the version it was made    *)
(* for.  It is written by                                                  *)
(*   - the workspace's editor: typing, a save put off for a moment         *)
(*     (debouncedSave), a queue that sends one save at a time with the     *)
(*     version it believes in (SceneSaveQueue), and a reload when an agent *)
(*     has written (useMcpChanges);                                        *)
(*   - requests the engine runs side by side, each a read of the row, often*)
(*     a snapshot, and a write: an agent's scene (write), a replacement    *)
(*     across scenes (revise), a return to a snapshot (restore), and the   *)
(*     linking of names in the whole work (relink);                        *)
(*   - for the summary, an agent (summary), the summarizer's queue and the *)
(*     refresh a brief asks for.                                           *)
(* The database has one connection: a statement, or one transaction, is    *)
(* a step, and anything may come in between two of them.                   *)
(***************************************************************************)
EXTENDS Naturals, Sequences, FiniteSets, Functions

CONSTANTS
    Words,       \* the words that can be typed or written, each but once
    Old, New,    \* the word a replacement looks for, and what it puts there
    Calls,       \* requests the engine has under way at the same time
    MaxMoves,    \* bound: words typed in the editor, and requests made
    QueueSize    \* room in the summarizer's queue (256 in the code)

ASSUME SceneAssumption ==
    /\ Old # New
    /\ {Old, New} \cap Words = {}
    /\ "nothing" \notin Words \cup {Old, New}
    /\ MaxMoves \in Nat
    /\ QueueSize \in Nat \ {0}

Text   == SUBSET (Words \cup {Old, New})
NoText == {"nothing"}
Summarizers == {"queue", "brief"}

\* The requests that name the version they replace, and those that do not.
Versioned   == {"write", "revise"}
Unversioned == {"restore", "relink"}
Kinds       == Versioned \cup Unversioned \cup {"summary"}

VARIABLES
    text,     \* nodes.content_doc
    ver,      \* nodes.content_version
    sum,      \* nodes.summary, summary_for_version and summary_written
    snaps,    \* the texts in node_snapshots
    editor,   \* the document on screen, and what is known of it
    late,     \* the document the debounce timer holds, or NoDoc
    saves,    \* the scene's tail in the save queue, its head under way
    expects,  \* the version the save queue believes in
    notice,   \* what the editor has been told of an agent's write
    reload,   \* the answer to a nodes.get, until it is put on screen
    call,     \* the requests under way
    queue,    \* the summarizer's queue, and whether it lost this scene's turn
    reading,  \* what a summarizer has read and not yet summed up
    by,       \* who wrote the text last
    used      \* words used, and how many were typed or requests made so far

vars == <<text, ver, sum, snaps, editor, late, saves, expects, notice, reload,
          call, queue, reading, by, used>>

row    == <<text, ver, by>>
window == <<editor, late, saves, expects, notice, reload>>

\* A document the editor made, the version of the scene it was made from, and
\* whether the editor has not been mounted anew since.
Doc(t, v) == [text |-> t, base |-> v, shown |-> TRUE]
NoDoc  == [text |-> NoText, base |-> 0, shown |-> FALSE]
NoBody == [maker |-> "nobody", of |-> {}]
Idle   == [kind |-> "none", pc |-> "idle", text |-> {}, ver |-> 0, sum |-> NoBody]
NoRead == [text |-> NoText, ver |-> 0]

\* A summary is a cut of some text, or an agent's own words about it.
Body(maker, t) == [maker |-> maker, of |-> t]
NoSummary == [body |-> NoBody, for |-> 0, written |-> FALSE]

\* node.SummaryFresh, and what keeps the summarizer away (summarizeOneDepth).
Fresh    == sum.body # NoBody /\ sum.for = ver
LeftAlone == Fresh \/ (sum.body # NoBody /\ sum.written)

Unused == Words \ used.words

Init ==
    /\ text = {Old} /\ ver = 0 /\ by = "editor"
    /\ sum = NoSummary /\ snaps = {}
    /\ editor = [text |-> {Old}, base |-> 0, shown |-> TRUE, dirty |-> FALSE]
    /\ late = NoDoc /\ saves = <<>> /\ expects = 0
    /\ notice = "none" /\ reload = NoRead
    /\ call = [c \in Calls |-> Idle]
    /\ queue = [line |-> <<>>, lost |-> FALSE] /\ reading = [s \in Summarizers |-> NoRead]
    /\ used = [words |-> {}, moves |-> 0]

-----------------------------------------------------------------------------
(* The row. *)

\* updateContent: the text, and the version one on.
WriteText(t, who) == text' = t /\ ver' = ver + 1 /\ by' = who

\* snapshot.Create, CreateIfChanged: the text as it stands is kept.
\* Mutant of KeepText: a scene with a snapshot is not kept again.
KeepFirst == snaps' = IF snaps = {} THEN {text} ELSE snaps
KeepText == snaps' = snaps \cup {text}

\* Mutant of Enqueue: a scene that is being read is not enqueued again.
EnqueueOnce ==
    queue' = IF reading["queue"] # NoRead THEN queue
             ELSE IF Len(queue.line) < QueueSize
             THEN [line |-> Append(queue.line, "this"), lost |-> FALSE]
             ELSE [queue EXCEPT !.lost = @ \/ "this" \notin Range(queue.line)]

\* summarizer.Enqueue: one queue for all scenes, and when it is full this one
\* is dropped, which costs nothing only while it stands in the queue already.
Enqueue ==
    queue' = IF Len(queue.line) < QueueSize
             THEN [line |-> Append(queue.line, "this"), lost |-> FALSE]
             ELSE [queue EXCEPT !.lost = @ \/ "this" \notin Range(queue.line)]

SetSummary(body, v, isWritten) ==
    sum' = [body |-> body, for |-> v, written |-> isWritten]

-----------------------------------------------------------------------------
(* The editor. *)

\* onChange: the timer now holds the new document; a save already on its way
\* no longer covers the buffer (editRevisionRef).
Type ==
    /\ used.moves < MaxMoves
    /\ \E w \in Unused :
        /\ editor' = [editor EXCEPT !.text = @ \cup {w}, !.dirty = TRUE]
        /\ late' = Doc(editor.text \cup {w}, editor.base)
        /\ used' = [used EXCEPT !.words = @ \cup {w}, !.moves = @ + 1]
    /\ saves' = [i \in DOMAIN saves |-> [saves[i] EXCEPT !.covers = FALSE]]
    /\ UNCHANGED <<row, sum, snaps, expects, notice, reload, call, queue, reading>>

\* The timer runs out, or is flushed: saveNow hands the document to the queue.
Fire ==
    /\ late # NoDoc
    /\ saves' = Append(saves, [doc |-> late, pc |-> "waits", names |-> 0, covers |-> TRUE])
    /\ late' = NoDoc
    /\ UNCHANGED <<row, sum, snaps, editor, expects, notice, reload, call, queue,
                   reading, used>>

\* SceneSaveQueue.save: the head of the tail goes out, naming the version the
\* queue believes in at this moment.
Send ==
    /\ saves # <<>> /\ Head(saves).pc = "waits"
    /\ saves' = [saves EXCEPT ![1].pc = "sent", ![1].names = expects]
    /\ UNCHANGED <<row, sum, snaps, editor, late, expects, notice, reload, call,
                   queue, reading, used>>

\* A document typed after the one that is saved, on the same mount, holds what
\* that save has just written.
Follows(doc) ==
    LET saved == Head(saves).doc IN
    IF saved.shown /\ doc.shown /\ doc.base = saved.base
    THEN [doc EXCEPT !.base = ver + 1] ELSE doc

\* UpdateNodeContent up to its commit: UpdateContentIfVersion.
SaveCommits ==
    /\ saves # <<>> /\ Head(saves).pc = "sent" /\ Head(saves).names = ver
    /\ WriteText(Head(saves).doc.text, "editor")
    /\ saves' = [i \in DOMAIN saves |->
                   IF i = 1 THEN [saves[1] EXCEPT !.pc = "written"]
                   ELSE [saves[i] EXCEPT !.doc = Follows(@)]]
    /\ editor' = Follows(editor)
    /\ late' = Follows(late)
    /\ UNCHANGED <<sum, snaps, expects, notice, reload, call, queue, reading, used>>

\* The version is another: the save is refused and the queue goes on.
SaveRefused ==
    /\ saves # <<>> /\ Head(saves).pc = "sent" /\ Head(saves).names # ver
    /\ saves' = Tail(saves)
    /\ UNCHANGED <<row, sum, snaps, editor, late, expects, notice, reload, call,
                   queue, reading, used>>

\* UpdateNodeContent after its commit reads the row for the answer, and the
\* queue takes that row's version (seed only ever goes up).
\* Mutant of Seed: the queue counts the version that comes next.
SeedNext(v) == expects' = IF v + 1 > expects THEN v + 1 ELSE expects
Seed(v) == expects' = IF v > expects THEN v ELSE expects

SaveAnswered ==
    /\ saves # <<>> /\ Head(saves).pc = "written"
    /\ Seed(ver)
    /\ editor' = [editor EXCEPT !.dirty = @ /\ ~Head(saves).covers]
    /\ saves' = Tail(saves)
    /\ Enqueue
    /\ UNCHANGED <<row, sum, snaps, late, notice, reload, call, reading, used>>

\* useMcpChanges: an agent's write reaches the editor. A buffer with unsaved
\* typing is kept and a banner shown; any other is read again.
Hear ==
    /\ notice = "event"
    /\ IF editor.dirty
       THEN notice' = "banner" /\ UNCHANGED reload
       ELSE notice' = "none" /\ reload' = [text |-> text, ver |-> ver]
    /\ UNCHANGED <<row, sum, snaps, editor, late, saves, expects, call, queue,
                   reading, used>>

\* The banner's two buttons: load what the agent wrote, or keep one's own.
Answer ==
    /\ notice = "banner"
    /\ notice' = "none"
    /\ \/ reload' = [text |-> text, ver |-> ver]
       \/ UNCHANGED reload
    /\ UNCHANGED <<row, sum, snaps, editor, late, saves, expects, call, queue,
                   reading, used>>

\* The editor mounted anew with version v: what the queue holds was typed on
\* another mount.
Mount(t, v) ==
    /\ editor' = [editor EXCEPT !.text = t, !.base = v]
    /\ saves' = [i \in DOMAIN saves |-> [saves[i] EXCEPT !.doc.shown = FALSE]]
    /\ Seed(v)

\* reloadSceneFromEngine, when nodes.get has answered: the editor is mounted
\* anew and the queue seeded. The timer and the queue keep what they hold.
Reloaded ==
    /\ reload # NoRead
    /\ Mount(reload.text, reload.ver)
    /\ late' = IF late = NoDoc THEN NoDoc ELSE [late EXCEPT !.shown = FALSE]
    /\ reload' = NoRead
    /\ UNCHANGED <<row, sum, snaps, notice, call, queue, reading, used>>

Editor == Type \/ Fire \/ Send \/ SaveCommits \/ SaveRefused \/ SaveAnswered
          \/ Hear \/ Answer \/ Reloaded

-----------------------------------------------------------------------------
(* Requests. *)

Start(c, kind, pc, t, s) ==
    /\ call[c] = Idle /\ used.moves < MaxMoves
    /\ call' = [call EXCEPT ![c] = [kind |-> kind, pc |-> pc, text |-> t,
                                    ver |-> ver, sum |-> s]]
    /\ used' = [used EXCEPT !.moves = @ + 1]

End(c) == call' = [call EXCEPT ![c] = Idle]
At(c, kind, pc) == call[c].kind = kind /\ call[c].pc = pc
Goes(c, pc) == call' = [call EXCEPT ![c].pc = pc]

\* linetta_read_scene, and linetta_write_scene with the version it returned:
\* a snapshot of the row as it stands, then the write if the version holds.
AgentReads(c) ==
    /\ Start(c, "write", "snapshot", text, NoBody)
    /\ UNCHANGED <<row, sum, snaps, window, queue, reading>>

AgentSnapshots(c) ==
    /\ At(c, "write", "snapshot")
    /\ KeepText
    /\ Goes(c, "write")
    /\ UNCHANGED <<row, sum, window, queue, reading, used>>

\* The agent adds to what it has read, or writes the scene anew.
AgentWrites(c) ==
    /\ At(c, "write", "write")
    /\ \/ /\ call[c].ver = ver
          /\ \E w \in Unused, kept \in {call[c].text, {}} :
              /\ WriteText(kept \cup {w}, "agent")
              /\ used' = [used EXCEPT !.words = @ \cup {w}]
          /\ Enqueue /\ notice' = "event"
       \/ /\ call[c].ver # ver
          /\ UNCHANGED <<row, used, queue, notice>>
    /\ End(c)
    /\ UNCHANGED <<sum, snaps, editor, late, saves, expects, reload, reading>>

\* PlanReplace: a scene that holds the word is a candidate at this version.
Plans(c) ==
    /\ Old \in text
    /\ Start(c, "revise", "look", {}, NoBody)
    /\ UNCHANGED <<row, sum, snaps, window, queue, reading>>

\* ApplyReplace up to its snapshot: the scene is as it was previewed.
ReplaceLooks(c) ==
    /\ At(c, "revise", "look")
    /\ \/ /\ call[c].ver = ver
          /\ KeepText
          /\ call' = [call EXCEPT ![c].pc = "write", ![c].text = text]
       \/ call[c].ver # ver /\ End(c) /\ UNCHANGED snaps
    /\ UNCHANGED <<row, sum, window, queue, reading, used>>

\* Its write: a save that landed since is a version mismatch all the same. An
\* agent's replacement tells the summarizer and the editor, the writer's own
\* does not.
ReplaceWrites(c) ==
    /\ At(c, "revise", "write")
    /\ \/ /\ call[c].ver = ver
          /\ LET new == (call[c].text \ {Old}) \cup {New} IN
             \/ WriteText(new, "agent") /\ Enqueue /\ notice' = "event"
             \/ WriteText(new, "revise") /\ UNCHANGED <<queue, notice>>
       \/ call[c].ver # ver /\ UNCHANGED <<row, queue, notice>>
    /\ End(c)
    /\ UNCHANGED <<sum, snaps, editor, late, saves, expects, reload, reading, used>>

\* RestoreSnapshot: the row is read and kept as a snapshot ...
RestoreReads(c) ==
    /\ \E old \in snaps : Start(c, "restore", "write", old, NoBody)
    /\ KeepText
    /\ UNCHANGED <<row, sum, window, queue, reading>>

\* ... then the snapshot's text is written over whatever is there: for an
\* agent's undo, which tells the summarizer and the editor, ...
RestoreWrites(c) ==
    /\ At(c, "restore", "write")
    /\ \/ WriteText(call[c].text, "agent") /\ Enqueue /\ notice' = "event" /\ End(c)
       \/ WriteText(call[c].text, "restore") /\ Goes(c, "show") /\ UNCHANGED <<queue, notice>>
    /\ UNCHANGED <<sum, snaps, editor, late, saves, expects, reload, reading, used>>

\* ... or from the version sheet: the row read for the answer goes on screen
\* (onRestored).
RestoreShown(c) ==
    /\ At(c, "restore", "show")
    /\ late' = NoDoc
    /\ Mount(text, ver)
    /\ End(c)
    /\ UNCHANGED <<row, sum, snaps, notice, reload, queue, reading, used>>

\* RelinkWork: every scene of the work is read at once ...
RelinkLists(c) ==
    /\ text # {}
    /\ Start(c, "relink", "write", text, IF Fresh THEN sum.body ELSE NoBody)
    /\ UNCHANGED <<row, sum, snaps, window, queue, reading>>

\* ... a scene with a name to link is written with the words it had then ...
RelinkWrites(c) ==
    /\ At(c, "relink", "write")
    /\ WriteText(call[c].text, "relink")
    /\ IF call[c].sum # NoBody THEN Goes(c, "get") ELSE End(c)
    /\ UNCHANGED <<sum, snaps, window, queue, reading, used>>

\* ... and the summary that was current is put to the version read back.
RelinkGets(c) ==
    /\ At(c, "relink", "get")
    /\ call' = [call EXCEPT ![c].pc = "sum", ![c].ver = ver]
    /\ UNCHANGED <<row, sum, snaps, window, queue, reading, used>>

RelinkSums(c) ==
    /\ At(c, "relink", "sum")
    /\ SetSummary(call[c].sum, call[c].ver, TRUE)
    /\ End(c)
    /\ UNCHANGED <<row, snaps, window, queue, reading, used>>

\* linetta_write_summary: the agent has read the scene, ...
SummaryReads(c) ==
    /\ Start(c, "summary", "check", text, NoBody)
    /\ UNCHANGED <<row, sum, snaps, window, queue, reading>>

\* ... it is refused when the scene is another by now, ...
SummaryChecked(c) ==
    /\ At(c, "summary", "check")
    /\ IF call[c].ver = ver THEN Goes(c, "write") ELSE End(c)
    /\ UNCHANGED <<row, sum, snaps, window, queue, reading, used>>

\* ... and the summary is written for the version it was written about.
SummaryWrites(c) ==
    /\ At(c, "summary", "write")
    /\ SetSummary(Body("agent", call[c].text), call[c].ver, TRUE)
    /\ End(c)
    /\ UNCHANGED <<row, snaps, window, queue, reading, used>>

Request(c) ==
    \/ AgentReads(c) \/ AgentSnapshots(c) \/ AgentWrites(c)
    \/ Plans(c) \/ ReplaceLooks(c) \/ ReplaceWrites(c)
    \/ RestoreReads(c) \/ RestoreWrites(c) \/ RestoreShown(c)
    \/ RelinkLists(c) \/ RelinkWrites(c) \/ RelinkGets(c) \/ RelinkSums(c)
    \/ SummaryReads(c) \/ SummaryChecked(c) \/ SummaryWrites(c)

-----------------------------------------------------------------------------
(* The summarizers: the one behind the queue, and RefreshNow in a brief. *)

\* A scene is saved or written somewhere else in the library.
OthersEnqueue ==
    /\ Len(queue.line) < QueueSize
    /\ queue' = [queue EXCEPT !.line = Append(@, "other")]
    /\ UNCHANGED <<row, sum, snaps, window, call, reading, used>>

\* The queue's goroutine has another scene's turn.
ServesOther ==
    /\ reading["queue"] = NoRead
    /\ queue.line # <<>> /\ Head(queue.line) = "other"
    /\ queue' = [queue EXCEPT !.line = Tail(@)]
    /\ UNCHANGED <<row, sum, snaps, window, call, reading, used>>

\* summarizeOneDepth: the row is read; a fresh or a written summary is left.
Takes(s) ==
    /\ reading[s] = NoRead
    /\ s = "queue" => queue.line # <<>> /\ Head(queue.line) = "this"
    /\ queue' = IF s = "queue" THEN [queue EXCEPT !.line = Tail(@)] ELSE queue
    /\ reading' = [reading EXCEPT ![s] =
                     IF LeftAlone \/ text = {} THEN NoRead
                     ELSE [text |-> text, ver |-> ver]]
    /\ s = "brief" => reading' # reading
    /\ UNCHANGED <<row, sum, snaps, window, call, used>>

\* Mutant of SumsUp: the summary is filed under the version of the moment.
SumsUpNow(s) ==
    /\ reading[s] # NoRead
    /\ SetSummary(Body("cut", reading[s].text), ver, FALSE)
    /\ reading' = [reading EXCEPT ![s] = NoRead]
    /\ UNCHANGED <<row, snaps, window, call, queue, used>>

\* summarizeLeaf's SetSummary, for the version that was read.
SumsUp(s) ==
    /\ reading[s] # NoRead
    /\ SetSummary(Body("cut", reading[s].text), reading[s].ver, FALSE)
    /\ reading' = [reading EXCEPT ![s] = NoRead]
    /\ UNCHANGED <<row, snaps, window, call, queue, used>>

\* The summary cannot be written: recordError, and nobody tries again.
SumFails ==
    /\ reading["queue"] # NoRead
    /\ reading' = [reading EXCEPT !["queue"] = NoRead]
    /\ queue' = [queue EXCEPT !.lost = "this" \notin Range(queue.line)]
    /\ UNCHANGED <<row, sum, snaps, window, call, used>>

Summarizer(s) == Takes(s) \/ SumsUp(s)

Next ==
    \/ Editor
    \/ \E c \in Calls : Request(c)
    \/ \E s \in Summarizers : Summarizer(s)
    \/ OthersEnqueue \/ ServesOther \/ SumFails

Spec == Init /\ [][Next]_vars

\* The queue's goroutine runs until the engine stops, and the engine answers a
\* save it has taken. Nobody has to type, to ask, or to want a brief.
FairSpec ==
    /\ Spec
    /\ WF_vars(Summarizer("queue") \/ ServesOther)
    /\ WF_vars(SaveAnswered)

-----------------------------------------------------------------------------
(* Properties. *)

ReadType == [text : Text, ver : Nat]
QueueType == {q \in [line : Seq({"this", "other"}), lost : BOOLEAN] : Len(q.line) <= QueueSize}
BodyType == [maker : {"cut", "agent"}, of : Text] \cup {NoBody}
DocType  == [text : Text, base : Nat, shown : BOOLEAN]
SaveType == [doc : DocType, pc : {"waits", "sent", "written"}, names : Nat,
             covers : BOOLEAN]
EditorType == [text : Text, base : Nat, shown : BOOLEAN, dirty : BOOLEAN]
UsedType == [words : SUBSET Words, moves : Nat]
CallType == [kind : Kinds \cup {"none"},
             pc : {"idle", "snapshot", "look", "write", "show", "get", "sum", "check"},
             text : Text, ver : Nat, sum : BodyType]

\* The variables have the types they are declared with, and no version that
\* anyone holds is ahead of the scene's own: versions only ever come from it.
TypeOK ==
    /\ text \in Text /\ ver \in Nat
    /\ by \in {"editor", "agent", "revise", "restore", "relink"}
    /\ sum \in [body : BodyType, for : Nat, written : BOOLEAN]
    /\ snaps \subseteq Text
    /\ editor \in EditorType
    /\ late \in DocType \cup {NoDoc} /\ saves \in Seq(SaveType) /\ expects \in 0..ver
    /\ notice \in {"none", "event", "banner"}
    /\ reload \in ReadType \cup {NoRead} /\ reload.ver <= ver
    /\ call \in [Calls -> CallType]
    /\ queue \in QueueType /\ reading \in [Summarizers -> ReadType \cup {NoRead}]
    /\ used \in UsedType

\* A summary Linetta cut itself and shows as fresh is a cut of the text the
\* scene has now: the version travels with the text it was read with, so a
\* save between the summarizer's read and its write leaves the summary stale.
FreshIsTrue ==
    (Fresh /\ ~sum.written) => sum.body.of = text

\* A word that was in the scene and is in it no longer is in a snapshot, so
\* nothing an editor, an agent or a replacement wrote is ever gone, with three
\* ways out and no other: a restore or a relink that writes over a version it
\* did not read, both unversioned; and a save that names a version its
\* document was not made from, because a reload or another writer's answer
\* moved the queue on past it.
WordsKept ==
    [][\A x \in text \ text' :
          \/ \E t \in snaps' : x \in t
          \/ \E c \in Calls : /\ call[c].kind \in Unversioned /\ call[c].pc = "write"
                             /\ call'[c] # call[c] /\ call[c].ver # ver
          \/ SaveCommits /\ Head(saves).names # Head(saves).doc.base]_vars

\* A scene that a save or an agent's write has brought before the summarizer
\* is summed up, or has a written summary, before long, unless a request that
\* does not tell the summarizer has written over it, or its last turn was lost
\* to a full queue of other scenes or a failed write: the version read grows
\* old only when another turn in the queue is to come.
Told == "this" \in Range(queue.line) \/ (saves # <<>> /\ Head(saves).pc = "written")
SummedUp == LeftAlone \/ text = {} \/ by \in {"revise", "restore", "relink"}
SummaryCatchesUp == Told ~> SummedUp \/ queue.lost

\* summarizer.go on Enqueue: a scene that a full queue drops is enqueued again
\* by a later save.
DroppedComesAgain == Told ~> SummedUp

\* node/repo.go on UpdateContentIfVersion: a delayed autosave does not write
\* over a newer restore, an agent's edit or another save.
SavesSpareOthers ==
    [][SaveCommits =>
          \A x \in text \ text' : \E t \in snaps' : x \in t]_vars

\* rpc/handlers/mentions.go on RelinkWork: the words do not change.
RelinkKeepsWords ==
    [][(\E c \in Calls : RelinkWrites(c)) => text' = text]_vars

\* summarizer.go: a summary an agent wrote is never overwritten by a cut.
WrittenStays ==
    [][(sum.written /\ sum.body.maker = "agent" /\ sum' # sum)
          => sum'.body.maker = "agent"]_vars

=============================================================================
