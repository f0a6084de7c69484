------------------------------ MODULE Proposals ------------------------------
(***************************************************************************)
(* The suggestion inbox (engine/internal/proposals): an agent submits      *)
(* batches of items, the writer or an agent accepts or rejects items, and  *)
(* the writer takes back what a forecast has put into the outline.         *)
(*                                                                         *)
(* An item is a scene for the outline, a beat of such a scene or a person  *)
(* (who stands for every item that depends on no other).  Accept applies   *)
(* the scenes of a proposal in one batch of storyops and everything else   *)
(* one by one, and writes down what it did in a statement of its own each; *)
(* Undo and the start of the engine write in transactions, with the        *)
(* outline put back in between.  Each statement, transaction or call of    *)
(* storyops is one step here, and the engine may stop between any two.     *)
(* (What goes on inside a batch of storyops is in module Outline.)         *)
(***************************************************************************)
EXTENDS Integers, Sequences, FiniteSets

CONSTANTS
    Callers,     \* those who may have a call under way, each one at a time
    Items,
    ProposalOf,  \* the proposal each item is in, ...
    Ordinal,     \* ... and its place there
    Sort,        \* "scene", "beat" or "person"
    Needs,       \* the item whose ref an item names, or NoItem
    NoItem,
    AnyOrder,    \* may a batch be undone when a later one has changed the outline
    Window,      \* maxUndoBatches
    MaxThings,   \* bound: records made in a behaviour; an id is a number
    MaxCalls,    \* bound: calls
    MaxOutside,  \* bound: what the writer and agents do elsewhere
    MaxFaults,   \* bound: stops of the engine and writes that fail
    MaxSteps     \* bound: all of these together

Engine    == "engine"   \* the start of the engine, as a caller
Submitted == {ProposalOf[i] : i \in Items}
In(q)     == {i \in Items : ProposalOf[i] = q}
Scene(i)  == Sort[i] = "scene"
Beat(i)   == Sort[i] = "beat"
Forecast(q) == \E i \in In(q) : Scene(i)    \* purpose = forecast

\* What Submit lets in: a ref names an item of the same proposal that declares one,
\* and a scene's anchor is a scene that comes earlier in it.
LetIn ==
    \A i \in Items :
        /\ Sort[i] \in {"scene", "beat", "person"}
        /\ Forecast(ProposalOf[i]) => Sort[i] # "person"
        /\ Needs[i] # NoItem => Needs[i] \in In(ProposalOf[i]) /\ ~Beat(Needs[i])
        /\ Scene(i) /\ Needs[i] # NoItem => Scene(Needs[i]) /\ Ordinal[Needs[i]] < Ordinal[i]
        /\ \A j \in In(ProposalOf[i]) \ {i} : Ordinal[j] # Ordinal[i]

\* declarationsFirst: what declares a ref, then what does not, each in ordinal order.
Earlier(i, j) == IF Beat(i) = Beat(j) THEN Ordinal[i] < Ordinal[j] ELSE Beat(j)
First(i, some) == i \in some /\ \A j \in some \ {i} : Earlier(i, j)

Statuses == {"pending", "accepted", "rejected", "failed", "reverting"}
Open(r)  == r.status \in {"pending", "failed"}    \* IsOpen
Things   == 1..MaxThings
Row      == [status : Statuses, made : Things \cup {0}, batch : Nat]

VARIABLES
    row,      \* story_proposal_items: status, the record made, the undo batch
    things,   \* the records there are, each with the item it is of
    ids,      \* how many ids were given out
    batches,  \* how many undo batches were made
    window,   \* the batches that changed the outline and were not undone, each with the
              \* scenes before it: those of Accept, while their undo window keeps them,
              \* and those of agents, which have a window of their own
    call,     \* the calls under way
    up,       \* has the engine started
    torn,     \* history: items whose call was cut off before it said what it did
    dropped,  \* history: records the writer has deleted
    spent     \* counters for the bounds

vars == <<row, things, ids, batches, window, call, up, torn, dropped, spent>>
elsewhere == <<torn, dropped, spent>>

Idle == [pc |-> "idle", want |-> {}, loose |-> {}, left |-> {},
         rows |-> [i \in Items |-> [status |-> "pending", made |-> 0, batch |-> 0]],
         todo |-> {}, marks |-> {}, tags |-> {}, batch |-> 0, items |-> {}]

Init ==
    /\ row = Idle.rows
    /\ things = <<>> /\ ids = 0 /\ batches = 0 /\ window = <<>>
    /\ call = [c \in Callers \cup {Engine} |-> Idle]
    /\ up = TRUE /\ torn = {} /\ dropped = {}
    /\ spent = [calls |-> 0, outside |-> 0, faults |-> 0]

Scenes == {t \in DOMAIN things : Scene(things[t].of)}
Of(i)  == {t \in DOMAIN things : things[t].of = i}
Thing(i, by) == [of |-> i, by |-> by]

StepsLeft == spent.calls + spent.outside + spent.faults < MaxSteps

\* A write fails, or the engine stops.
Fault ==
    /\ spent.faults < MaxFaults /\ StepsLeft
    /\ spent' = [spent EXCEPT !.faults = @ + 1]

Begin(c, rec) ==
    /\ up /\ c \in Callers /\ call[c].pc = "idle"
    /\ spent.calls < MaxCalls /\ StepsLeft
    /\ spent' = [spent EXCEPT !.calls = @ + 1]
    /\ call' = [call EXCEPT ![c] = rec]

-----------------------------------------------------------------------------
(* Accept *)

\* An edit of the writer's may leave out the ref an item names (loose).  It carries
\* the item's own ref along, as the inbox does ({ ...item.op, ...draft }): of a beat
\* whose edit has none, Accept writes no record down and Undo leaves the beat
\* (accept.go takes the ref over for people and threads only), which is left out.
BeginAccept(c) ==
    /\ \E want \in SUBSET {i \in Items : Open(row[i])} \ {{}} :
          \E loose \in SUBSET {i \in want : Beat(i)} :
             Begin(c, [Idle EXCEPT !.pc = "accept", !.want = want, !.loose = loose,
                                   !.left = {q \in Submitted : In(q) \cap want # {}}])
    /\ UNCHANGED <<row, things, ids, batches, window, up, torn, dropped>>

\* What the call has applied and not yet written down: the statuses, which say what
\* was made, and the undo batches.
Unwritten(c) == call[c].marks \cup call[c].tags
AtRest(c) == call[c].pc = "accept" /\ Unwritten(c) = {}

\* listItemsByProposal, once for each proposal: what is open now will be applied,
\* whatever becomes of the row in the meantime.
OpenProposal(c) ==
    /\ AtRest(c) /\ call[c].todo = {}
    /\ \E q \in call[c].left :
          LET wanted == {i \in In(q) \cap call[c].want : Open(row[i])}
          IN  call' = [call EXCEPT ![c] = [call[c] EXCEPT
                  !.left = @ \ {q}, !.rows = row, !.todo = wanted,
                  !.pc = IF \E i \in wanted : Scene(i) THEN "outline" ELSE @]]
    /\ UNCHANGED <<row, things, ids, batches, window, up, elsewhere>>

\* A ref stands for the record its item has made, if that was accepted.
Known(rows, i) == IF i # NoItem /\ rows[i].status = "accepted" THEN rows[i].made ELSE 0

Accepted(t, b) == [status |-> "accepted", made |-> t, batch |-> b]
Failed(r) == [r EXCEPT !.status = "failed", !.made = 0]

\* rememberChange: the oldest batch of Accept falls out of its full window.
\* Mutant of Fitted: it stays.
FittedAll(w) == w
Kept(w) == {k \in DOMAIN w : w[k].kept /\ w[k].batch # 0}
Fitted(w) ==
    IF Cardinality(Kept(w)) <= Window THEN w
    ELSE [w EXCEPT ![CHOOSE k \in Kept(w) : \A j \in Kept(w) : k <= j].kept = FALSE]
Change(b) == [batch |-> b, kept |-> TRUE, before |-> [t \in Scenes |-> things[t]]]
Remember ==
    /\ batches' = batches + 1
    /\ window' = Fitted(Append(window, Change(batches + 1)))

\* The scenes of a forecast, in one batch that works as a whole or not at all.
Structural(c) == {i \in call[c].todo : Scene(i)}
Fits(c) ==
    \A i \in Structural(c) : \/ Needs[i] = NoItem \/ Needs[i] \in Structural(c)
                             \/ Known(call[c].rows, Needs[i]) \in DOMAIN things

ApplyOutline(c) ==
    /\ call[c].pc = "outline" /\ Fits(c)
    /\ LET scenes == Structural(c)
           n      == Cardinality(scenes)
       IN  /\ ids + n <= MaxThings /\ ids' = ids + n
           /\ \E id \in [scenes -> ids + 1..ids + n] :
                 /\ \A i, j \in scenes : id[i] = id[j] => i = j
                 /\ things' = [t \in DOMAIN things \cup {id[i] : i \in scenes} |->
                                  IF t \in DOMAIN things THEN things[t]
                                  ELSE Thing(CHOOSE i \in scenes : id[i] = t, "accept")]
                 /\ call' = [call EXCEPT ![c] = [call[c] EXCEPT
                       !.pc = "accept", !.todo = @ \ scenes, !.marks = scenes, !.tags = scenes,
                       !.rows = [i \in Items |-> IF i \in scenes THEN Accepted(id[i], batches + 1) ELSE @[i]]]]
    /\ Remember
    /\ UNCHANGED <<row, up, elsewhere>>

RefuseOutline(c) ==
    /\ call[c].pc = "outline" /\ ~Fits(c)
    /\ LET scenes == Structural(c)
       IN  call' = [call EXCEPT ![c] = [call[c] EXCEPT
              !.pc = "accept", !.todo = @ \ scenes, !.marks = scenes,
              !.rows = [i \in Items |-> IF i \in scenes THEN Failed(@[i]) ELSE @[i]]]]
    /\ UNCHANGED <<row, things, ids, batches, window, up, elsewhere>>

\* The batch a beat rides: that of the scene whose ref it names.
\* Mutant of Rides: none.
RidesNone(rec, i) == 0
Rides(rec, i) ==
    IF Beat(i) /\ i \notin rec.loose /\ Needs[i] # NoItem THEN rec.rows[Needs[i]].batch ELSE 0

\* The next of the other items is applied, or fails.
Clashes(i) == Sort[i] = "person" /\ \E t \in Of(i) : things[t].by = "clash"
Grounded(c, i) ==
    i \in call[c].loose \/ Needs[i] = NoItem \/ Known(call[c].rows, Needs[i]) \in DOMAIN things
Applied(c, i, t) ==
    LET batch == IF Rides(call[c], i) # 0 THEN Rides(call[c], i) ELSE call[c].rows[i].batch
    IN  call' = [call EXCEPT ![c] = [call[c] EXCEPT !.todo = @ \ {i}, !.marks = {i},
                    !.tags = IF batch = 0 THEN {} ELSE {i}, !.rows[i] = Accepted(t, batch)]]

RefuseItem(c, i) ==
    /\ Clashes(i) \/ ~Grounded(c, i)
    /\ call' = [call EXCEPT ![c] = [call[c] EXCEPT !.todo = @ \ {i}, !.marks = {i}, !.rows[i] = Failed(@)]]
    /\ UNCHANGED <<things, ids>>

\* A person whose name is taken by a record of that kind becomes that record.
LinkItem(c, i) ==
    /\ Grounded(c, i) /\ ~Clashes(i) /\ Sort[i] = "person"
    /\ \E t \in Of(i) : Applied(c, i, t)
    /\ UNCHANGED <<things, ids>>

MakeItem(c, i) ==
    /\ Grounded(c, i) /\ (Sort[i] = "person" => Of(i) = {})
    /\ ids < MaxThings /\ ids' = ids + 1
    /\ things' = [t \in DOMAIN things \cup {ids'} |->
                     IF t \in DOMAIN things THEN things[t]
                     ELSE Thing(i, IF i \in call[c].loose THEN "loose" ELSE "accept")]
    /\ Applied(c, i, ids')

ApplyItem(c) ==
    /\ AtRest(c)
    /\ \E i \in call[c].todo :
          First(i, call[c].todo) /\ (RefuseItem(c, i) \/ LinkItem(c, i) \/ MakeItem(c, i))
    /\ UNCHANGED <<row, batches, window, up, elsewhere>>

\* updateItemStatus, then updateItemUndoBatch: by id, whatever the row says now.
Persist(c) ==
    /\ \E i \in Unwritten(c) : First(i, Unwritten(c)) /\
          LET said == call[c].rows[i] IN
          IF i \in call[c].marks
          THEN /\ row' = [row EXCEPT ![i] = [said EXCEPT !.batch = row[i].batch]]
               /\ call' = [call EXCEPT ![c].marks = @ \ {i}]
          ELSE /\ row' = [row EXCEPT ![i].batch = said.batch]
               /\ call' = [call EXCEPT ![c].tags = @ \ {i}]
    /\ UNCHANGED <<things, ids, batches, window, up, elsewhere>>

EndAccept(c) ==
    /\ AtRest(c) /\ call[c].todo = {} /\ call[c].left = {}
    /\ call' = [call EXCEPT ![c] = Idle]
    /\ UNCHANGED <<row, things, ids, batches, window, up, elsewhere>>

-----------------------------------------------------------------------------
(* Reject: the items are read, then a transaction rejects those that were open. *)

BeginReject(c) ==
    /\ \E want \in SUBSET Items \ {{}} :
          Begin(c, [Idle EXCEPT !.pc = "reject", !.rows = row,
                                !.want = {i \in want : Open(row[i])}])
    /\ UNCHANGED <<row, things, ids, batches, window, up, torn, dropped>>

Reject(c) ==
    /\ call[c].pc = "reject"
    /\ row' = [i \in Items |-> IF i \in call[c].want
                               THEN [row[i] EXCEPT !.status = "rejected", !.made = 0]
                               ELSE row[i]]
    /\ call' = [call EXCEPT ![c] = Idle]
    /\ UNCHANGED <<things, ids, batches, window, up, elsewhere>>

-----------------------------------------------------------------------------
(* Undo of a batch, by the inbox's button or by an agent that was told its id. *)

Without(w, k) == [n \in 1..Len(w) - 1 |-> IF n < k THEN w[n] ELSE w[n + 1]]
Places(b) == {k \in DOMAIN window : window[k].batch = b /\ window[k].kept}

BeginUndo(c) ==
    /\ \E b \in 1..batches :
          LET covered == {i \in Items : row[i].batch = b} IN
          /\ AnyOrder \/ \A k \in DOMAIN window : window[Len(window)].batch = b
          /\ covered # {}
          /\ Begin(c, [Idle EXCEPT !.pc = "revert", !.batch = b, !.rows = row, !.items = covered])
    /\ UNCHANGED <<row, things, ids, batches, window, up, torn, dropped>>

\* updateItemStatusOnly: what the items made stays written down.
\* Mutant of Reverting: as in every other change of status, it is not.
RevertingBare(r) == [r EXCEPT !.status = "reverting", !.made = 0]
Reverting(r) == [r EXCEPT !.status = "reverting"]

Revert(c) ==
    /\ call[c].pc = "revert"
    /\ row' = [i \in Items |-> IF i \in call[c].items THEN Reverting(row[i]) ELSE row[i]]
    /\ call' = [call EXCEPT ![c].pc = "undo"]
    /\ UNCHANGED <<things, ids, batches, window, up, elsewhere>>

\* storyops.UndoApply: the scenes are again what they were before the batch.
PutBack(k) ==
    LET before == window[k].before IN
    /\ things' = [t \in (DOMAIN things \ Scenes) \cup DOMAIN before |->
                     IF t \in DOMAIN before THEN before[t] ELSE things[t]]
    /\ window' = Without(window, k)

UndoApply(c) ==
    /\ call[c].pc = "undo"
    /\ \/ \E k \in Places(call[c].batch) :
             /\ PutBack(k)
             /\ call' = [call EXCEPT ![c].pc = "finish"]
             /\ UNCHANGED spent
       \/ /\ Places(call[c].batch) = {}    \* ErrUndoBatchNotFound
          /\ call' = [call EXCEPT ![c].pc = "check"]
          /\ UNCHANGED <<things, window, spent>>
       \/ /\ Fault                        \* any other error
          /\ call' = [call EXCEPT ![c].pc = "restore"]
          /\ UNCHANGED <<things, window>>
    /\ UNCHANGED <<row, ids, batches, up, torn, dropped>>

\* The start of the engine goes on to the next batch; an undo is over.
Return(c) == IF c = Engine THEN [Idle EXCEPT !.pc = "boot", !.left = call[c].left] ELSE Idle

\* reconcileBatch: if a scene of the batch is there, it was not taken back.
StillThere(scenes) == \E i \in scenes : row[i].made \in DOMAIN things

Check(c) ==
    /\ call[c].pc = "check"
    /\ LET items  == {i \in Items : row[i].batch = call[c].batch /\ row[i].status = "reverting"}
           scenes == {i \in items : Scene(i) /\ row[i].made # 0}
           next   == [call[c] EXCEPT !.items = items,
                          !.rows = [i \in Items |-> [row[i] EXCEPT !.status = "accepted"]]]
       IN  call' = [call EXCEPT ![c] =
                       IF scenes = {} THEN Return(c)
                       ELSE [next EXCEPT !.pc = IF StillThere(scenes) THEN "restore" ELSE "finish"]]
    /\ UNCHANGED <<row, things, ids, batches, window, up, elsewhere>>

\* restoreItems
Restore(c) ==
    /\ call[c].pc = "restore"
    /\ row' = [i \in Items |-> IF i \in call[c].items THEN call[c].rows[i] ELSE row[i]]
    /\ call' = [call EXCEPT ![c] = Return(c)]
    /\ UNCHANGED <<things, ids, batches, window, up, elsewhere>>

\* finalizeReverted: the beats go one by one, then the items are open again.
BeatsLeft(c) == {call[c].rows[i].made : i \in {j \in call[c].items : Beat(j)}} \cap DOMAIN things

DeleteBeat(c) ==
    /\ call[c].pc = "finish"
    /\ \E t \in BeatsLeft(c) : things' = [s \in DOMAIN things \ {t} |-> things[s]]
    /\ UNCHANGED <<row, ids, batches, window, call, up, elsewhere>>

Finish(c) ==
    /\ call[c].pc = "finish" /\ BeatsLeft(c) = {}
    /\ row' = [i \in Items |-> IF i \in call[c].items THEN Idle.rows[i] ELSE row[i]]
    /\ call' = [call EXCEPT ![c] = Return(c)]
    /\ UNCHANGED <<things, ids, batches, window, up, elsewhere>>

-----------------------------------------------------------------------------
(* Faults *)

\* A call is cut off, by a write that fails or with the engine: of what it has
\* applied, this much is not written down.
Unsaid(c) == Unwritten(c) \cup (IF c = Engine THEN call[c].items ELSE {})

\* A statement or a transaction of the call fails, which ends it.
Abort(c) ==
    /\ \/ Unwritten(c) # {} \/ call[c].pc \in {"reject", "revert", "restore"}
       \/ call[c].pc = "finish" /\ BeatsLeft(c) = {}
    /\ Fault
    /\ torn' = torn \cup Unsaid(c)
    /\ call' = [call EXCEPT ![c] = Return(c)]
    /\ UNCHANGED <<row, things, ids, batches, window, up, dropped>>

\* The engine stops: the calls and the undo window are gone.
Crash ==
    /\ Fault
    /\ torn' = torn \cup UNION {Unsaid(c) : c \in Callers}
    /\ call' = [c \in Callers \cup {Engine} |-> Idle]
    /\ window' = <<>> /\ up' = FALSE
    /\ UNCHANGED <<row, things, ids, batches, dropped>>

\* ReconcileReverting, before any request is served.
Boot ==
    /\ ~up /\ call[Engine].pc = "idle"
    /\ call' = [call EXCEPT ![Engine].pc = "boot",
                    ![Engine].left = {row[i].batch : i \in {j \in Items :
                                         row[j].status = "reverting"}} \ {0}]
    /\ UNCHANGED <<row, things, ids, batches, window, up, elsewhere>>

BootNext ==
    /\ call[Engine].pc = "boot"
    /\ \E b \in call[Engine].left :
          call' = [call EXCEPT ![Engine] = [call[Engine] EXCEPT !.pc = "check", !.batch = b, !.left = @ \ {b}]]
    /\ UNCHANGED <<row, things, ids, batches, window, up, elsewhere>>

Serve ==
    /\ call[Engine].pc = "boot" /\ call[Engine].left = {}
    /\ call' = [call EXCEPT ![Engine] = Idle]
    /\ up' = TRUE
    /\ UNCHANGED <<row, things, ids, batches, window, elsewhere>>

-----------------------------------------------------------------------------
(* Elsewhere in the engine *)

Outside ==
    /\ up /\ spent.outside < MaxOutside /\ StepsLeft
    /\ spent' = [spent EXCEPT !.outside = @ + 1]
    /\ UNCHANGED <<row, call, up, torn>>

\* The writer deletes a record; a beat outlives its scene (ON DELETE SET NULL).
Drop ==
    /\ \E t \in DOMAIN things :
          /\ things' = [s \in DOMAIN things \ {t} |-> things[s]]
          /\ dropped' = dropped \cup {t}
    /\ Outside /\ UNCHANGED <<ids, batches, window>>

\* The writer makes a record with the name of an item, of that kind or another.
Name ==
    /\ ids < MaxThings /\ ids' = ids + 1
    /\ \E i \in Items, by \in {"match", "clash"} :
          /\ Sort[i] = "person" /\ Of(i) = {}
          /\ things' = [t \in DOMAIN things \cup {ids + 1} |->
                           IF t = ids + 1 THEN Thing(i, by) ELSE things[t]]
    /\ Outside /\ UNCHANGED <<batches, window, dropped>>

\* An agent changes the outline in a batch of its own, in which a scene may go, ...
OtherBatch ==
    /\ AnyOrder \/ \A c \in Callers : call[c].batch = 0
    /\ window' = Append(window, Change(0))
    /\ \E gone \in {{}} \cup {{t} : t \in Scenes} :
          /\ things' = [s \in DOMAIN things \ gone |-> things[s]]
          /\ dropped' = dropped \cup gone
    /\ Outside /\ UNCHANGED <<ids, batches>>

\* ... and takes it back.
OtherUndo ==
    /\ up
    /\ \E k \in Places(0) : (AnyOrder \/ k = Len(window)) /\ PutBack(k)
    /\ UNCHANGED <<row, ids, batches, call, up, elsewhere>>

Step(c) ==
    \/ OpenProposal(c) \/ ApplyOutline(c) \/ RefuseOutline(c) \/ ApplyItem(c) \/ Persist(c) \/ EndAccept(c)
    \/ Reject(c)
    \/ Revert(c) \/ UndoApply(c) \/ Check(c) \/ Restore(c) \/ DeleteBeat(c) \/ Finish(c)

Next ==
    \/ \E c \in Callers : BeginAccept(c) \/ BeginReject(c) \/ BeginUndo(c)
    \/ \E c \in Callers \cup {Engine} : Step(c) \/ Abort(c)
    \/ Crash \/ Boot \/ BootNext \/ Serve
    \/ Drop \/ Name \/ OtherBatch \/ OtherUndo

Spec == Init /\ [][Next]_vars

-----------------------------------------------------------------------------
(* Properties *)

\* Every variable has its type.
TypeOK ==
    /\ row \in [Items -> Row]
    /\ ids \in 0..MaxThings /\ DOMAIN things \subseteq 1..ids
    /\ \A t \in DOMAIN things : things[t] \in [of : Items, by : {"accept", "loose", "match", "clash"}]
    /\ batches \in Nat
    /\ \A k \in DOMAIN window : window[k].batch \in 0..batches
    /\ Cardinality(Kept(window)) <= Window
    /\ \A i \in Items : row[i].batch <= batches
    /\ up \in BOOLEAN /\ torn \subseteq Items /\ dropped \subseteq Things

\* When no call is under way the inbox tells the truth (accept.go: it "must never
\* tell the caller an item is accepted when the row behind it still reads pending",
\* and undo.go's three steps).  Of an item that is open or rejected the work holds
\* nothing; of an accepted one it holds one record, or none if the writer has
\* deleted it; and no beat stands in a scene whose item is open.  Nothing is said of
\* an item whose call was cut off between applying it and writing that down.
InboxIsTrue ==
    (up /\ \A c \in Callers : call[c].pc = "idle") =>
        \A i \in Items \ torn :
            LET made == {t \in Of(i) : things[t].by \in {"accept", "loose"}} IN
            /\ Open(row[i]) \/ row[i].status = "rejected" => made = {}
            /\ row[i].status = "accepted" =>
                  /\ Cardinality(made) <= 1
                  /\ row[i].made \in DOMAIN things \cup dropped
            /\ Beat(i) /\ Needs[i] \in Items \ torn /\ Open(row[Needs[i]]) =>
                  \A t \in made : things[t].by = "loose"

\* The two together: the inbox and what it stands for, at any moment.
Honest == TypeOK /\ InboxIsTrue

\* An undo that was cut off anywhere is settled when the engine serves again: no
\* item is left reverting, where neither Accept nor Reject would touch it (but for
\* those a write of the start itself failed for).
StartSettles == [][Serve => \A i \in Items \ torn : row[i].status # "reverting"]_vars

\* undo.go: "Undo reverts one purpose=forecast structural batch": no other scene goes.
UndoTakesItsOwn ==
    [][\A c \in Callers : UndoApply(c) =>
         \A t \in Scenes : row[things[t].of].batch # call[c].batch => t \in DOMAIN things']_vars

\* accept.go: "Only accepted and rejected are terminal".
RejectedStays ==
    [][\A i \in Items : row[i].status = "rejected" => row'[i].status = "rejected"]_vars
=============================================================================
