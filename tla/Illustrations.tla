---------------------------- MODULE Illustrations ----------------------------
(***************************************************************************)
(* The pictures of one work (internal/illustration): a request an agent    *)
(* leaves, what becomes of it when the writer approves or rejects it, the  *)
(* gallery the drawings go to, and the places that name a picture: the     *)
(* text of a scene, the representative picture of that scene, and the      *)
(* cover (publish/sheets.go).                                              *)
(*                                                                         *)
(* Every request of the window and every tool call of an agent runs in a   *)
(* goroutine of its own (rpc/server.go), and the library has one           *)
(* connection, so a statement or a transaction is a step and the calls     *)
(* interleave between them.  The engine may stop at any point; what it was *)
(* doing is gone, and RecoverInterrupted runs as it starts.                *)
(*                                                                         *)
(* A statement of the library may fail.  The one that says what became of  *)
(* a drawing is the last its call makes, and leaves the request drawing    *)
(* when it fails (Leave); one that fails earlier ends the call as a        *)
(* refusal does.                                                           *)
(*                                                                         *)
(* There is one scene.  Its text is the words typed and the pictures       *)
(* shown; the desktop's own save is one step.  Prompts, captions, aspects, *)
(* reference images and earlier pictures sent along are not told apart: a  *)
(* drawing comes to be or it does not.                                     *)
(***************************************************************************)
EXTENDS Integers, FiniteSets

CONSTANTS
    Calls,              \* the goroutines that may serve a call at once
    Words,              \* what the writer may type
    Tries,              \* appendToScene: how often it tries
    MaxPendingRequests,
    MaxPerProject,
    MaxRequests,        \* bound: requests
    MaxPictures,        \* bound: drawings
    MaxCrashes,         \* bound: stops of the engine
    MaxWrites           \* bound: the writer's saves, choices and deletions, stops and failed closing
                        \* statements, together

ASSUME SomeCalls == IsFiniteSet(Calls)
ASSUME Limits    == MaxPendingRequests \in Nat \ {0} /\ MaxPerProject \in Nat /\ Tries \in Nat \ {0}
ASSUME Bounds    == MaxRequests \in Nat /\ MaxPictures \in Nat

VARIABLES
    scene,      \* the scene: is it there, what it says, and its content_version
    gallery,    \* table illustrations
    chosen,     \* node_representative_illustrations and publish_covers, or 0
    request,    \* table illustration_requests; unclosed is history: the statement that was to say
                \* what became of the drawing failed, and the engine has not started since
    drawn,      \* history: the pictures drawn for a request
    up,         \* the engine is running
    op,         \* the calls being served
    spent       \* counters for the bounds

vars == <<scene, gallery, chosen, request, drawn, up, op, spent>>

Requests == 1..MaxRequests
Pictures == 1..MaxPictures
Purposes == {"insert", "representative", "gallery"}
Statuses == {"none", "pending", "generating", "done", "rejected", "failed", "cancelled"}
Open     == {"pending", "failed"}
Idle     == [pc |-> "idle", req |-> 0, purpose |-> "gallery", pic |-> 0,
             typed |-> {}, shown |-> {}, version |-> 0, tries |-> 0]

Init ==
    /\ scene = [there |-> TRUE, typed |-> {}, shown |-> {}, version |-> 0]
    /\ gallery = {} /\ chosen = [representative |-> 0, cover |-> 0]
    /\ request = [r \in Requests |-> [status |-> "none", purpose |-> "gallery", pic |-> 0, placed |-> FALSE,
                                    unclosed |-> FALSE]]
    /\ drawn = [r \in Requests |-> {}]
    /\ up = TRUE /\ op = [t \in Calls |-> Idle]
    /\ spent = [requests |-> 0, pictures |-> 0, writes |-> 0, crashes |-> 0]

Go(t, pc) == op' = [op EXCEPT ![t].pc = pc]
End(t)    == op' = [op EXCEPT ![t] = Idle]
TimeLeft  == spent.writes + spent.crashes < MaxWrites
Write     == TimeLeft /\ spent' = [spent EXCEPT !.writes = @ + 1]
With(status) == {r \in Requests : request[r].status = status}

-----------------------------------------------------------------------------
(* An agent asks. *)

\* Submit: its scene must be there; the waiting requests are counted, and then one is
\* inserted.
SubmitCount(t) ==
    /\ up /\ op[t].pc = "idle" /\ Cardinality(With("pending")) < MaxPendingRequests
    /\ spent.requests < MaxRequests
    /\ spent' = [spent EXCEPT !.requests = @ + 1]
    /\ \E purpose \in Purposes :
          /\ purpose = "gallery" \/ scene.there
          /\ op' = [op EXCEPT ![t] = [@ EXCEPT !.pc = "insert", !.req = spent.requests + 1,
                                              !.purpose = purpose]]
    /\ UNCHANGED <<scene, gallery, chosen, request, drawn, up>>

SubmitInsert(t) ==
    /\ op[t].pc = "insert"
    /\ request' = [request EXCEPT ![op[t].req] =
                     [@ EXCEPT !.status = "pending", !.purpose = op[t].purpose]]
    /\ End(t)
    /\ UNCHANGED <<scene, gallery, chosen, drawn, spent, up>>

-----------------------------------------------------------------------------
(* The writer decides. *)

\* cancelOrphans: a waiting request whose scene is gone.
Orphaned(r) == ~scene.there /\ request[r].purpose # "gallery" /\ request[r].status \in Open
Cancelled   == [r \in Requests |-> IF Orphaned(r) THEN [request[r] EXCEPT !.status = "cancelled"]
                                   ELSE request[r]]
List ==
    /\ up /\ request' = Cancelled /\ request' # request
    /\ UNCHANGED <<scene, gallery, chosen, drawn, op, spent, up>>

Reject(r) ==
    /\ up /\ request[r].status \in Open
    /\ request' = [request EXCEPT ![r].status = "rejected"]
    /\ UNCHANGED <<scene, gallery, chosen, drawn, op, spent, up>>

\* Approve reads the request and cancels the orphans; what it read is not looked at
\* again but for the words of the request.
ApproveBegin(t) ==
    /\ up /\ op[t].pc = "idle"
    /\ \E r \in Requests : /\ request[r].status \in Open
                           /\ op' = [op EXCEPT ![t].pc = "claim", ![t].req = r]
    /\ request' = Cancelled
    /\ UNCHANGED <<scene, gallery, chosen, drawn, spent, up>>

\* The claim, in one UPDATE with its condition.
\* Mutant of Claimable: by what Approve read.
ClaimableAsRead(r) == TRUE
Claimable(r) == request[r].status \in Open
Claim(t) ==
    /\ op[t].pc = "claim"
    /\ IF Claimable(op[t].req)
       THEN request' = [request EXCEPT ![op[t].req].status = "generating"] /\ Go(t, "paint")
       ELSE End(t) /\ UNCHANGED request
    /\ UNCHANGED <<scene, gallery, chosen, drawn, spent, up>>

\* The writer's own drawing, from the dialog (illustrations.generate).
DrawBegin(t) ==
    /\ up /\ op[t].pc = "idle" /\ spent.pictures < MaxPictures /\ Write
    /\ Go(t, "paint")
    /\ UNCHANGED <<scene, gallery, chosen, request, drawn, up>>

\* Generate: the scene must be there; the provider draws, refuses, or is cut off
\* after drawTimeout.
NeedsScene(t) == op[t].req # 0 /\ request[op[t].req].purpose # "gallery"
\* Mutant of Undrawn: it is tried again.
UndrawnAgain(t) == IF op[t].req = 0 THEN End(t) ELSE Go(t, "paint")
Undrawn(t)    == IF op[t].req = 0 THEN End(t) ELSE Go(t, "fail")
Paint(t) ==
    /\ op[t].pc = "paint"
    /\ \/ (NeedsScene(t) => scene.there) /\ Go(t, "add")
       \/ Undrawn(t)
    /\ UNCHANGED <<scene, gallery, chosen, request, drawn, spent, up>>

\* Add, one transaction.
\* Mutant of Room: one too many.
RoomForOne == Cardinality(gallery) <= MaxPerProject
Room       == Cardinality(gallery) < MaxPerProject
Add(t) ==
    /\ op[t].pc = "add"
    /\ IF (NeedsScene(t) => scene.there) /\ Room /\ spent.pictures < MaxPictures
       THEN LET pic == spent.pictures + 1 IN
            /\ gallery' = gallery \cup {pic}
            /\ spent' = [spent EXCEPT !.pictures = pic]
            /\ IF op[t].req = 0 THEN End(t) /\ UNCHANGED drawn
               ELSE /\ drawn' = [drawn EXCEPT ![op[t].req] = @ \cup {pic}]
                    /\ op' = [op EXCEPT ![t].pc = "place", ![t].pic = pic]
       ELSE Undrawn(t) /\ UNCHANGED <<gallery, spent, drawn>>
    /\ UNCHANGED <<scene, chosen, request, up>>

Fail(t) ==
    /\ op[t].pc = "fail"
    /\ request' = [request EXCEPT ![op[t].req].status = "failed"]
    /\ End(t)
    /\ UNCHANGED <<scene, gallery, chosen, drawn, spent, up>>

-----------------------------------------------------------------------------
(* The drawing goes to its place. *)

Purpose(t) == request[op[t].req].purpose

PlaceElsewhere(t) ==
    /\ op[t].pc = "place" /\ Purpose(t) # "insert"
    /\ IF Purpose(t) = "gallery" THEN Go(t, "placed") /\ UNCHANGED chosen
       ELSE IF scene.there /\ op[t].pic \in gallery
       THEN chosen' = [chosen EXCEPT !.representative = op[t].pic] /\ Go(t, "placed")
       ELSE Go(t, "unplaced") /\ UNCHANGED chosen
    /\ UNCHANGED <<scene, gallery, request, drawn, spent, up>>

\* appendToScene reads the scene ...
PlaceRead(t) ==
    /\ op[t].pc = "place" /\ Purpose(t) = "insert"
    /\ op' = IF scene.there
             THEN [op EXCEPT ![t] = [@ EXCEPT !.pc = "append", !.typed = scene.typed,
                                              !.shown = scene.shown, !.version = scene.version]]
             ELSE [op EXCEPT ![t].pc = "unplaced"]
    /\ UNCHANGED <<scene, gallery, chosen, request, drawn, spent, up>>

\* ... and writes what it read with the picture behind it, over that version only.
\* Mutant of AsRead: over any version.
AsReadOrNot(t) == scene.there
AsRead(t) == scene.there /\ scene.version = op[t].version
PlaceAppend(t) ==
    /\ op[t].pc = "append"
    /\ IF AsRead(t)
       THEN /\ scene' = [scene EXCEPT !.typed = op[t].typed, !.shown = op[t].shown \cup {op[t].pic},
                                      !.version = @ + 1]
            /\ Go(t, "placed")
       ELSE /\ UNCHANGED scene
            /\ IF scene.there /\ op[t].tries + 1 < Tries
               THEN op' = [op EXCEPT ![t].pc = "place", ![t].tries = @ + 1]
               ELSE Go(t, "unplaced")
    /\ UNCHANGED <<gallery, chosen, request, drawn, spent, up>>

Done(t) ==
    /\ op[t].pc \in {"placed", "unplaced"}
    /\ request' = [request EXCEPT ![op[t].req] =
                     [@ EXCEPT !.status = "done", !.pic = op[t].pic, !.placed = (op[t].pc = "placed")]]
    /\ End(t)
    /\ UNCHANGED <<scene, gallery, chosen, drawn, spent, up>>

\* The statement of Fail or of Done fails: the call answers with its error, and the
\* request is left as it was claimed.
Leave(t) ==
    /\ op[t].pc \in {"fail", "placed", "unplaced"} /\ Write
    /\ request' = [request EXCEPT ![op[t].req].unclosed = TRUE]
    /\ End(t)
    /\ UNCHANGED <<scene, gallery, chosen, drawn, up>>

-----------------------------------------------------------------------------
(* The gallery, and the places a picture is named. *)

\* Delete looks in the scenes, then at the cover, then at the representatives.
DeleteBegin(t) ==
    /\ up /\ op[t].pc = "idle" /\ Write
    /\ \E pic \in gallery : pic \notin scene.shown
                            /\ op' = [op EXCEPT ![t].pc = "asCover", ![t].pic = pic]
    /\ UNCHANGED <<scene, gallery, chosen, request, drawn, up>>

DeleteCheck(t) ==
    /\ op[t].pc \in {"asCover", "asFace"}
    /\ IF op[t].pc = "asCover"
       THEN IF chosen.cover = op[t].pic THEN End(t) ELSE Go(t, "asFace")
       ELSE IF chosen.representative = op[t].pic THEN End(t) ELSE Go(t, "delete")
    /\ UNCHANGED <<scene, gallery, chosen, request, drawn, spent, up>>

DeleteRow(t) ==
    /\ op[t].pc = "delete"
    /\ gallery' = gallery \ {op[t].pic}
    /\ End(t)
    /\ UNCHANGED <<scene, chosen, request, drawn, spent, up>>

SetRepresentative ==
    /\ up /\ scene.there /\ Write
    /\ \E pic \in gallery \cup {0} : chosen' = [chosen EXCEPT !.representative = pic]
    /\ UNCHANGED <<scene, gallery, request, drawn, op, up>>

\* SetCover looks the picture up, and then writes.
CoverBegin(t) ==
    /\ up /\ op[t].pc = "idle" /\ Write
    /\ \E pic \in gallery \cup {0} : op' = [op EXCEPT ![t].pc = "cover", ![t].pic = pic]
    /\ UNCHANGED <<scene, gallery, chosen, request, drawn, up>>

CoverSet(t) ==
    /\ op[t].pc = "cover"
    /\ chosen' = [chosen EXCEPT !.cover = op[t].pic]
    /\ End(t)
    /\ UNCHANGED <<scene, gallery, request, drawn, spent, up>>

\* The writer saves the scene, with a word more or other pictures, or deletes it.
SaveScene ==
    /\ up /\ scene.there /\ Write
    /\ \/ \E w \in Words \ scene.typed :
             scene' = [scene EXCEPT !.typed = @ \cup {w}, !.version = @ + 1]
       \/ \E pic \in gallery \cup scene.shown :
             scene' = [scene EXCEPT !.version = @ + 1,
                                    !.shown = IF pic \in @ THEN @ \ {pic} ELSE @ \cup {pic}]
    /\ UNCHANGED <<gallery, chosen, request, drawn, op, up>>

DeleteScene ==
    /\ up /\ scene.there /\ Write
    /\ scene' = [scene EXCEPT !.there = FALSE, !.typed = {}, !.shown = {}]
    /\ chosen' = [chosen EXCEPT !.representative = 0]
    /\ UNCHANGED <<gallery, request, drawn, op, up>>

-----------------------------------------------------------------------------
(* The engine stops, and starts again. *)

Crash ==
    /\ up /\ spent.crashes < MaxCrashes /\ TimeLeft /\ spent' = [spent EXCEPT !.crashes = @ + 1]
    /\ up' = FALSE /\ op' = [t \in Calls |-> Idle]
    /\ UNCHANGED <<scene, gallery, chosen, request, drawn>>

\* RecoverInterrupted.
\* Mutant of Recovered: nothing is recovered.
NotRecovered == request
Recovered == [r \in Requests |-> IF request[r].status = "generating"
                                 THEN [request[r] EXCEPT !.status = "failed", !.unclosed = FALSE]
                                 ELSE request[r]]
Start ==
    /\ ~up /\ up' = TRUE
    /\ request' = Recovered
    /\ UNCHANGED <<scene, gallery, chosen, drawn, op, spent>>

-----------------------------------------------------------------------------
Serve(t) == \/ SubmitInsert(t) \/ Claim(t) \/ Paint(t) \/ Add(t) \/ Fail(t) \/ Leave(t) \/ PlaceElsewhere(t)
            \/ PlaceRead(t) \/ PlaceAppend(t) \/ Done(t) \/ DeleteCheck(t) \/ DeleteRow(t) \/ CoverSet(t)
Begin(t) == SubmitCount(t) \/ ApproveBegin(t) \/ DrawBegin(t) \/ DeleteBegin(t) \/ CoverBegin(t)
Writer   == List \/ SetRepresentative \/ SaveScene \/ DeleteScene \/ \E r \in Requests : Reject(r)

Next == Writer \/ Crash \/ Start \/ \E t \in Calls : Begin(t) \/ Serve(t)

Spec == Init /\ [][Next]_vars

\* A goroutine goes on until its call is answered: a drawing has its time limit, and
\* a database statement returns.  The writer starts the app again.
Fairness == WF_vars(Start) /\ \A t \in Calls : WF_vars(Serve(t))
FairSpec == Spec /\ Fairness

-----------------------------------------------------------------------------
(* Properties *)

\* The limit of waiting requests is counted and then used, so that calls at once may
\* exceed it; but each of them by one request at most.
Inserting == {t \in Calls : op[t].pc = "insert"}
NearlyBounded ==
    Cardinality(With("pending")) + Cardinality(Inserting) < MaxPendingRequests + Cardinality(Calls)

\* Every variable has its type, and the limits hold: a gallery never has more pictures
\* than it may, however many drawings end at once, and NearlyBounded.
Naming == [representative : Pictures \cup {0}, cover : Pictures \cup {0}]
Filed  == [status : Statuses, purpose : Purposes, pic : Pictures \cup {0}, placed : BOOLEAN,
           unclosed : BOOLEAN]
TypeOK ==
    /\ scene.typed \subseteq Words /\ scene.shown \subseteq Pictures /\ scene.version \in Nat
    /\ gallery \subseteq Pictures /\ Cardinality(gallery) <= MaxPerProject /\ NearlyBounded
    /\ chosen \in Naming /\ request \in [Requests -> Filed] /\ drawn \in [Requests -> SUBSET Pictures]

\* A request is being drawn exactly while one call, and no second one, draws it: a
\* second click or a second window draws nothing, and a call that ends, however it
\* ends, has decided its request, unless the statement that says so failed: nobody
\* draws that one, nor can anybody, and it is open again after the next start.  And a
\* request is drawn for once, or once more for each time the engine stopped.
Placing    == {"place", "append", "placed", "unplaced"}
Drawing(r) == {t \in Calls : op[t].req = r /\ op[t].pc \in Placing \cup {"paint", "add", "fail"}}
Drawn(r)   == request[r].status = "generating" /\ ~request[r].unclosed
OneDrawing ==
    \A r \in Requests : /\ up /\ Drawn(r) => \E t \in Calls : Drawing(r) = {t}
                        /\ ~Drawn(r) => Drawing(r) = {}
DrawnOnce == /\ OneDrawing
             /\ \A r \in Requests : Cardinality(drawn[r]) <= 1 + spent.crashes

\* A request that is done, rejected or cancelled stays what it is: no late answer of
\* a drawing, no second approval and no restart reopens it.
Closed  == {"done", "rejected", "cancelled"}
Decided == [][\A r \in Requests : request[r].status \in Closed => request'[r] = request[r]]_vars

\* Placing a picture takes no word away that the writer typed in between, nor a
\* picture the writer put in.
PlacingSpares ==
    [][scene'.shown # scene.shown /\ op' # op
       => scene.typed = scene'.typed /\ scene.shown \subseteq scene'.shown]_vars

\* A request that is being drawn is decided in the end, also if the engine stops, or
\* the statement that was to decide it has failed.
DrawingEnds == \A r \in Requests : Drawn(r) ~> ~Drawn(r)

-----------------------------------------------------------------------------
(* What the repository says and the code does not keep. *)

\* requests.go: MaxPendingRequests "bounds the requests waiting in one work".
PendingBounded == Cardinality(With("pending")) <= MaxPendingRequests

\* 0032_node_representative_illustrations.sql: "illustration_id is not a foreign key:
\* illustration.Repo.Delete refuses to delete a representative picture"; the same is
\* said of covers and of the pictures in a scene.
NamedExists == {chosen.representative, chosen.cover} \subseteq gallery \cup {0}

\* requests.go: "A failed drawing leaves the request failed with the reason, and the
\* writer can approve it again."
FailedIsOpen == up => \A r \in Requests : request[r].status = "generating" => Drawing(r) # {}

\* service.go: "a failed or refused drawing stores nothing".
FailedStoresNothing == \A r \in Requests : request[r].status = "failed" => drawn[r] = {}
=============================================================================
