------------------------- MODULE IllustrationsProofs -------------------------
(***************************************************************************)
(* What Illustrations promises for any number of calls, requests, pictures *)
(* and stops of the engine: the limits hold, a request is drawn for by one *)
(* call at a time and once for each time it could be, what is decided      *)
(* stays decided, and placing a picture takes nothing out of a scene.      *)
(*                                                                         *)
(* DrawnOnce is not inductive.  A request that waits, or whose drawing has *)
(* no picture yet, has had one only for each time the engine stopped: the  *)
(* one more is that of a drawing that is being placed, is done, or was     *)
(* left by a closing statement that failed (Counted).                      *)
(* A call that draws has the request it draws for generating (Served), and *)
(* what appendToScene has read is what the scene says while the version is *)
(* the one it read (Current).                                              *)
(***************************************************************************)
EXTENDS Illustrations, FiniteSetTheorems, TLAPS

Pcs == {"idle", "insert", "claim", "paint", "add", "fail", "place", "append", "placed", "unplaced",
        "asCover", "asFace", "delete", "cover"}
Calling  == [pc : Pcs, req : 0..MaxRequests, purpose : Purposes, pic : Pictures \cup {0},
             typed : SUBSET Words, shown : SUBSET Pictures, version : Nat, tries : Nat]
Written  == [there : BOOLEAN, typed : SUBSET Words, shown : SUBSET Pictures, version : Nat]
Counters == [requests : 0..MaxRequests, pictures : 0..MaxPictures, writes : Nat, crashes : Nat]

Types ==
    /\ scene \in Written /\ gallery \in SUBSET Pictures /\ chosen \in Naming
    /\ request \in [Requests -> Filed] /\ drawn \in [Requests -> SUBSET Pictures]
    /\ up \in BOOLEAN /\ op \in [Calls -> Calling] /\ spent \in Counters

DrawPcs == Placing \cup {"paint", "add", "fail"}
Status(r) == request[r].status

\* What a call knows of its request.
Served(t) ==
    /\ op[t].pc \in Placing \cup {"insert", "claim", "fail"} => op[t].req \in Requests
    /\ op[t].pc = "insert" => op[t].req <= spent.requests /\ Status(op[t].req) = "none"
    /\ op[t].pc = "claim" => Status(op[t].req) # "none"
    /\ op[t].pc \in DrawPcs /\ op[t].req # 0
      => Status(op[t].req) = "generating" /\ ~request[op[t].req].unclosed
    /\ op[t].pc \in Placing => op[t].pic \in Pictures
    /\ op[t].pc = "idle" => op[t].req = 0
    /\ ~up => op[t].pc = "idle"
Current(t) ==
    op[t].pc = "append" =>
       /\ op[t].version <= scene.version
       /\ scene.there /\ op[t].version = scene.version
          => op[t].typed = scene.typed /\ op[t].shown = scene.shown

\* No two calls are about to file, or are drawing for, one request.
Apart(t, u) ==
    /\ op[t].pc = "insert" /\ op[u].pc = "insert" /\ op[t].req = op[u].req => t = u
    /\ op[t].pc \in DrawPcs /\ op[u].pc \in DrawPcs /\ op[t].req = op[u].req /\ op[t].req # 0 => t = u

\* A request is new until it is filed; one that is generating has its call, or has lost
\* it to a closing statement that failed.
Standing(r) ==
    /\ r > spent.requests => Status(r) = "none"
    /\ request[r].unclosed => Status(r) = "generating"
    /\ up /\ Drawn(r) => \E t \in Calls : t \in Drawing(r)

Extra(r) == IF \/ Status(r) = "done" \/ (up /\ request[r].unclosed)
               \/ \E t \in Calls : op[t].req = r /\ op[t].pc \in Placing THEN 1 ELSE 0
Counted(r) == IsFiniteSet(drawn[r]) /\ Cardinality(drawn[r]) <= spent.crashes + Extra(r)

Bounded == IsFiniteSet(gallery) /\ Cardinality(gallery) <= MaxPerProject /\ NearlyBounded

Inv ==
    /\ Types /\ Bounded
    /\ \A t \in Calls : Served(t) /\ Current(t)
    /\ \A t, u \in Calls : Apart(t, u)
    /\ \A r \in Requests : Standing(r) /\ Counted(r)

-----------------------------------------------------------------------------
(* Records: what a step does to the fields of a call, a request, a counter. *)

\* t goes on to pc, and keeps what it has in hand; t is as c says; t has ended.
Others(t)    == \A u \in Calls \ {t} : op'[u] = op[u]
Goes(t, pc)  == /\ op' \in [Calls -> Calling] /\ Others(t) /\ op'[t].pc = pc
                /\ op'[t].req = op[t].req /\ op'[t].pic = op[t].pic /\ op'[t].version = op[t].version
                /\ op'[t].typed = op[t].typed /\ op'[t].shown = op[t].shown
Becomes(t, c) == op' \in [Calls -> Calling] /\ Others(t) /\ op'[t] = c
Ends(t)       == op' \in [Calls -> Calling] /\ Others(t) /\ op'[t].pc = "idle" /\ op'[t].req = 0

\* r gets a status, and the other requests are what they were.
Gets(r, s) == /\ request' \in [Requests -> Filed] /\ request'[r].status = s
              /\ request'[r].unclosed = request[r].unclosed
              /\ \A q \in Requests \ {r} : request'[q] = request[q]

\* r is left as it is, and nobody draws it.
Unclosed(r) == /\ request' \in [Requests -> Filed] /\ request'[r].status = request[r].status
               /\ request'[r].unclosed
               /\ \A q \in Requests \ {r} : request'[q] = request[q]

\* Only a counter of no interest goes up.
Same == /\ spent' \in Counters /\ spent'.requests = spent.requests
        /\ spent'.crashes = spent.crashes /\ spent'.pictures = spent.pictures

LEMMA IdleIsCalling == Idle \in Calling /\ Idle.pc = "idle" /\ Idle.req = 0
  BY Bounds DEF Idle, Calling, Pcs, Purposes

LEMMA CallBecomes ==
  ASSUME Types, NEW t \in Calls, NEW c \in Calling, op' = [op EXCEPT ![t] = c]
  PROVE  Becomes(t, c)
  BY DEF Types, Becomes, Others

LEMMA CallEnds == ASSUME Types, NEW t \in Calls, End(t) PROVE Ends(t)
  BY CallBecomes, IdleIsCalling DEF End, Becomes, Ends

LEMMA CallGoes ==
  ASSUME Types, NEW t \in Calls, NEW pc \in Pcs, op' = [op EXCEPT ![t].pc = pc]
  PROVE  Goes(t, pc)
  <1> DEFINE c == [op[t] EXCEPT !.pc = pc]
  <1>1. op[t] \in Calling  BY DEF Types
  <1>2. /\ c \in Calling /\ c.pc = pc /\ c.req = op[t].req /\ c.pic = op[t].pic
        /\ c.version = op[t].version /\ c.typed = op[t].typed /\ c.shown = op[t].shown
    BY <1>1 DEF Calling
  <1>3. op' = [op EXCEPT ![t] = c]  OBVIOUS
  <1> HIDE DEF c
  <1>4. Becomes(t, c)  BY <1>2, <1>3, CallBecomes
  <1> QED  BY <1>2, <1>4 DEF Becomes, Goes

LEMMA RequestBecomes ==
  ASSUME Types, NEW r \in Requests, NEW f \in Filed, f.unclosed = request[r].unclosed,
         request' = [request EXCEPT ![r] = f]
  PROVE  Gets(r, f.status)
  BY DEF Types, Gets, Status

LEMMA RequestGets ==
  ASSUME Types, NEW r \in Requests, NEW s \in Statuses, request' = [request EXCEPT ![r].status = s]
  PROVE  Gets(r, s)
  <1> DEFINE f == [request[r] EXCEPT !.status = s]
  <1>1. request[r] \in Filed  BY DEF Types
  <1>2. f \in Filed /\ f.status = s /\ f.unclosed = request[r].unclosed  BY <1>1 DEF Filed
  <1>3. request' = [request EXCEPT ![r] = f]  OBVIOUS
  <1> HIDE DEF f
  <1> QED  BY <1>2, <1>3, RequestBecomes

LEMMA WriteCounts == ASSUME Types, Write PROVE Same
  <1>1. spent \in Counters  BY DEF Types
  <1> QED  BY <1>1 DEF Write, Same, Counters

LEMMA NothingCounts == ASSUME Types, UNCHANGED spent PROVE Same
  BY DEF Types, Same

-----------------------------------------------------------------------------
(* The actions, in those terms. *)

LEMMA SubmitCountDoes ==
  ASSUME Inv, NEW t \in Calls, SubmitCount(t)
  PROVE  /\ Types' /\ Others(t) /\ op'[t].pc = "insert" /\ op'[t].req = spent.requests + 1
         /\ op'[t].req \in Requests /\ spent'.requests = spent.requests + 1 /\ spent'.crashes = spent.crashes
         /\ op[t].pc = "idle" /\ up /\ UNCHANGED <<scene, gallery, request, drawn, up>>
         /\ Cardinality(With("pending")) < MaxPendingRequests
  <1> USE DEF SubmitCount
  <1>1. Types  BY DEF Inv
  <1>2. spent' \in Counters /\ spent'.requests = spent.requests + 1 /\ spent'.crashes = spent.crashes
    <2>1. spent \in Counters /\ MaxRequests \in Nat  BY <1>1, Bounds DEF Types
    <2> QED  BY <2>1 DEF Counters
  <1>3. PICK purpose \in Purposes :
          op' = [op EXCEPT ![t] = [@ EXCEPT !.pc = "insert", !.req = spent.requests + 1, !.purpose = purpose]]
    OBVIOUS
  <1> DEFINE c == [op[t] EXCEPT !.pc = "insert", !.req = spent.requests + 1, !.purpose = purpose]
  <1>4. c \in Calling /\ c.pc = "insert" /\ c.req = spent.requests + 1
    <2>1. op[t] \in Calling /\ spent.requests + 1 \in 0..MaxRequests /\ purpose \in Purposes
      <3>1. spent.requests \in 0..MaxRequests  BY <1>1 DEF Types, Counters
      <3> QED  BY <1>1, <1>3, <3>1, Bounds DEF Types
    <2> QED  BY <2>1 DEF Calling, Pcs
  <1>5. op' = [op EXCEPT ![t] = c]  BY <1>3
  <1> HIDE DEF c
  <1>6. Becomes(t, c)  BY <1>1, <1>4, <1>5, CallBecomes
  <1>7. Types'  BY <1>1, <1>2, <1>6 DEF Types, Becomes
  <1>8. spent.requests + 1 \in Requests
    <2>1. spent.requests \in 0..MaxRequests  BY <1>1 DEF Types, Counters
    <2> QED  BY <2>1, Bounds DEF Requests
  <1> QED  BY <1>2, <1>4, <1>6, <1>7, <1>8 DEF Becomes

LEMMA SubmitInsertDoes ==
  ASSUME Inv, NEW t \in Calls, SubmitInsert(t)
  PROVE  /\ Types' /\ Ends(t) /\ Gets(op[t].req, "pending") /\ op[t].req \in Requests
         /\ op[t].pc = "insert" /\ UNCHANGED <<scene, gallery, drawn, spent, up>>
  <1> USE DEF SubmitInsert
  <1>1. Types /\ op[t].pc = "insert" /\ op[t].req \in Requests  BY DEF Inv, Served
  <1> DEFINE f == [request[op[t].req] EXCEPT !.status = "pending", !.purpose = op[t].purpose]
  <1>2. f \in Filed /\ f.status = "pending" /\ f.unclosed = request[op[t].req].unclosed
    <2>1. request[op[t].req] \in Filed /\ op[t].purpose \in Purposes  BY <1>1 DEF Types, Calling
    <2> QED  BY <2>1 DEF Filed, Statuses
  <1>3. request' = [request EXCEPT ![op[t].req] = f]  OBVIOUS
  <1> HIDE DEF f
  <1>4. Gets(op[t].req, "pending")  BY <1>1, <1>2, <1>3, RequestBecomes
  <1>5. Ends(t)  BY <1>1, CallEnds
  <1> QED  BY <1>1, <1>4, <1>5 DEF Types, Gets, Ends

\* The orphans are cancelled.
Weeds == /\ request' \in [Requests -> Filed]
         /\ \A r \in Requests : \/ request'[r] = request[r]
                                  \/ /\ Status(r) \in Open /\ Status(r)' = "cancelled"
                                     /\ request'[r].unclosed = request[r].unclosed

LEMMA CancelledWeeds == ASSUME Types, request' = Cancelled PROVE Weeds
  <1>1. \A r \in Requests : request[r] \in Filed  BY DEF Types
  <1>2. ASSUME NEW r \in Requests
        PROVE  /\ Cancelled[r] \in Filed
               /\ \/ Cancelled[r] = request[r]
                  \/ /\ Status(r) \in Open /\ Cancelled[r].status = "cancelled"
                     /\ Cancelled[r].unclosed = request[r].unclosed
    <2>1. CASE Orphaned(r)
      <3>1. request[r] \in Filed /\ Status(r) \in Open  BY <1>1, <2>1 DEF Orphaned, Status
      <3>2. Cancelled[r] = [request[r] EXCEPT !.status = "cancelled"]  BY <2>1 DEF Cancelled
      <3> QED  BY <3>1, <3>2 DEF Filed, Statuses
    <2>2. CASE ~Orphaned(r)  BY <1>1, <2>2 DEF Cancelled
    <2> QED  BY <2>1, <2>2
  <1> QED  BY <1>2 DEF Weeds, Cancelled, Status

LEMMA ListDoes == ASSUME Inv, List
                  PROVE Types' /\ Weeds /\ UNCHANGED <<scene, gallery, drawn, op, spent, up>>
  <1>1. Types /\ Weeds  BY CancelledWeeds DEF Inv, List
  <1> QED  BY <1>1 DEF List, Types, Weeds

LEMMA ApproveBeginDoes ==
  ASSUME Inv, NEW t \in Calls, ApproveBegin(t)
  PROVE  /\ Types' /\ Weeds /\ Others(t) /\ op'[t].pc = "claim"
         /\ op'[t].req \in Requests /\ Status(op'[t].req) \in Open
         /\ op[t].pc = "idle" /\ up /\ UNCHANGED <<scene, gallery, drawn, spent, up>>
  <1> USE DEF ApproveBegin
  <1>1. Types /\ Weeds  BY CancelledWeeds DEF Inv
  <1>2. PICK r \in Requests : /\ request[r].status \in Open
                              /\ op' = [op EXCEPT ![t].pc = "claim", ![t].req = r]
    OBVIOUS
  <1> DEFINE c == [op[t] EXCEPT !.pc = "claim", !.req = r]
  <1>3. c \in Calling /\ c.pc = "claim" /\ c.req = r
    <2>1. op[t] \in Calling /\ r \in 0..MaxRequests  BY <1>1, <1>2, Bounds DEF Types, Requests
    <2> QED  BY <2>1 DEF Calling, Pcs
  <1>4. op' = [op EXCEPT ![t] = c]  BY <1>1, <1>2 DEF Types
  <1> HIDE DEF c
  <1>5. Becomes(t, c)  BY <1>1, <1>3, <1>4, CallBecomes
  <1> QED  BY <1>1, <1>2, <1>3, <1>5 DEF Types, Weeds, Becomes, Status

LEMMA RejectDoes ==
  ASSUME Inv, NEW r \in Requests, Reject(r)
  PROVE  /\ Types' /\ Gets(r, "rejected") /\ Status(r) \in Open
         /\ UNCHANGED <<scene, gallery, drawn, op, spent, up>>
  <1>1. Types /\ Gets(r, "rejected")  BY RequestGets DEF Inv, Reject, Statuses
  <1> QED  BY <1>1 DEF Reject, Types, Gets, Status

LEMMA ClaimDoes ==
  ASSUME Inv, NEW t \in Calls, Claim(t)
  PROVE  /\ Types' /\ op[t].pc = "claim" /\ op[t].req \in Requests
         /\ \/ Status(op[t].req) \in Open /\ Goes(t, "paint") /\ Gets(op[t].req, "generating")
            \/ Ends(t) /\ UNCHANGED request
         /\ UNCHANGED <<scene, gallery, drawn, spent, up>>
  <1> USE DEF Claim
  <1>1. Types /\ op[t].pc = "claim" /\ op[t].req \in Requests  BY DEF Inv, Served
  <1>2. CASE Claimable(op[t].req)
    <2>1. Goes(t, "paint")  BY <1>1, <1>2, CallGoes DEF Go, Pcs
    <2>2. Gets(op[t].req, "generating")  BY <1>1, <1>2, RequestGets DEF Statuses
    <2> QED  BY <1>1, <1>2, <2>1, <2>2 DEF Types, Goes, Gets, Claimable, Status
  <1>3. CASE ~Claimable(op[t].req)
    <2>1. Ends(t)  BY <1>1, <1>3, CallEnds
    <2> QED  BY <1>1, <1>3, <2>1 DEF Types, Ends
  <1> QED  BY <1>2, <1>3

LEMMA DrawBeginDoes ==
  ASSUME Inv, NEW t \in Calls, DrawBegin(t)
  PROVE  /\ Types' /\ Same /\ Goes(t, "paint") /\ op[t].pc = "idle" /\ up
         /\ UNCHANGED <<scene, gallery, request, drawn, up>>
  <1>1. Types /\ Same /\ Goes(t, "paint")  BY WriteCounts, CallGoes DEF Inv, DrawBegin, Go, Pcs
  <1> QED  BY <1>1 DEF DrawBegin, Types, Goes, Same

LEMMA UndrawnDoes ==
  ASSUME Types, NEW t \in Calls, Undrawn(t)
  PROVE  \/ op[t].req = 0 /\ Ends(t)
         \/ op[t].req # 0 /\ Goes(t, "fail")
  BY CallEnds, CallGoes DEF Undrawn, Go, Pcs

LEMMA PaintDoes ==
  ASSUME Inv, NEW t \in Calls, Paint(t)
  PROVE  /\ Types' /\ op[t].pc = "paint" /\ UNCHANGED <<scene, gallery, request, drawn, spent, up>>
         /\ \/ Goes(t, "add")
            \/ op[t].req = 0 /\ Ends(t)
            \/ op[t].req # 0 /\ Goes(t, "fail")
  <1>1. Types /\ (Goes(t, "add") \/ Undrawn(t))  BY CallGoes DEF Inv, Paint, Go, Pcs
  <1>2. Goes(t, "add") \/ (op[t].req = 0 /\ Ends(t)) \/ (op[t].req # 0 /\ Goes(t, "fail"))
    BY <1>1, UndrawnDoes
  <1> QED  BY <1>1, <1>2 DEF Paint, Types, Goes, Ends

LEMMA AddDoes ==
  ASSUME Inv, NEW t \in Calls, Add(t)
  PROVE  /\ Types' /\ op[t].pc = "add" /\ UNCHANGED <<scene, request, up>>
         /\ \/ /\ op[t].req = 0 /\ Ends(t) /\ drawn' = drawn
               /\ Same /\ gallery' = gallery
            \/ /\ op[t].req # 0 /\ Goes(t, "fail") /\ drawn' = drawn
               /\ Same /\ gallery' = gallery
            \/ /\ Room /\ spent'.crashes = spent.crashes /\ spent'.requests = spent.requests
               /\ \E pic \in Pictures : gallery' = gallery \cup {pic}
               /\ \/ op[t].req = 0 /\ Ends(t) /\ drawn' = drawn
                  \/ /\ op[t].req # 0 /\ Others(t) /\ op'[t].pc = "place" /\ op'[t].req = op[t].req
                     /\ op'[t].pic \in Pictures
                     /\ \E pic \in Pictures :
                           drawn' = [drawn EXCEPT ![op[t].req] = drawn[op[t].req] \cup {pic}]
  <1> USE DEF Add
  <1>1. Types /\ op[t].pc = "add"  BY DEF Inv
  <1> DEFINE pic == spent.pictures + 1
             Put == (NeedsScene(t) => scene.there) /\ Room /\ spent.pictures < MaxPictures
  <1>2. CASE ~Put
    <2>1. Undrawn(t) /\ UNCHANGED <<gallery, spent, drawn>>  BY <1>2
    <2>2. (op[t].req = 0 /\ Ends(t)) \/ (op[t].req # 0 /\ Goes(t, "fail"))  BY <1>1, <2>1, UndrawnDoes
    <2>3. Same /\ op' \in [Calls -> Calling]  BY <1>1, <2>1, <2>2, NothingCounts DEF Ends, Goes
    <2> QED  BY <1>1, <2>1, <2>2, <2>3 DEF Types
  <1>3. CASE Put
    <2>1. /\ gallery' = gallery \cup {pic} /\ spent' = [spent EXCEPT !.pictures = pic]
          /\ IF op[t].req = 0 THEN End(t) /\ UNCHANGED drawn
             ELSE /\ drawn' = [drawn EXCEPT ![op[t].req] = @ \cup {pic}]
                  /\ op' = [op EXCEPT ![t].pc = "place", ![t].pic = pic]
      BY <1>3
    <2>2. pic \in Pictures /\ spent \in Counters
      <3>1. spent \in Counters /\ spent.pictures \in Nat  BY <1>1, Bounds DEF Types, Counters
      <3> QED  BY <1>3, <3>1, Bounds DEF Pictures
    <2>3. spent' \in Counters /\ spent'.crashes = spent.crashes /\ spent'.requests = spent.requests
      BY <2>1, <2>2 DEF Counters, Pictures
    <2>4. gallery' \in SUBSET Pictures  BY <1>1, <2>1, <2>2 DEF Types
    <2> HIDE DEF pic
    <2>5. CASE op[t].req = 0
      <3>1. Ends(t) /\ UNCHANGED drawn  BY <1>1, <2>1, <2>5, CallEnds
      <3> QED  BY <1>1, <1>3, <2>1, <2>2, <2>3, <2>4, <2>5, <3>1 DEF Types, Ends
    <2>6. CASE op[t].req # 0
      <3> DEFINE c == [op[t] EXCEPT !.pc = "place", !.pic = pic]
      <3>1. c \in Calling /\ c.pc = "place" /\ c.req = op[t].req /\ c.pic \in Pictures
        <4>1. op[t] \in Calling  BY <1>1 DEF Types
        <4> QED  BY <4>1, <2>2 DEF Calling, Pcs
      <3>2. op' = [op EXCEPT ![t] = c]  BY <1>1, <2>1, <2>6 DEF Types
      <3> HIDE DEF c
      <3>3. Becomes(t, c)  BY <1>1, <3>1, <3>2, CallBecomes
      <3>4. drawn' = [drawn EXCEPT ![op[t].req] = drawn[op[t].req] \cup {pic}]  BY <2>1, <2>6
      <3>5. drawn' \in [Requests -> SUBSET Pictures]
        <4>1. op[t].req \in 0..MaxRequests  BY <1>1 DEF Types, Calling
        <4>2. op[t].req \in Requests  BY <4>1, <2>6, Bounds DEF Requests
        <4> QED  BY <1>1, <4>2, <3>4, <2>2 DEF Types
      <3> QED  BY <1>1, <1>3, <2>1, <2>2, <2>3, <2>4, <2>6, <3>1, <3>3, <3>4, <3>5 DEF Types, Becomes
    <2> QED  BY <2>5, <2>6
  <1> QED  BY <1>2, <1>3

LEMMA FailDoes ==
  ASSUME Inv, NEW t \in Calls, Fail(t)
  PROVE  /\ Types' /\ op[t].pc = "fail" /\ op[t].req \in Requests
         /\ Ends(t) /\ Gets(op[t].req, "failed") /\ UNCHANGED <<scene, gallery, drawn, spent, up>>
  <1> USE DEF Fail
  <1>1. Types /\ op[t].pc = "fail" /\ op[t].req \in Requests  BY DEF Inv, Served
  <1>2. Gets(op[t].req, "failed")  BY <1>1, RequestGets DEF Statuses
  <1>3. Ends(t)  BY <1>1, CallEnds
  <1> QED  BY <1>1, <1>2, <1>3 DEF Types, Gets, Ends

\* The scene changes only together with its version, or goes.
Rewrites == /\ scene' \in Written /\ scene.version <= scene'.version
            /\ scene'.there => scene.there
            /\ scene'.there /\ scene'.version = scene.version
               => scene'.typed = scene.typed /\ scene'.shown = scene.shown

LEMMA SceneBecomes ==
  ASSUME scene \in Written, NEW w \in SUBSET Words, NEW s \in SUBSET Pictures, NEW v \in Nat,
         \/ scene' = [scene EXCEPT !.typed = w, !.shown = s, !.version = v]
         \/ scene' = [scene EXCEPT !.typed = w, !.version = v] /\ s = scene.shown
         \/ scene' = [scene EXCEPT !.version = v, !.shown = s] /\ w = scene.typed
  PROVE  /\ scene' \in Written /\ scene'.there = scene.there
         /\ scene'.typed = w /\ scene'.shown = s /\ scene'.version = v
  BY DEF Written

LEMMA PlaceElsewhereDoes ==
  ASSUME Inv, NEW t \in Calls, PlaceElsewhere(t)
  PROVE  /\ Types' /\ op[t].pc = "place" /\ (Goes(t, "placed") \/ Goes(t, "unplaced"))
         /\ UNCHANGED <<scene, gallery, request, drawn, spent, up>>
  <1> USE DEF PlaceElsewhere
  <1>1. Types /\ op[t].pc = "place"  BY DEF Inv
  <1>2. Goes(t, "placed") \/ Goes(t, "unplaced")  BY <1>1, CallGoes DEF Go, Pcs
  <1>3. chosen' \in Naming
    <2>1. chosen \in Naming /\ op[t].pic \in Pictures \cup {0}  BY <1>1 DEF Types, Calling
    <2> QED  BY <2>1 DEF Naming
  <1> QED  BY <1>1, <1>2, <1>3 DEF Types, Goes

LEMMA PlaceReadDoes ==
  ASSUME Inv, NEW t \in Calls, PlaceRead(t)
  PROVE  /\ Types' /\ op[t].pc = "place" /\ UNCHANGED <<scene, gallery, request, drawn, spent, up>>
         /\ \/ Goes(t, "unplaced")
            \/ /\ Others(t) /\ op'[t].pc = "append" /\ op'[t].req = op[t].req /\ op'[t].pic = op[t].pic
               /\ op'[t].version = scene.version
               /\ op'[t].typed = scene.typed /\ op'[t].shown = scene.shown
  <1> USE DEF PlaceRead
  <1>1. Types /\ op[t].pc = "place"  BY DEF Inv
  <1>2. CASE ~scene.there
    <2>1. Goes(t, "unplaced")  BY <1>1, <1>2, CallGoes DEF Pcs
    <2> QED  BY <1>1, <2>1 DEF Types, Goes
  <1>3. CASE scene.there
    <2> DEFINE c == [op[t] EXCEPT !.pc = "append", !.typed = scene.typed,
                                  !.shown = scene.shown, !.version = scene.version]
    <2>1. /\ c \in Calling /\ c.pc = "append" /\ c.req = op[t].req /\ c.version = scene.version
          /\ c.pic = op[t].pic /\ c.typed = scene.typed /\ c.shown = scene.shown
      <3>1. op[t] \in Calling  BY <1>1 DEF Types
      <3>2. scene.typed \in SUBSET Words /\ scene.shown \in SUBSET Pictures /\ scene.version \in Nat
        BY <1>1 DEF Types, Written
      <3> QED  BY <3>1, <3>2 DEF Calling, Pcs
    <2>2. op' = [op EXCEPT ![t] = c]  BY <1>3
    <2> HIDE DEF c
    <2>3. Becomes(t, c)  BY <1>1, <2>1, <2>2, CallBecomes
    <2> QED  BY <1>1, <2>1, <2>3 DEF Types, Becomes
  <1> QED  BY <1>2, <1>3

LEMMA PlaceAppendDoes ==
  ASSUME Inv, NEW t \in Calls, PlaceAppend(t)
  PROVE  /\ Types' /\ op[t].pc = "append" /\ UNCHANGED <<gallery, request, drawn, spent, up>>
         /\ Rewrites
         /\ \/ /\ Goes(t, "placed") /\ AsRead(t)
               /\ scene'.typed = op[t].typed /\ scene'.shown = op[t].shown \cup {op[t].pic}
            \/ Goes(t, "unplaced") /\ scene' = scene
            \/ /\ Others(t) /\ op'[t].pc = "place" /\ op'[t].req = op[t].req
               /\ op'[t].pic = op[t].pic /\ scene' = scene
  <1> USE DEF PlaceAppend
  <1>1. Types /\ op[t].pc = "append" /\ op[t].pic \in Pictures  BY DEF Inv, Served, Placing
  <1>2. scene \in Written /\ op[t] \in Calling  BY <1>1 DEF Types
  <1>3. CASE AsRead(t)
    <2>1. op[t].typed \in SUBSET Words /\ op[t].shown \in SUBSET Pictures
      BY <1>2 DEF Calling
    <2> DEFINE s == op[t].shown \cup {op[t].pic}
               v == scene.version + 1
    <2>2. s \in SUBSET Pictures /\ v \in Nat /\ scene.version \in Nat  BY <1>1, <1>2, <2>1 DEF Written
    <2>3. scene' = [scene EXCEPT !.typed = op[t].typed, !.shown = s, !.version = v]  BY <1>3
    <2> HIDE DEF s
    <2>4. /\ scene' \in Written /\ scene'.there = scene.there
          /\ scene'.typed = op[t].typed /\ scene'.shown = s /\ scene'.version = v
      BY <1>2, <2>1, <2>2, <2>3, SceneBecomes
    <2>5. Goes(t, "placed")  BY <1>1, <1>3, CallGoes DEF Go, Pcs
    <2> QED  BY <1>1, <1>3, <2>2, <2>4, <2>5 DEF s, Types, Goes, Rewrites
  <1>4. CASE ~AsRead(t)
    <2>1. scene' = scene /\ Rewrites  BY <1>2, <1>4 DEF Rewrites, Written
    <2>2. CASE scene.there /\ op[t].tries + 1 < Tries
      <3> DEFINE c == [op[t] EXCEPT !.pc = "place", !.tries = op[t].tries + 1]
      <3>1. c \in Calling /\ c.pc = "place" /\ c.req = op[t].req /\ c.pic = op[t].pic
        <4>1. op[t].tries + 1 \in Nat  BY <1>2 DEF Calling
        <4> QED  BY <1>2, <4>1 DEF Calling, Pcs
      <3>2. op' = [op EXCEPT ![t] = c]  BY <1>1, <1>4, <2>2 DEF Types
      <3> HIDE DEF c
      <3>3. Becomes(t, c)  BY <1>1, <3>1, <3>2, CallBecomes
      <3> QED  BY <1>1, <2>1, <3>1, <3>3 DEF Types, Becomes
    <2>3. CASE ~(scene.there /\ op[t].tries + 1 < Tries)
      <3>1. Goes(t, "unplaced")  BY <1>1, <1>4, <2>3, CallGoes DEF Go, Pcs
      <3> QED  BY <1>1, <2>1, <3>1 DEF Types, Goes
    <2> QED  BY <2>2, <2>3
  <1> QED  BY <1>3, <1>4

LEMMA DoneDoes ==
  ASSUME Inv, NEW t \in Calls, Done(t)
  PROVE  /\ Types' /\ op[t].pc \in {"placed", "unplaced"} /\ op[t].req \in Requests
         /\ Ends(t) /\ Gets(op[t].req, "done") /\ UNCHANGED <<scene, gallery, drawn, spent, up>>
  <1> USE DEF Done
  <1>1. Types /\ op[t].pc \in {"placed", "unplaced"} /\ op[t].req \in Requests
    BY DEF Inv, Served, Placing
  <1> DEFINE well == op[t].pc = "placed"
             f == [request[op[t].req] EXCEPT !.status = "done", !.pic = op[t].pic, !.placed = well]
  <1>2. f \in Filed /\ f.status = "done" /\ f.unclosed = request[op[t].req].unclosed
    <2>1. request[op[t].req] \in Filed /\ op[t].pic \in Pictures \cup {0}  BY <1>1 DEF Types, Calling
    <2>2. well \in BOOLEAN  OBVIOUS
    <2> HIDE DEF well
    <2> QED  BY <2>1, <2>2 DEF Filed, Statuses
  <1>3. request' = [request EXCEPT ![op[t].req] = f]  BY Zenon
  <1> HIDE DEF f
  <1>4. Gets(op[t].req, "done")  BY <1>1, <1>2, <1>3, RequestBecomes
  <1>5. Ends(t)  BY <1>1, CallEnds
  <1> QED  BY <1>1, <1>4, <1>5 DEF Types, Gets, Ends

LEMMA LeaveDoes ==
  ASSUME Inv, NEW t \in Calls, Leave(t)
  PROVE  /\ Types' /\ Same /\ op[t].pc \in DrawPcs /\ op[t].req \in Requests /\ Ends(t)
         /\ Unclosed(op[t].req) /\ UNCHANGED <<scene, gallery, drawn, up>>
  <1> USE DEF Leave
  <1>1. /\ Types /\ Same /\ op[t].pc \in DrawPcs /\ op[t].req \in Requests
    BY WriteCounts DEF Inv, Served, Placing, DrawPcs
  <1>2. Unclosed(op[t].req)
    <2>1. \A r \in Requests : request[r] \in Filed  BY <1>1 DEF Types
    <2>2. request' \in [Requests -> Filed] /\ request'[op[t].req].unclosed
      BY <1>1, <2>1 DEF Types, Filed
    <2>3. request'[op[t].req].status = request[op[t].req].status  BY <1>1, <2>1 DEF Types, Filed
    <2>4. \A q \in Requests \ {op[t].req} : request'[q] = request[q]  BY <1>1 DEF Types
    <2> QED  BY <2>2, <2>3, <2>4 DEF Unclosed, Status
  <1>3. Ends(t)  BY <1>1, CallEnds
  <1> QED  BY <1>1, <1>2, <1>3 DEF Types, Unclosed, Ends, Same

LEMMA DeleteBeginDoes ==
  ASSUME Inv, NEW t \in Calls, DeleteBegin(t)
  PROVE  /\ Types' /\ Same /\ Others(t) /\ op'[t].pc = "asCover"
         /\ op[t].pc = "idle" /\ up /\ UNCHANGED <<scene, gallery, request, drawn, up>>
  <1> USE DEF DeleteBegin
  <1>1. Types /\ Same  BY WriteCounts DEF Inv
  <1>2. PICK pic \in gallery : op' = [op EXCEPT ![t].pc = "asCover", ![t].pic = pic]  OBVIOUS
  <1> DEFINE c == [op[t] EXCEPT !.pc = "asCover", !.pic = pic]
  <1>3. c \in Calling /\ c.pc = "asCover"
    <2>1. op[t] \in Calling /\ pic \in Pictures  BY <1>1 DEF Types
    <2> QED  BY <2>1 DEF Calling, Pcs
  <1>4. op' = [op EXCEPT ![t] = c]  BY <1>1, <1>2 DEF Types
  <1> HIDE DEF c
  <1>5. Becomes(t, c)  BY <1>1, <1>3, <1>4, CallBecomes
  <1> QED  BY <1>1, <1>3, <1>5 DEF Types, Becomes, Same

LEMMA DeleteCheckDoes ==
  ASSUME Inv, NEW t \in Calls, DeleteCheck(t)
  PROVE  /\ Types' /\ op[t].pc \in {"asCover", "asFace"}
         /\ (Ends(t) \/ Goes(t, "asFace") \/ Goes(t, "delete"))
         /\ UNCHANGED <<scene, gallery, request, drawn, spent, up>>
  <1> USE DEF DeleteCheck
  <1>1. Types  BY DEF Inv
  <1>2. Ends(t) \/ Goes(t, "asFace") \/ Goes(t, "delete")  BY <1>1, CallEnds, CallGoes DEF Go, Pcs
  <1> QED  BY <1>1, <1>2 DEF Types, Ends, Goes

LEMMA DeleteRowDoes ==
  ASSUME Inv, NEW t \in Calls, DeleteRow(t)
  PROVE  /\ Types' /\ op[t].pc = "delete" /\ Ends(t) /\ gallery' \subseteq gallery
         /\ UNCHANGED <<scene, request, drawn, spent, up>>
  <1>1. Types /\ Ends(t)  BY CallEnds DEF Inv, DeleteRow
  <1> QED  BY <1>1 DEF DeleteRow, Types, Ends

LEMMA CoverBeginDoes ==
  ASSUME Inv, NEW t \in Calls, CoverBegin(t)
  PROVE  /\ Types' /\ Same /\ Others(t) /\ op'[t].pc = "cover"
         /\ op[t].pc = "idle" /\ up /\ UNCHANGED <<scene, gallery, request, drawn, up>>
  <1> USE DEF CoverBegin
  <1>1. Types /\ Same  BY WriteCounts DEF Inv
  <1>2. PICK pic \in gallery \cup {0} : op' = [op EXCEPT ![t].pc = "cover", ![t].pic = pic]  OBVIOUS
  <1> DEFINE c == [op[t] EXCEPT !.pc = "cover", !.pic = pic]
  <1>3. c \in Calling /\ c.pc = "cover"
    <2>1. op[t] \in Calling /\ pic \in Pictures \cup {0}  BY <1>1 DEF Types
    <2> QED  BY <2>1 DEF Calling, Pcs
  <1>4. op' = [op EXCEPT ![t] = c]  BY <1>1, <1>2 DEF Types
  <1> HIDE DEF c
  <1>5. Becomes(t, c)  BY <1>1, <1>3, <1>4, CallBecomes
  <1> QED  BY <1>1, <1>3, <1>5 DEF Types, Becomes, Same

LEMMA CoverSetDoes ==
  ASSUME Inv, NEW t \in Calls, CoverSet(t)
  PROVE  /\ Types' /\ op[t].pc = "cover" /\ Ends(t)
         /\ UNCHANGED <<scene, gallery, request, drawn, spent, up>>
  <1>1. Types /\ Ends(t)  BY CallEnds DEF Inv, CoverSet
  <1>2. chosen' \in Naming
    <2>1. chosen \in Naming /\ op[t].pic \in Pictures \cup {0}  BY <1>1 DEF Types, Calling
    <2> QED  BY <2>1 DEF Naming, CoverSet
  <1> QED  BY <1>1, <1>2 DEF CoverSet, Types, Ends

LEMMA SetRepresentativeDoes ==
  ASSUME Inv, SetRepresentative
  PROVE  Types' /\ Same /\ UNCHANGED <<scene, gallery, request, drawn, op, up>>
  <1>1. Types /\ Same  BY WriteCounts DEF Inv, SetRepresentative
  <1>2. chosen' \in Naming
    <2>1. chosen \in Naming /\ gallery \subseteq Pictures  BY <1>1 DEF Types
    <2> QED  BY <2>1 DEF Naming, SetRepresentative
  <1> QED  BY <1>1, <1>2 DEF SetRepresentative, Types, Same

LEMMA SaveSceneDoes ==
  ASSUME Inv, SaveScene
  PROVE  Types' /\ Same /\ Rewrites /\ UNCHANGED <<gallery, request, drawn, op, up>>
  <1>1. Types /\ Same  BY WriteCounts DEF Inv, SaveScene
  <1>2. scene \in Written /\ gallery \subseteq Pictures  BY <1>1 DEF Types
  <1>3. scene.typed \in SUBSET Words /\ scene.shown \in SUBSET Pictures /\ scene.version \in Nat
    BY <1>2 DEF Written
  <1> DEFINE v == scene.version + 1
  <1>4. ASSUME NEW w \in Words \ scene.typed,
               scene' = [scene EXCEPT !.typed = @ \cup {w}, !.version = @ + 1]
        PROVE  scene' \in Written /\ Rewrites
    <2> DEFINE ws == scene.typed \cup {w}
    <2>1. ws \in SUBSET Words /\ v \in Nat  BY <1>3
    <2>2. scene' = [scene EXCEPT !.typed = ws, !.version = v]  BY <1>4
    <2> HIDE DEF ws
    <2>3. /\ scene' \in Written /\ scene'.there = scene.there
          /\ scene'.typed = ws /\ scene'.shown = scene.shown /\ scene'.version = v
      BY <1>2, <1>3, <2>1, <2>2, SceneBecomes
    <2> QED  BY <1>3, <2>3 DEF Rewrites
  <1>5. ASSUME NEW pic \in gallery \cup scene.shown,
               scene' = [scene EXCEPT !.version = @ + 1,
                                      !.shown = IF pic \in @ THEN @ \ {pic} ELSE @ \cup {pic}]
        PROVE  scene' \in Written /\ Rewrites
    <2> DEFINE s == IF pic \in scene.shown THEN scene.shown \ {pic} ELSE scene.shown \cup {pic}
    <2>1. s \in SUBSET Pictures /\ v \in Nat  BY <1>2, <1>3
    <2>2. scene' = [scene EXCEPT !.version = v, !.shown = s]  BY <1>5
    <2> HIDE DEF s
    <2>3. /\ scene' \in Written /\ scene'.there = scene.there
          /\ scene'.typed = scene.typed /\ scene'.shown = s /\ scene'.version = v
      BY <1>2, <1>3, <2>1, <2>2, SceneBecomes
    <2> QED  BY <1>3, <2>3 DEF Rewrites
  <1>6. scene' \in Written /\ Rewrites  BY <1>4, <1>5 DEF SaveScene
  <1> QED  BY <1>1, <1>6 DEF SaveScene, Types, Same

LEMMA DeleteSceneDoes ==
  ASSUME Inv, DeleteScene
  PROVE  Types' /\ Same /\ Rewrites /\ UNCHANGED <<gallery, request, drawn, op, up>>
  <1> USE DEF DeleteScene
  <1>1. Types /\ Same  BY WriteCounts DEF Inv
  <1>2. scene \in Written /\ chosen \in Naming  BY <1>1 DEF Types
  <1>3. scene' \in Written /\ scene'.there = FALSE /\ scene'.version = scene.version /\ scene.version \in Nat
    <2>1. DOMAIN scene = {"there", "typed", "shown", "version"} /\ scene.version \in Nat  BY <1>2 DEF Written
    <2>2. scene' = [there |-> FALSE, typed |-> {}, shown |-> {}, version |-> scene.version]
      BY <1>2, Zenon DEF Written
    <2> QED  BY <2>1, <2>2 DEF Written
  <1>4. chosen' \in Naming  BY <1>2 DEF Naming
  <1> QED  BY <1>1, <1>3, <1>4 DEF Types, Same, Rewrites

LEMMA CrashDoes ==
  ASSUME Inv, Crash
  PROVE  /\ Types' /\ up' = FALSE /\ \A t \in Calls : op'[t].pc = "idle" /\ op'[t].req = 0
         /\ spent'.requests = spent.requests /\ spent'.crashes = spent.crashes + 1
         /\ UNCHANGED <<scene, gallery, request, drawn>>
  <1> USE DEF Crash
  <1>1. Types  BY DEF Inv
  <1>2. spent' \in Counters /\ spent'.requests = spent.requests /\ spent'.crashes = spent.crashes + 1
    <2>1. spent \in Counters  BY <1>1 DEF Types
    <2> QED  BY <2>1 DEF Counters
  <1>3. op' \in [Calls -> Calling] /\ \A t \in Calls : op'[t].pc = "idle" /\ op'[t].req = 0
    BY IdleIsCalling
  <1> QED  BY <1>1, <1>2, <1>3 DEF Types

LEMMA StartDoes ==
  ASSUME Inv, Start
  PROVE  /\ Types' /\ ~up /\ UNCHANGED <<scene, gallery, drawn, op, spent>>
         /\ \A r \in Requests : IF Status(r) = "generating"
                                THEN Status(r)' = "failed" /\ ~request'[r].unclosed
                                ELSE request'[r] = request[r]
  <1> USE DEF Start
  <1>1. Types  BY DEF Inv
  <1>2. ASSUME NEW r \in Requests
        PROVE  /\ Recovered[r] \in Filed
               /\ IF Status(r) = "generating" THEN Recovered[r].status = "failed" /\ ~Recovered[r].unclosed
                  ELSE Recovered[r] = request[r]
    <2>1. request[r] \in Filed  BY <1>1 DEF Types
    <2>2. CASE Status(r) = "generating"
      <3>1. Recovered[r] = [request[r] EXCEPT !.status = "failed", !.unclosed = FALSE]  BY <2>2 DEF Recovered, Status
      <3> QED  BY <2>1, <2>2, <3>1 DEF Filed, Statuses
    <2>3. CASE Status(r) # "generating"  BY <2>1, <2>3 DEF Recovered, Status
    <2> QED  BY <2>2, <2>3
  <1>3. request' \in [Requests -> Filed]  BY <1>2 DEF Recovered
  <1> QED  BY <1>1, <1>2, <1>3 DEF Types, Recovered, Status


-----------------------------------------------------------------------------
(* The invariant, part by part. *)

\* A call that does nothing in the step knows what it knew, unless its request has
\* become another.
LEMMA ServedStays ==
  ASSUME Types, Types', NEW u \in Calls, Served(u), op'[u] = op[u], up' = up,
         spent.requests <= spent'.requests,
         \/ request' = request
         \/ op[u].req \in Requests => request'[op[u].req] = request[op[u].req]
         \/ op[u].pc \notin {"insert"} \cup DrawPcs /\ request'[op[u].req].status # "none"
  PROVE  Served(u)'
  <1>1. op[u].req \in Requests \cup {0}
    <2>1. op[u].req \in 0..MaxRequests  BY DEF Types, Calling
    <2> QED  BY <2>1, Bounds DEF Requests
  <1>2. spent.requests \in Nat /\ spent'.requests \in Nat  BY Bounds DEF Types, Counters
  <1>3. op[u].req \in Nat  BY <1>1 DEF Requests
  <1> QED  BY <1>1, <1>2, <1>3 DEF Served, Status, Placing, DrawPcs

\* What a call knows that is to file, or draws, excludes every other one.
LEMMA ServedGets ==
  ASSUME Types, Types', NEW u \in Calls, Served(u), op'[u] = op[u], up' = up,
         spent' = spent, NEW r \in Requests, NEW s \in Statuses \ {"none"}, Gets(r, s),
         op[u].req = r => op[u].pc \notin {"insert"} \cup DrawPcs
  PROVE  Served(u)'
  <1>0. spent.requests <= spent'.requests  BY Bounds DEF Types, Counters
  <1>1. CASE op[u].req = r
    <2>1. request'[op[u].req].status = s  BY <1>1 DEF Gets, Status
    <2> QED  BY <1>0, <1>1, <2>1, ServedStays
  <1>2. CASE op[u].req # r
    <2>1. op[u].req \in Requests => request'[op[u].req] = request[op[u].req]  BY <1>2 DEF Gets
    <2> QED  BY <1>0, <2>1, ServedStays
  <1> QED  BY <1>1, <1>2

LEMMA ServedWeeds ==
  ASSUME Types, Types', NEW u \in Calls, Served(u), op'[u] = op[u], up' = up, spent' = spent, Weeds
  PROVE  Served(u)'
  <1>0. spent.requests <= spent'.requests  BY Bounds DEF Types, Counters
  <1>1. CASE op[u].req \in Requests => request'[op[u].req] = request[op[u].req]
    BY <1>0, <1>1, ServedStays
  <1>2. CASE op[u].req \in Requests /\ request'[op[u].req] # request[op[u].req]
    <2>1. Status(op[u].req) \in Open /\ request'[op[u].req].status = "cancelled"  BY <1>2 DEF Weeds, Status
    <2>2. op[u].pc \notin {"insert"} \cup DrawPcs
      BY <1>2, <2>1, Bounds DEF Served, Open, Requests
    <2>3. request'[op[u].req].status # "none"  BY <2>1
    <2> QED  BY <1>0, <2>2, <2>3, ServedStays
  <1> QED  BY <1>1, <1>2

LEMMA NonZeroIsRequest ==
  ASSUME Inv, NEW t \in Calls, op[t].req # 0 PROVE op[t].req \in Requests
  <1>1. op[t].req \in 0..MaxRequests  BY DEF Inv, Types, Calling
  <1> QED  BY <1>1, Bounds DEF Requests

LEMMA ServedStep ==
  ASSUME Inv, [Next]_vars, NEW u \in Calls
  PROVE  Served(u)'
  <1>0. /\ Types /\ Served(u) /\ spent.requests \in Nat
        /\ \A v \in Calls : Served(v) /\ Apart(u, v)
        /\ \A r \in Requests : r > spent.requests => Status(r) = "none"  BY Bounds DEF Inv, Types, Counters, Standing
  <1>1. ASSUME NEW t \in Calls, SubmitCount(t) PROVE Served(u)'
    <2>0. /\ Types' /\ Others(t) /\ op'[t].pc = "insert" /\ op'[t].req = spent.requests + 1
          /\ op'[t].req \in Requests /\ spent'.requests = spent.requests + 1 /\ request' = request /\ up /\ up' = up
      BY <1>1, SubmitCountDoes
    <2>1. CASE u = t  BY <1>0, <2>0, <2>1 DEF Served, Status, Placing, DrawPcs
    <2>2. CASE u # t  BY <1>0, <2>0, <2>2, ServedStays DEF Others
    <2> QED  BY <2>1, <2>2
  <1>2. ASSUME NEW t \in Calls, SubmitInsert(t) PROVE Served(u)'
    <2>0. /\ Types' /\ Ends(t) /\ Gets(op[t].req, "pending") /\ op[t].req \in Requests
          /\ op[t].pc = "insert" /\ spent' = spent /\ up' = up
      BY <1>2, SubmitInsertDoes
    <2>1. CASE u = t  BY <2>0, <2>1 DEF Served, Ends, Placing, DrawPcs
    <2>2. CASE u # t  
      <3>1. op[u].req = op[t].req => op[u].pc \notin {"insert"} \cup DrawPcs
        BY <1>0, <2>0, <2>2, Bounds DEF Served, Apart, Requests
      <3> QED  BY <1>0, <2>0, <2>2, <3>1, ServedGets DEF Others, Ends, Statuses
    <2> QED  BY <2>1, <2>2
  <1>3. ASSUME NEW t \in Calls, ApproveBegin(t) PROVE Served(u)'
    <2>0. /\ Types' /\ Weeds /\ Others(t) /\ op'[t].pc = "claim" /\ op'[t].req \in Requests
          /\ Status(op'[t].req) \in Open /\ spent' = spent /\ up /\ up' = up
      BY <1>3, ApproveBeginDoes
    <2>1. CASE u = t  
      <3>1. request'[op'[t].req].status # "none"  BY <2>0 DEF Weeds, Status, Open
      <3> QED  BY <2>0, <2>1, <3>1 DEF Served, Placing, DrawPcs, Status
    <2>2. CASE u # t  BY <1>0, <2>0, <2>2, ServedWeeds DEF Others
    <2> QED  BY <2>1, <2>2
  <1>4. ASSUME NEW t \in Calls, Claim(t) PROVE Served(u)'
    <2>0. /\ Types' /\ op[t].pc = "claim" /\ op[t].req \in Requests /\ spent' = spent /\ up' = up /\ (~up => op[t].pc = "idle")
          /\ \/ Status(op[t].req) \in Open /\ Goes(t, "paint") /\ Gets(op[t].req, "generating")
             \/ Ends(t) /\ UNCHANGED request
      BY <1>4, ClaimDoes DEF Inv, Served
    <2>1. CASE u = t
      <3>1. Status(op[t].req) \in Open => ~request[op[t].req].unclosed
        BY <2>0 DEF Inv, Standing, Open
      <3> QED  BY <1>0, <2>0, <2>1, <3>1 DEF Served, Goes, Ends, Gets, Status, Placing, DrawPcs
    <2>2. CASE u # t  
      <3>1. CASE Ends(t) /\ UNCHANGED request
        <4>1. op'[u] = op[u] /\ spent.requests <= spent'.requests  BY <2>0, <2>2, <3>1 DEF Ends, Others, Types, Counters
        <4> QED  BY <1>0, <2>0, <3>1, <4>1, ServedStays
      <3>2. CASE Status(op[t].req) \in Open /\ Goes(t, "paint") /\ Gets(op[t].req, "generating")
        <4>1. op[u].req = op[t].req => op[u].pc \notin {"insert"} \cup DrawPcs
          BY <1>0, <2>0, <3>2, Bounds DEF Served, Open, Requests
        <4>2. op'[u] = op[u]  BY <2>2, <3>2 DEF Goes, Others
        <4> QED  BY <1>0, <2>0, <3>2, <4>1, <4>2, ServedGets DEF Statuses
      <3> QED  BY <2>0, <3>1, <3>2
    <2> QED  BY <2>1, <2>2
  <1>5. ASSUME NEW t \in Calls, DrawBegin(t) PROVE Served(u)'
    <2>0. /\ Types' /\ request' = request /\ up' = up /\ spent'.requests = spent.requests /\ Goes(t, "paint") /\ op[t].pc = "idle" /\ up
      BY <1>5, DrawBeginDoes DEF Same
    <2>1. CASE u = t  BY <1>0, <2>0, <2>1 DEF Served, Ends, Goes, Status, Placing, DrawPcs
    <2>2. CASE u # t  
      <3>1. op'[u] = op[u]  BY <2>0, <2>2, Zenon DEF Ends, Goes, Others
      <3>2. spent.requests <= spent'.requests  BY <1>0, <2>0
      <3> QED  BY <1>0, <2>0, <3>1, <3>2, ServedStays
    <2> QED  BY <2>1, <2>2
  <1>6. ASSUME NEW t \in Calls, Paint(t) PROVE Served(u)'
    <2>0. /\ Types' /\ request' = request /\ up' = up /\ spent'.requests = spent.requests /\ op[t].pc = "paint"
          /\ \/ Goes(t, "add")
             \/ op[t].req = 0 /\ Ends(t)
             \/ op[t].req # 0 /\ Goes(t, "fail") /\ op[t].req \in Requests
      BY <1>6, PaintDoes, NonZeroIsRequest
    <2>1. CASE u = t  BY <1>0, <2>0, <2>1 DEF Served, Ends, Goes, Status, Placing, DrawPcs
    <2>2. CASE u # t  
      <3>1. op'[u] = op[u]  BY <2>0, <2>2, Zenon DEF Ends, Goes, Others
      <3>2. spent.requests <= spent'.requests  BY <1>0, <2>0
      <3> QED  BY <1>0, <2>0, <3>1, <3>2, ServedStays
    <2> QED  BY <2>1, <2>2
  <1>7. ASSUME NEW t \in Calls, Add(t) PROVE Served(u)'
    <2>0. /\ Types' /\ request' = request /\ up' = up /\ spent'.requests = spent.requests /\ op[t].pc = "add" /\ Others(t)
          /\ \/ op'[t].pc = "idle" /\ op'[t].req = 0
             \/ op[t].req # 0 /\ Goes(t, "fail") /\ op[t].req \in Requests
             \/ /\ op'[t].pc = "place" /\ op'[t].req = op[t].req /\ op'[t].req \in Requests
                /\ op'[t].pic \in Pictures
      BY <1>7, AddDoes, NonZeroIsRequest DEF Same, Ends, Goes
    <2>1. CASE u = t  BY <1>0, <2>0, <2>1 DEF Served, Ends, Goes, Status, Placing, DrawPcs
    <2>2. CASE u # t  
      <3>1. op'[u] = op[u]  BY <2>0, <2>2, Zenon DEF Ends, Goes, Others
      <3>2. spent.requests <= spent'.requests  BY <1>0, <2>0
      <3> QED  BY <1>0, <2>0, <3>1, <3>2, ServedStays
    <2> QED  BY <2>1, <2>2
  <1>8. ASSUME NEW t \in Calls, Fail(t) PROVE Served(u)'
    <2>0. /\ Types' /\ Ends(t) /\ Gets(op[t].req, "failed") /\ op[t].req \in Requests
          /\ op[t].pc \in DrawPcs /\ spent' = spent /\ up' = up
      BY <1>8, FailDoes DEF DrawPcs, Placing
    <2>1. CASE u = t  BY <2>0, <2>1 DEF Served, Ends, Placing, DrawPcs
    <2>2. CASE u # t  
      <3>0. op[t].req # 0 /\ Status(op[t].req) = "generating"  BY <1>0, <2>0, Bounds DEF Served, Requests
      <3>1. op[u].req = op[t].req => op[u].pc \notin {"insert"} \cup DrawPcs
        BY <1>0, <2>0, <2>2, <3>0 DEF Served, Apart
      <3> QED  BY <1>0, <2>0, <2>2, <3>1, ServedGets DEF Others, Ends, Statuses
    <2> QED  BY <2>1, <2>2
  <1>9. ASSUME NEW t \in Calls, PlaceElsewhere(t) PROVE Served(u)'
    <2>0. /\ Types' /\ request' = request /\ up' = up /\ spent'.requests = spent.requests /\ op[t].pc = "place" /\ (Goes(t, "placed") \/ Goes(t, "unplaced"))
      BY <1>9, PlaceElsewhereDoes
    <2>1. CASE u = t  BY <1>0, <2>0, <2>1 DEF Served, Ends, Goes, Status, Placing, DrawPcs
    <2>2. CASE u # t  
      <3>1. op'[u] = op[u]  BY <2>0, <2>2, Zenon DEF Ends, Goes, Others
      <3>2. spent.requests <= spent'.requests  BY <1>0, <2>0
      <3> QED  BY <1>0, <2>0, <3>1, <3>2, ServedStays
    <2> QED  BY <2>1, <2>2
  <1>10. ASSUME NEW t \in Calls, PlaceRead(t) PROVE Served(u)'
    <2>0. /\ Types' /\ request' = request /\ up' = up /\ spent'.requests = spent.requests /\ op[t].pc = "place" /\ Others(t)
          /\ op'[t].pc \in {"unplaced", "append"} /\ op'[t].req = op[t].req /\ op'[t].pic = op[t].pic
      BY <1>10, PlaceReadDoes DEF Goes
    <2>1. CASE u = t  BY <1>0, <2>0, <2>1 DEF Served, Ends, Goes, Status, Placing, DrawPcs
    <2>2. CASE u # t  
      <3>1. op'[u] = op[u]  BY <2>0, <2>2, Zenon DEF Ends, Goes, Others
      <3>2. spent.requests <= spent'.requests  BY <1>0, <2>0
      <3> QED  BY <1>0, <2>0, <3>1, <3>2, ServedStays
    <2> QED  BY <2>1, <2>2
  <1>11. ASSUME NEW t \in Calls, PlaceAppend(t) PROVE Served(u)'
    <2>0. /\ Types' /\ request' = request /\ up' = up /\ spent'.requests = spent.requests /\ op[t].pc = "append" /\ Others(t)
          /\ op'[t].pc \in {"place", "placed", "unplaced"} /\ op'[t].req = op[t].req /\ op'[t].pic = op[t].pic
      BY <1>11, PlaceAppendDoes DEF Goes
    <2>1. CASE u = t  BY <1>0, <2>0, <2>1 DEF Served, Ends, Goes, Status, Placing, DrawPcs
    <2>2. CASE u # t  
      <3>1. op'[u] = op[u]  BY <2>0, <2>2, Zenon DEF Ends, Goes, Others
      <3>2. spent.requests <= spent'.requests  BY <1>0, <2>0
      <3> QED  BY <1>0, <2>0, <3>1, <3>2, ServedStays
    <2> QED  BY <2>1, <2>2
  <1>12. ASSUME NEW t \in Calls, Done(t) PROVE Served(u)'
    <2>0. /\ Types' /\ Ends(t) /\ Gets(op[t].req, "done") /\ op[t].req \in Requests
          /\ op[t].pc \in DrawPcs /\ spent' = spent /\ up' = up
      BY <1>12, DoneDoes DEF DrawPcs, Placing
    <2>1. CASE u = t  BY <2>0, <2>1 DEF Served, Ends, Placing, DrawPcs
    <2>2. CASE u # t  
      <3>0. op[t].req # 0 /\ Status(op[t].req) = "generating"  BY <1>0, <2>0, Bounds DEF Served, Requests
      <3>1. op[u].req = op[t].req => op[u].pc \notin {"insert"} \cup DrawPcs
        BY <1>0, <2>0, <2>2, <3>0 DEF Served, Apart
      <3> QED  BY <1>0, <2>0, <2>2, <3>1, ServedGets DEF Others, Ends, Statuses
    <2> QED  BY <2>1, <2>2
  <1>13. ASSUME NEW t \in Calls, DeleteBegin(t) PROVE Served(u)'
    <2>0. /\ Types' /\ request' = request /\ up' = up /\ spent'.requests = spent.requests /\ Others(t) /\ op'[t].pc = "asCover" /\ up
      BY <1>13, DeleteBeginDoes DEF Same
    <2>1. CASE u = t  BY <1>0, <2>0, <2>1 DEF Served, Ends, Goes, Status, Placing, DrawPcs
    <2>2. CASE u # t  
      <3>1. op'[u] = op[u]  BY <2>0, <2>2, Zenon DEF Ends, Goes, Others
      <3>2. spent.requests <= spent'.requests  BY <1>0, <2>0
      <3> QED  BY <1>0, <2>0, <3>1, <3>2, ServedStays
    <2> QED  BY <2>1, <2>2
  <1>14. ASSUME NEW t \in Calls, DeleteCheck(t) PROVE Served(u)'
    <2>0. /\ Types' /\ request' = request /\ up' = up /\ spent'.requests = spent.requests /\ op[t].pc \in {"asCover", "asFace"}
          /\ (Ends(t) \/ Goes(t, "asFace") \/ Goes(t, "delete"))
      BY <1>14, DeleteCheckDoes
    <2>1. CASE u = t  BY <1>0, <2>0, <2>1 DEF Served, Ends, Goes, Status, Placing, DrawPcs
    <2>2. CASE u # t  
      <3>1. op'[u] = op[u]  BY <2>0, <2>2, Zenon DEF Ends, Goes, Others
      <3>2. spent.requests <= spent'.requests  BY <1>0, <2>0
      <3> QED  BY <1>0, <2>0, <3>1, <3>2, ServedStays
    <2> QED  BY <2>1, <2>2
  <1>15. ASSUME NEW t \in Calls, DeleteRow(t) PROVE Served(u)'
    <2>0. /\ Types' /\ request' = request /\ up' = up /\ spent'.requests = spent.requests /\ Ends(t)
      BY <1>15, DeleteRowDoes
    <2>1. CASE u = t  BY <1>0, <2>0, <2>1 DEF Served, Ends, Goes, Status, Placing, DrawPcs
    <2>2. CASE u # t  
      <3>1. op'[u] = op[u]  BY <2>0, <2>2, Zenon DEF Ends, Goes, Others
      <3>2. spent.requests <= spent'.requests  BY <1>0, <2>0
      <3> QED  BY <1>0, <2>0, <3>1, <3>2, ServedStays
    <2> QED  BY <2>1, <2>2
  <1>16. ASSUME NEW t \in Calls, CoverBegin(t) PROVE Served(u)'
    <2>0. /\ Types' /\ request' = request /\ up' = up /\ spent'.requests = spent.requests /\ Others(t) /\ op'[t].pc = "cover" /\ up
      BY <1>16, CoverBeginDoes DEF Same
    <2>1. CASE u = t  BY <1>0, <2>0, <2>1 DEF Served, Ends, Goes, Status, Placing, DrawPcs
    <2>2. CASE u # t  
      <3>1. op'[u] = op[u]  BY <2>0, <2>2, Zenon DEF Ends, Goes, Others
      <3>2. spent.requests <= spent'.requests  BY <1>0, <2>0
      <3> QED  BY <1>0, <2>0, <3>1, <3>2, ServedStays
    <2> QED  BY <2>1, <2>2
  <1>17. ASSUME NEW t \in Calls, CoverSet(t) PROVE Served(u)'
    <2>0. /\ Types' /\ request' = request /\ up' = up /\ spent'.requests = spent.requests /\ Ends(t)
      BY <1>17, CoverSetDoes
    <2>1. CASE u = t  BY <1>0, <2>0, <2>1 DEF Served, Ends, Goes, Status, Placing, DrawPcs
    <2>2. CASE u # t  
      <3>1. op'[u] = op[u]  BY <2>0, <2>2, Zenon DEF Ends, Goes, Others
      <3>2. spent.requests <= spent'.requests  BY <1>0, <2>0
      <3> QED  BY <1>0, <2>0, <3>1, <3>2, ServedStays
    <2> QED  BY <2>1, <2>2
  <1>18. CASE List
    BY <1>0, <1>18, ListDoes, ServedWeeds
  <1>19. ASSUME NEW q \in Requests, Reject(q) PROVE Served(u)'
    <2>0. /\ Types' /\ Gets(q, "rejected") /\ Status(q) \in Open /\ op' = op /\ spent' = spent /\ up' = up
      BY <1>19, RejectDoes
    <2>1. op[u].req = q => op[u].pc \notin {"insert"} \cup DrawPcs
      BY <1>0, <2>0, Bounds DEF Served, Open, Requests
    <2> QED  BY <1>0, <2>0, <2>1, ServedGets DEF Statuses
  <1>20. CASE SetRepresentative
    <2>0. /\ Types' /\ request' = request /\ up' = up /\ op' = op /\ spent'.requests = spent.requests
      BY <1>20, SetRepresentativeDoes DEF Same
    <2>1. spent.requests <= spent'.requests  BY <1>0, <2>0 DEF Types, Counters
    <2> QED  BY <1>0, <2>0, <2>1, ServedStays
  <1>21. CASE SaveScene
    <2>0. /\ Types' /\ request' = request /\ up' = up /\ op' = op /\ spent'.requests = spent.requests
      BY <1>21, SaveSceneDoes DEF Same
    <2>1. spent.requests <= spent'.requests  BY <1>0, <2>0 DEF Types, Counters
    <2> QED  BY <1>0, <2>0, <2>1, ServedStays
  <1>22. CASE DeleteScene
    <2>0. /\ Types' /\ request' = request /\ up' = up /\ op' = op /\ spent'.requests = spent.requests
      BY <1>22, DeleteSceneDoes DEF Same
    <2>1. spent.requests <= spent'.requests  BY <1>0, <2>0 DEF Types, Counters
    <2> QED  BY <1>0, <2>0, <2>1, ServedStays
  <1>23. CASE Crash
    BY <1>23, CrashDoes DEF Served, Placing, DrawPcs
  <1>24. CASE Start
    <2>1. op'[u] = op[u] /\ op[u].pc = "idle" /\ op[u].req = 0  BY <1>0, <1>24, StartDoes DEF Served
    <2> QED  BY <2>1 DEF Served, Placing, DrawPcs
  <1>26. ASSUME NEW t \in Calls, Leave(t) PROVE Served(u)'
    <2>0. /\ Types' /\ Same /\ Ends(t) /\ Unclosed(op[t].req) /\ op[t].req \in Requests
          /\ op[t].pc \in DrawPcs /\ up' = up
      BY <1>26, LeaveDoes
    <2>1. CASE u = t  BY <2>0, <2>1 DEF Served, Ends, Placing, DrawPcs
    <2>2. CASE u # t
      <3>0. op[t].req # 0 /\ Status(op[t].req) = "generating"  BY <1>0, <2>0, Bounds DEF Served, Requests
      <3>1. op[u].req = op[t].req => op[u].pc \notin {"insert"} \cup DrawPcs
        BY <1>0, <2>0, <2>2, <3>0 DEF Served, Apart
      <3>2. /\ op'[u] = op[u] /\ spent.requests <= spent'.requests
        BY <1>0, <2>0, <2>2 DEF Ends, Others, Same, Types, Counters
      <3>3. CASE op[u].req = op[t].req
        <4>1. request'[op[u].req].status # "none"  BY <2>0, <3>0, <3>3 DEF Unclosed, Status
        <4> QED  BY <1>0, <2>0, <3>1, <3>2, <3>3, <4>1, ServedStays
      <3>4. CASE op[u].req # op[t].req
        <4>1. op[u].req \in Requests => request'[op[u].req] = request[op[u].req]
          BY <2>0, <3>4 DEF Unclosed
        <4> QED  BY <1>0, <2>0, <3>2, <4>1, ServedStays
      <3> QED  BY <3>3, <3>4
    <2> QED  BY <2>1, <2>2
  <1>25. CASE UNCHANGED vars  BY <1>0, <1>25 DEF vars, Served, Status
  <1> QED  BY <1>1, <1>2, <1>3, <1>4, <1>5, <1>6, <1>7, <1>8, <1>9, <1>10, <1>11, <1>12, <1>13, <1>14, <1>15, <1>16, <1>17, <1>18, <1>19, <1>20, <1>21, <1>22, <1>23, <1>24, <1>25, <1>26 DEF Next, Writer, Begin, Serve

\* What a call has read of the scene is what the scene says, or the scene has a later
\* version.
LEMMA CurrentStays ==
  ASSUME Types, Types', NEW u \in Calls, Current(u), Rewrites \/ scene' = scene,
         \/ op'[u] = op[u]
         \/ op'[u].pc # "append"
         \/ /\ scene' = scene /\ op'[u].version = scene.version
            /\ op'[u].typed = scene.typed /\ op'[u].shown = scene.shown
  PROVE  Current(u)'
  <1>1. scene.version \in Nat /\ scene'.version \in Nat /\ op[u].version \in Nat
    BY DEF Types, Written, Calling
  <1> QED  BY <1>1 DEF Current, Rewrites

LEMMA CurrentStep ==
  ASSUME Inv, [Next]_vars, NEW u \in Calls
  PROVE  Current(u)'
  <1>0. Types /\ Current(u)  BY Bounds DEF Inv
  <1>1. ASSUME NEW t \in Calls, SubmitCount(t) PROVE Current(u)'
    <2>1. /\ Types' /\ (Rewrites \/ scene' = scene)
          /\ op'[u] = op[u] \/ op'[u].pc # "append"
      BY <1>1, SubmitCountDoes DEF Ends, Goes, Others
    <2> QED  BY <1>0, <2>1, CurrentStays
  <1>2. ASSUME NEW t \in Calls, SubmitInsert(t) PROVE Current(u)'
    <2>1. /\ Types' /\ (Rewrites \/ scene' = scene)
          /\ op'[u] = op[u] \/ op'[u].pc # "append"
      BY <1>2, SubmitInsertDoes DEF Ends, Goes, Others
    <2> QED  BY <1>0, <2>1, CurrentStays
  <1>3. ASSUME NEW t \in Calls, ApproveBegin(t) PROVE Current(u)'
    <2>1. /\ Types' /\ (Rewrites \/ scene' = scene)
          /\ op'[u] = op[u] \/ op'[u].pc # "append"
      BY <1>3, ApproveBeginDoes DEF Ends, Goes, Others
    <2> QED  BY <1>0, <2>1, CurrentStays
  <1>4. ASSUME NEW t \in Calls, Claim(t) PROVE Current(u)'
    <2>1. /\ Types' /\ (Rewrites \/ scene' = scene)
          /\ op'[u] = op[u] \/ op'[u].pc # "append"
      BY <1>4, ClaimDoes DEF Ends, Goes, Others
    <2> QED  BY <1>0, <2>1, CurrentStays
  <1>5. ASSUME NEW t \in Calls, DrawBegin(t) PROVE Current(u)'
    <2>1. /\ Types' /\ (Rewrites \/ scene' = scene)
          /\ op'[u] = op[u] \/ op'[u].pc # "append"
      BY <1>5, DrawBeginDoes DEF Ends, Goes, Others
    <2> QED  BY <1>0, <2>1, CurrentStays
  <1>6. ASSUME NEW t \in Calls, Paint(t) PROVE Current(u)'
    <2>1. /\ Types' /\ (Rewrites \/ scene' = scene)
          /\ op'[u] = op[u] \/ op'[u].pc # "append"
      BY <1>6, PaintDoes DEF Ends, Goes, Others
    <2> QED  BY <1>0, <2>1, CurrentStays
  <1>7. ASSUME NEW t \in Calls, Add(t) PROVE Current(u)'
    <2>1. /\ Types' /\ (Rewrites \/ scene' = scene)
          /\ op'[u] = op[u] \/ op'[u].pc # "append"
      BY <1>7, AddDoes DEF Ends, Goes, Others
    <2> QED  BY <1>0, <2>1, CurrentStays
  <1>8. ASSUME NEW t \in Calls, Fail(t) PROVE Current(u)'
    <2>1. /\ Types' /\ (Rewrites \/ scene' = scene)
          /\ op'[u] = op[u] \/ op'[u].pc # "append"
      BY <1>8, FailDoes DEF Ends, Goes, Others
    <2> QED  BY <1>0, <2>1, CurrentStays
  <1>9. ASSUME NEW t \in Calls, PlaceElsewhere(t) PROVE Current(u)'
    <2>1. /\ Types' /\ (Rewrites \/ scene' = scene)
          /\ op'[u] = op[u] \/ op'[u].pc # "append"
      BY <1>9, PlaceElsewhereDoes DEF Ends, Goes, Others
    <2> QED  BY <1>0, <2>1, CurrentStays
  <1>10. ASSUME NEW t \in Calls, PlaceRead(t) PROVE Current(u)'
    <2>1. CASE u # t
      <3>1. Types' /\ scene' = scene /\ op'[u] = op[u]  BY <1>10, <2>1, PlaceReadDoes DEF Others, Goes
      <3> QED  BY <1>0, <3>1, CurrentStays
    <2>2. CASE u = t
      <3>1. /\ Types' /\ scene' = scene
            /\ \/ op'[u].pc # "append"
               \/ /\ op'[u].version = scene.version
                  /\ op'[u].typed = scene.typed /\ op'[u].shown = scene.shown
        BY <1>10, <2>2, PlaceReadDoes DEF Goes
      <3> QED  BY <1>0, <3>1, CurrentStays
    <2> QED  BY <2>1, <2>2
  <1>11. ASSUME NEW t \in Calls, PlaceAppend(t) PROVE Current(u)'
    <2>1. /\ Types' /\ (Rewrites \/ scene' = scene)
          /\ op'[u] = op[u] \/ op'[u].pc # "append"
      BY <1>11, PlaceAppendDoes DEF Ends, Goes, Others
    <2> QED  BY <1>0, <2>1, CurrentStays
  <1>12. ASSUME NEW t \in Calls, Done(t) PROVE Current(u)'
    <2>1. /\ Types' /\ (Rewrites \/ scene' = scene)
          /\ op'[u] = op[u] \/ op'[u].pc # "append"
      BY <1>12, DoneDoes DEF Ends, Goes, Others
    <2> QED  BY <1>0, <2>1, CurrentStays
  <1>13. ASSUME NEW t \in Calls, DeleteBegin(t) PROVE Current(u)'
    <2>1. /\ Types' /\ (Rewrites \/ scene' = scene)
          /\ op'[u] = op[u] \/ op'[u].pc # "append"
      BY <1>13, DeleteBeginDoes DEF Ends, Goes, Others
    <2> QED  BY <1>0, <2>1, CurrentStays
  <1>14. ASSUME NEW t \in Calls, DeleteCheck(t) PROVE Current(u)'
    <2>1. /\ Types' /\ (Rewrites \/ scene' = scene)
          /\ op'[u] = op[u] \/ op'[u].pc # "append"
      BY <1>14, DeleteCheckDoes DEF Ends, Goes, Others
    <2> QED  BY <1>0, <2>1, CurrentStays
  <1>15. ASSUME NEW t \in Calls, DeleteRow(t) PROVE Current(u)'
    <2>1. /\ Types' /\ (Rewrites \/ scene' = scene)
          /\ op'[u] = op[u] \/ op'[u].pc # "append"
      BY <1>15, DeleteRowDoes DEF Ends, Goes, Others
    <2> QED  BY <1>0, <2>1, CurrentStays
  <1>16. ASSUME NEW t \in Calls, CoverBegin(t) PROVE Current(u)'
    <2>1. /\ Types' /\ (Rewrites \/ scene' = scene)
          /\ op'[u] = op[u] \/ op'[u].pc # "append"
      BY <1>16, CoverBeginDoes DEF Ends, Goes, Others
    <2> QED  BY <1>0, <2>1, CurrentStays
  <1>17. ASSUME NEW t \in Calls, CoverSet(t) PROVE Current(u)'
    <2>1. /\ Types' /\ (Rewrites \/ scene' = scene)
          /\ op'[u] = op[u] \/ op'[u].pc # "append"
      BY <1>17, CoverSetDoes DEF Ends, Goes, Others
    <2> QED  BY <1>0, <2>1, CurrentStays
  <1>18. CASE List
    <2>1. /\ Types' /\ (Rewrites \/ scene' = scene)
          /\ op'[u] = op[u] \/ op'[u].pc # "append"
      BY <1>18, ListDoes DEF Ends, Goes, Others
    <2> QED  BY <1>0, <2>1, CurrentStays
  <1>19. ASSUME NEW q \in Requests, Reject(q) PROVE Current(u)'
    <2>1. /\ Types' /\ (Rewrites \/ scene' = scene)
          /\ op'[u] = op[u] \/ op'[u].pc # "append"
      BY <1>19, RejectDoes DEF Ends, Goes, Others
    <2> QED  BY <1>0, <2>1, CurrentStays
  <1>20. CASE SetRepresentative
    <2>1. /\ Types' /\ (Rewrites \/ scene' = scene)
          /\ op'[u] = op[u] \/ op'[u].pc # "append"
      BY <1>20, SetRepresentativeDoes DEF Ends, Goes, Others
    <2> QED  BY <1>0, <2>1, CurrentStays
  <1>21. CASE SaveScene
    <2>1. /\ Types' /\ (Rewrites \/ scene' = scene)
          /\ op'[u] = op[u] \/ op'[u].pc # "append"
      BY <1>21, SaveSceneDoes DEF Ends, Goes, Others
    <2> QED  BY <1>0, <2>1, CurrentStays
  <1>22. CASE DeleteScene
    <2>1. /\ Types' /\ (Rewrites \/ scene' = scene)
          /\ op'[u] = op[u] \/ op'[u].pc # "append"
      BY <1>22, DeleteSceneDoes DEF Ends, Goes, Others
    <2> QED  BY <1>0, <2>1, CurrentStays
  <1>23. CASE Crash
    <2>1. /\ Types' /\ (Rewrites \/ scene' = scene)
          /\ op'[u] = op[u] \/ op'[u].pc # "append"
      BY <1>23, CrashDoes DEF Ends, Goes, Others
    <2> QED  BY <1>0, <2>1, CurrentStays
  <1>24. CASE Start
    <2>1. /\ Types' /\ (Rewrites \/ scene' = scene)
          /\ op'[u] = op[u] \/ op'[u].pc # "append"
      BY <1>24, StartDoes DEF Ends, Goes, Others
    <2> QED  BY <1>0, <2>1, CurrentStays
  <1>26. ASSUME NEW t \in Calls, Leave(t) PROVE Current(u)'
    <2>1. /\ Types' /\ (Rewrites \/ scene' = scene)
          /\ op'[u] = op[u] \/ op'[u].pc # "append"
      BY <1>26, LeaveDoes DEF Ends, Others
    <2> QED  BY <1>0, <2>1, CurrentStays
  <1>25. CASE UNCHANGED vars  BY <1>0, <1>25 DEF vars, Current
  <1> QED  BY <1>1, <1>2, <1>3, <1>4, <1>5, <1>6, <1>7, <1>8, <1>9, <1>10, <1>11, <1>12, <1>13, <1>14, <1>15, <1>16, <1>17, <1>18, <1>19, <1>20, <1>21, <1>22, <1>23, <1>24, <1>25, <1>26 DEF Next, Writer, Begin, Serve

\* What two calls are about can only become the same where one takes up a request.
Milder(t) ==
    \/ op'[t].pc \notin {"insert"} \cup DrawPcs
    \/ op'[t].pc = "insert" /\ op[t].pc = "insert" /\ op'[t].req = op[t].req
    \/ /\ op'[t].pc \in DrawPcs
       /\ op'[t].req = 0 \/ (op[t].pc \in DrawPcs /\ op'[t].req = op[t].req)

LEMMA ApartStays ==
  ASSUME NEW u \in Calls, NEW v \in Calls, Apart(u, v), Milder(u), Milder(v)
  PROVE  Apart(u, v)'
  BY DEF Apart, Milder, Placing, DrawPcs

LEMMA Unmoved == ASSUME NEW u \in Calls, op'[u] = op[u] PROVE Milder(u)
  BY DEF Milder

LEMMA ApartStep ==
  ASSUME Inv, [Next]_vars, NEW u \in Calls, NEW v \in Calls
  PROVE  Apart(u, v)'
  <1>0. Types /\ Apart(u, v) /\ \A w \in Calls : Served(w)  BY Bounds DEF Inv
  <1>1. ASSUME NEW t \in Calls, SubmitCount(t) PROVE Apart(u, v)'
    <2>0. /\ op'[t].pc = "insert" /\ op'[t].req = spent.requests + 1 /\ spent.requests \in Nat
          /\ Others(t)
      BY <1>0, <1>1, SubmitCountDoes DEF Types, Counters
    <2>1. ASSUME NEW w \in Calls, w # t, op[w].pc = "insert" PROVE op'[w] = op[w] /\ op[w].req # op'[t].req
      <3>1. op[w].req <= spent.requests /\ op[w].req \in Nat  BY <1>0, <2>1 DEF Served, Requests
      <3> QED  BY <2>0, <2>1, <3>1 DEF Others
    <2>2. \A w \in Calls \ {t} : op'[w] = op[w]  BY <2>0 DEF Others
    <2> QED  BY <1>0, <2>0, <2>1, <2>2 DEF Apart, Placing, DrawPcs
  <1>2. ASSUME NEW t \in Calls, SubmitInsert(t) PROVE Apart(u, v)'
    <2>0. op'[t].pc \notin {"insert"} \cup DrawPcs /\ Others(t)  BY <1>2, SubmitInsertDoes DEF Ends, Goes, Placing, DrawPcs
    <2>1. Milder(t)  BY <1>0, <2>0 DEF Milder, Placing, DrawPcs
    <2>2. Milder(u) /\ Milder(v)  BY <2>0, <2>1, Unmoved DEF Others
    <2> QED  BY <1>0, <2>2, ApartStays
  <1>3. ASSUME NEW t \in Calls, ApproveBegin(t) PROVE Apart(u, v)'
    <2>0. op'[t].pc \notin {"insert"} \cup DrawPcs /\ Others(t)  BY <1>3, ApproveBeginDoes DEF Ends, Goes, Placing, DrawPcs
    <2>1. Milder(t)  BY <1>0, <2>0 DEF Milder, Placing, DrawPcs
    <2>2. Milder(u) /\ Milder(v)  BY <2>0, <2>1, Unmoved DEF Others
    <2> QED  BY <1>0, <2>2, ApartStays
  <1>4. ASSUME NEW t \in Calls, Claim(t) PROVE Apart(u, v)'
    <2>1. CASE Ends(t)
      <3>1. Milder(u) /\ Milder(v)  BY <2>1, Unmoved DEF Ends, Others, Milder, DrawPcs, Placing
      <3> QED  BY <1>0, <3>1, ApartStays
    <2>2. CASE ~Ends(t)
      <3>1. /\ op[t].req \in Requests /\ Status(op[t].req) \in Open
            /\ Others(t) /\ op'[t].pc = "paint" /\ op'[t].req = op[t].req
        BY <1>4, <2>2, ClaimDoes DEF Goes
      <3>2. \A w \in Calls : op[w].pc \in DrawPcs => op[w].req # op[t].req
        BY <1>0, <3>1, Bounds DEF Served, Open, Requests
      <3>3. \A w \in Calls \ {t} : op'[w] = op[w]  BY <3>1 DEF Others
      <3> QED  BY <1>0, <3>1, <3>2, <3>3 DEF Apart, Placing, DrawPcs
    <2> QED  BY <2>1, <2>2
  <1>5. ASSUME NEW t \in Calls, DrawBegin(t) PROVE Apart(u, v)'
    <2>0. op[t].pc = "idle" /\ op'[t].pc = "paint" /\ op'[t].req = op[t].req /\ Others(t)
      BY <1>5, DrawBeginDoes DEF Goes
    <2>1. op'[t].req = 0  BY <1>0, <2>0 DEF Served
    <2>2. Milder(t)  BY <2>0, <2>1 DEF Milder, DrawPcs
    <2>3. Milder(u) /\ Milder(v)  BY <2>0, <2>2, Unmoved DEF Others
    <2> QED  BY <1>0, <2>3, ApartStays
  <1>6. ASSUME NEW t \in Calls, Paint(t) PROVE Apart(u, v)'
    <2>0. /\ \/ op'[t].pc \notin {"insert"} \cup DrawPcs
             \/ op[t].pc \in DrawPcs /\ op'[t].pc \in DrawPcs /\ op'[t].req = op[t].req
          /\ Others(t)
       BY <1>6, PaintDoes DEF Ends, Goes, Placing, DrawPcs
    <2>1. Milder(t)  BY <1>0, <2>0 DEF Milder, Placing, DrawPcs
    <2>2. Milder(u) /\ Milder(v)  BY <2>0, <2>1, Unmoved DEF Others
    <2> QED  BY <1>0, <2>2, ApartStays
  <1>7. ASSUME NEW t \in Calls, Add(t) PROVE Apart(u, v)'
    <2>0. /\ \/ op'[t].pc \notin {"insert"} \cup DrawPcs
             \/ op[t].pc \in DrawPcs /\ op'[t].pc \in DrawPcs /\ op'[t].req = op[t].req
          /\ Others(t)
       BY <1>7, AddDoes DEF Ends, Goes, Placing, DrawPcs
    <2>1. Milder(t)  BY <1>0, <2>0 DEF Milder, Placing, DrawPcs
    <2>2. Milder(u) /\ Milder(v)  BY <2>0, <2>1, Unmoved DEF Others
    <2> QED  BY <1>0, <2>2, ApartStays
  <1>8. ASSUME NEW t \in Calls, Fail(t) PROVE Apart(u, v)'
    <2>0. op'[t].pc \notin {"insert"} \cup DrawPcs /\ Others(t)  BY <1>8, FailDoes DEF Ends, Goes, Placing, DrawPcs
    <2>1. Milder(t)  BY <1>0, <2>0 DEF Milder, Placing, DrawPcs
    <2>2. Milder(u) /\ Milder(v)  BY <2>0, <2>1, Unmoved DEF Others
    <2> QED  BY <1>0, <2>2, ApartStays
  <1>9. ASSUME NEW t \in Calls, PlaceElsewhere(t) PROVE Apart(u, v)'
    <2>0. /\ \/ op'[t].pc \notin {"insert"} \cup DrawPcs
             \/ op[t].pc \in DrawPcs /\ op'[t].pc \in DrawPcs /\ op'[t].req = op[t].req
          /\ Others(t)
       BY <1>9, PlaceElsewhereDoes DEF Ends, Goes, Placing, DrawPcs
    <2>1. Milder(t)  BY <1>0, <2>0 DEF Milder, Placing, DrawPcs
    <2>2. Milder(u) /\ Milder(v)  BY <2>0, <2>1, Unmoved DEF Others
    <2> QED  BY <1>0, <2>2, ApartStays
  <1>10. ASSUME NEW t \in Calls, PlaceRead(t) PROVE Apart(u, v)'
    <2>0. /\ \/ op'[t].pc \notin {"insert"} \cup DrawPcs
             \/ op[t].pc \in DrawPcs /\ op'[t].pc \in DrawPcs /\ op'[t].req = op[t].req
          /\ Others(t)
       BY <1>10, PlaceReadDoes DEF Ends, Goes, Placing, DrawPcs
    <2>1. Milder(t)  BY <1>0, <2>0 DEF Milder, Placing, DrawPcs
    <2>2. Milder(u) /\ Milder(v)  BY <2>0, <2>1, Unmoved DEF Others
    <2> QED  BY <1>0, <2>2, ApartStays
  <1>11. ASSUME NEW t \in Calls, PlaceAppend(t) PROVE Apart(u, v)'
    <2>0. /\ \/ op'[t].pc \notin {"insert"} \cup DrawPcs
             \/ op[t].pc \in DrawPcs /\ op'[t].pc \in DrawPcs /\ op'[t].req = op[t].req
          /\ Others(t)
       BY <1>11, PlaceAppendDoes DEF Ends, Goes, Placing, DrawPcs
    <2>1. Milder(t)  BY <1>0, <2>0 DEF Milder, Placing, DrawPcs
    <2>2. Milder(u) /\ Milder(v)  BY <2>0, <2>1, Unmoved DEF Others
    <2> QED  BY <1>0, <2>2, ApartStays
  <1>12. ASSUME NEW t \in Calls, Done(t) PROVE Apart(u, v)'
    <2>0. op'[t].pc \notin {"insert"} \cup DrawPcs /\ Others(t)  BY <1>12, DoneDoes DEF Ends, Goes, Placing, DrawPcs
    <2>1. Milder(t)  BY <1>0, <2>0 DEF Milder, Placing, DrawPcs
    <2>2. Milder(u) /\ Milder(v)  BY <2>0, <2>1, Unmoved DEF Others
    <2> QED  BY <1>0, <2>2, ApartStays
  <1>13. ASSUME NEW t \in Calls, DeleteBegin(t) PROVE Apart(u, v)'
    <2>0. op'[t].pc \notin {"insert"} \cup DrawPcs /\ Others(t)  BY <1>13, DeleteBeginDoes DEF Ends, Goes, Placing, DrawPcs
    <2>1. Milder(t)  BY <1>0, <2>0 DEF Milder, Placing, DrawPcs
    <2>2. Milder(u) /\ Milder(v)  BY <2>0, <2>1, Unmoved DEF Others
    <2> QED  BY <1>0, <2>2, ApartStays
  <1>14. ASSUME NEW t \in Calls, DeleteCheck(t) PROVE Apart(u, v)'
    <2>0. op'[t].pc \notin {"insert"} \cup DrawPcs /\ Others(t)  BY <1>14, DeleteCheckDoes DEF Ends, Goes, Placing, DrawPcs
    <2>1. Milder(t)  BY <1>0, <2>0 DEF Milder, Placing, DrawPcs
    <2>2. Milder(u) /\ Milder(v)  BY <2>0, <2>1, Unmoved DEF Others
    <2> QED  BY <1>0, <2>2, ApartStays
  <1>15. ASSUME NEW t \in Calls, DeleteRow(t) PROVE Apart(u, v)'
    <2>0. op'[t].pc \notin {"insert"} \cup DrawPcs /\ Others(t)  BY <1>15, DeleteRowDoes DEF Ends, Goes, Placing, DrawPcs
    <2>1. Milder(t)  BY <1>0, <2>0 DEF Milder, Placing, DrawPcs
    <2>2. Milder(u) /\ Milder(v)  BY <2>0, <2>1, Unmoved DEF Others
    <2> QED  BY <1>0, <2>2, ApartStays
  <1>16. ASSUME NEW t \in Calls, CoverBegin(t) PROVE Apart(u, v)'
    <2>0. op'[t].pc \notin {"insert"} \cup DrawPcs /\ Others(t)  BY <1>16, CoverBeginDoes DEF Ends, Goes, Placing, DrawPcs
    <2>1. Milder(t)  BY <1>0, <2>0 DEF Milder, Placing, DrawPcs
    <2>2. Milder(u) /\ Milder(v)  BY <2>0, <2>1, Unmoved DEF Others
    <2> QED  BY <1>0, <2>2, ApartStays
  <1>17. ASSUME NEW t \in Calls, CoverSet(t) PROVE Apart(u, v)'
    <2>0. op'[t].pc \notin {"insert"} \cup DrawPcs /\ Others(t)  BY <1>17, CoverSetDoes DEF Ends, Goes, Placing, DrawPcs
    <2>1. Milder(t)  BY <1>0, <2>0 DEF Milder, Placing, DrawPcs
    <2>2. Milder(u) /\ Milder(v)  BY <2>0, <2>1, Unmoved DEF Others
    <2> QED  BY <1>0, <2>2, ApartStays
  <1>18. CASE List
    <2>1. op' = op  BY <1>18, ListDoes
    <2>2. Milder(u) /\ Milder(v)  BY <2>1, Unmoved
    <2> QED  BY <1>0, <2>2, ApartStays
  <1>19. ASSUME NEW q \in Requests, Reject(q) PROVE Apart(u, v)'
    <2>1. op' = op  BY <1>19, RejectDoes
    <2>2. Milder(u) /\ Milder(v)  BY <2>1, Unmoved
    <2> QED  BY <1>0, <2>2, ApartStays
  <1>20. CASE SetRepresentative
    <2>1. op' = op  BY <1>20, SetRepresentativeDoes
    <2>2. Milder(u) /\ Milder(v)  BY <2>1, Unmoved
    <2> QED  BY <1>0, <2>2, ApartStays
  <1>21. CASE SaveScene
    <2>1. op' = op  BY <1>21, SaveSceneDoes
    <2>2. Milder(u) /\ Milder(v)  BY <2>1, Unmoved
    <2> QED  BY <1>0, <2>2, ApartStays
  <1>22. CASE DeleteScene
    <2>1. op' = op  BY <1>22, DeleteSceneDoes
    <2>2. Milder(u) /\ Milder(v)  BY <2>1, Unmoved
    <2> QED  BY <1>0, <2>2, ApartStays
  <1>23. CASE Crash
    <2>1. op'[u].pc = "idle" /\ op'[v].pc = "idle"  BY <1>23, CrashDoes
    <2> QED  BY <2>1 DEF Apart, Placing, DrawPcs
  <1>24. CASE Start
    <2>1. op' = op  BY <1>24, StartDoes
    <2>2. Milder(u) /\ Milder(v)  BY <2>1, Unmoved
    <2> QED  BY <1>0, <2>2, ApartStays
  <1>26. ASSUME NEW t \in Calls, Leave(t) PROVE Apart(u, v)'
    <2>0. op'[t].pc \notin {"insert"} \cup DrawPcs /\ Others(t)  BY <1>26, LeaveDoes DEF Ends, Placing, DrawPcs
    <2>1. Milder(t)  BY <1>0, <2>0 DEF Milder, Placing, DrawPcs
    <2>2. Milder(u) /\ Milder(v)  BY <2>0, <2>1, Unmoved DEF Others
    <2> QED  BY <1>0, <2>2, ApartStays
  <1>25. CASE UNCHANGED vars  BY <1>0, <1>25 DEF vars, Apart
  <1> QED  BY <1>1, <1>2, <1>3, <1>4, <1>5, <1>6, <1>7, <1>8, <1>9, <1>10, <1>11, <1>12, <1>13, <1>14, <1>15, <1>16, <1>17, <1>18, <1>19, <1>20, <1>21, <1>22, <1>23, <1>24, <1>25, <1>26 DEF Next, Writer, Begin, Serve

\* A request that generates keeps its call, and a new one stays new.
LEMMA StandingStays ==
  ASSUME Types, Types', NEW r \in Requests, Standing(r), spent.requests <= spent'.requests,
         \/ request'[r] = request[r] /\ up' = up /\ \A w \in Drawing(r) : w \in Drawing(r)'
         \/ Status(r)' # "generating" /\ ~request'[r].unclosed /\ r <= spent.requests
         \/ request'[r] = request[r] /\ ~up'
  PROVE  Standing(r)'
  <1>1. spent.requests \in Nat /\ spent'.requests \in Nat /\ r \in Nat
    BY Bounds DEF Types, Counters, Requests
  <1>2. r > spent'.requests => Status(r)' = "none"  BY <1>1 DEF Standing, Status
  <1>3. up' /\ Drawn(r)' => \E t \in Calls : t \in Drawing(r)'  BY DEF Standing, Status, Drawn
  <1>4. request'[r].unclosed => Status(r)' = "generating"  BY DEF Standing, Status
  <1> QED  BY <1>2, <1>3, <1>4 DEF Standing

\* What is no longer new is not above the counter.
LEMMA NotNew == ASSUME Types, NEW r \in Requests, Standing(r), Status(r) # "none" PROVE r <= spent.requests
  BY Bounds DEF Types, Counters, Requests, Standing

LEMMA StandingStep ==
  ASSUME Inv, [Next]_vars, NEW r \in Requests
  PROVE  Standing(r)'
  <1>0. Types /\ Standing(r) /\ spent.requests \in Nat /\ spent.requests <= spent.requests /\ \A w \in Calls : Served(w)  BY Bounds DEF Inv, Types, Counters
  <1>1. ASSUME NEW t \in Calls, SubmitCount(t) PROVE Standing(r)'
    <2>1. /\ Types' /\ request'[r] = request[r] /\ up' = up /\ spent'.requests = spent.requests + 1
          /\ op[t].pc = "idle" /\ Others(t)
      BY <1>1, SubmitCountDoes
    <2>2. \A w \in Drawing(r) : w \in Drawing(r)'
      BY <2>1 DEF Drawing, Others, Placing
    <2> QED  BY <1>0, <2>1, <2>2, StandingStays
  <1>2. ASSUME NEW t \in Calls, SubmitInsert(t) PROVE Standing(r)'
    <2>0. /\ Types' /\ Ends(t) /\ Gets(op[t].req, "pending") /\ op[t].req \in Requests
          /\ op[t].pc = "insert" /\ spent' = spent /\ up' = up
      BY <1>2, SubmitInsertDoes
    <2>1. CASE r = op[t].req
      <3>1. r <= spent.requests /\ Status(r)' # "generating" /\ ~request'[r].unclosed
        BY <1>0, <2>0, <2>1 DEF Served, Gets, Status, Standing
      <3> QED  BY <1>0, <2>0, <3>1, StandingStays
    <2>2. CASE r # op[t].req
      <3>1. request'[r] = request[r]  BY <2>0, <2>2 DEF Gets
      <3>2. \A w \in Drawing(r) : w \in Drawing(r)'  BY <2>0, <2>2 DEF Drawing, Ends, Others, Placing
      <3> QED  BY <1>0, <2>0, <3>1, <3>2, StandingStays
    <2> QED  BY <2>1, <2>2
  <1>3. ASSUME NEW t \in Calls, ApproveBegin(t) PROVE Standing(r)'
    <2>0. Types' /\ Weeds /\ Others(t) /\ op[t].pc = "idle" /\ spent' = spent /\ up' = up
      BY <1>3, ApproveBeginDoes
    <2>1. CASE request'[r] = request[r]
      <3>1. \A w \in Drawing(r) : w \in Drawing(r)'  BY <2>0 DEF Drawing, Others, Placing
      <3> QED  BY <1>0, <2>0, <2>1, <3>1, StandingStays
    <2>2. CASE request'[r] # request[r]
      <3>1. Status(r) \in Open /\ Status(r)' = "cancelled" /\ ~request'[r].unclosed
        BY <1>0, <2>0, <2>2 DEF Weeds, Status, Standing, Open
      <3>2. r <= spent.requests  BY <1>0, <3>1, NotNew DEF Open
      <3> QED  BY <1>0, <2>0, <3>1, <3>2, StandingStays
    <2> QED  BY <2>1, <2>2
  <1>4. ASSUME NEW t \in Calls, Claim(t) PROVE Standing(r)'
    <2>0. /\ Types' /\ op[t].pc = "claim" /\ op[t].req \in Requests /\ spent' = spent /\ up' = up
          /\ \/ Status(op[t].req) \in Open /\ Goes(t, "paint") /\ Gets(op[t].req, "generating")
             \/ Ends(t) /\ UNCHANGED request
      BY <1>4, ClaimDoes
    <2>1. Others(t) /\ \A w \in Drawing(r) : w \in Drawing(r)'
      BY <2>0 DEF Drawing, Ends, Goes, Others, Placing
    <2>2. CASE request'[r] = request[r]  BY <1>0, <2>0, <2>1, <2>2, StandingStays
    <2>3. CASE request'[r] # request[r]
      <3>1. r = op[t].req /\ Status(r) \in Open /\ Goes(t, "paint")  BY <2>0, <2>3 DEF Gets
      <3>2. r <= spent.requests  BY <1>0, <3>1, NotNew DEF Open
      <3>3. t \in Drawing(r)'  BY <3>1 DEF Drawing, Goes
      <3>4. spent'.requests = spent.requests /\ spent.requests \in Nat /\ r \in Nat  BY <1>0, <2>0, Bounds DEF Types, Counters, Requests
      <3>5. Status(r)' = "generating"  BY <2>0, <3>1, <2>3 DEF Gets, Status
      <3> QED  BY <3>2, <3>3, <3>4, <3>5 DEF Standing
    <2> QED  BY <2>2, <2>3
  <1>5. ASSUME NEW t \in Calls, DrawBegin(t) PROVE Standing(r)'
    <2>1. Types' /\ request'[r] = request[r] /\ up' = up /\ spent'.requests = spent.requests
      BY <1>5, DrawBeginDoes DEF Same
    <2>2. \A w \in Drawing(r) : w \in Drawing(r)'
      BY <1>0, <1>5, DrawBeginDoes DEF Drawing, Ends, Goes, Others, Placing
    <2> QED  BY <1>0, <2>1, <2>2, StandingStays
  <1>6. ASSUME NEW t \in Calls, Paint(t) PROVE Standing(r)'
    <2>1. /\ Types' /\ request'[r] = request[r] /\ up' = up /\ spent'.requests = spent.requests
          /\ op[t].pc = "paint" /\ Others(t)
          /\ op[t].req = 0 \/ (op'[t].pc \in DrawPcs /\ op'[t].req = op[t].req)
      BY <1>6, PaintDoes DEF Same, Ends, Goes, DrawPcs, Placing
    <2>2. \A w \in Drawing(r) : w \in Drawing(r)'
      BY <2>1, Bounds DEF Drawing, Others, DrawPcs, Requests
    <2> QED  BY <1>0, <2>1, <2>2, StandingStays
  <1>7. ASSUME NEW t \in Calls, Add(t) PROVE Standing(r)'
    <2>1. /\ Types' /\ request'[r] = request[r] /\ up' = up /\ spent'.requests = spent.requests
          /\ op[t].pc = "add" /\ Others(t)
          /\ op[t].req = 0 \/ (op'[t].pc \in DrawPcs /\ op'[t].req = op[t].req)
      BY <1>7, AddDoes DEF Same, Ends, Goes, DrawPcs, Placing
    <2>2. \A w \in Drawing(r) : w \in Drawing(r)'
      BY <2>1, Bounds DEF Drawing, Others, DrawPcs, Requests
    <2> QED  BY <1>0, <2>1, <2>2, StandingStays
  <1>8. ASSUME NEW t \in Calls, Fail(t) PROVE Standing(r)'
    <2>0. /\ Types' /\ Ends(t) /\ Gets(op[t].req, "failed") /\ op[t].req \in Requests
          /\ op[t].pc \in DrawPcs /\ spent' = spent /\ up' = up
      BY <1>8, FailDoes DEF DrawPcs, Placing
    <2>1. CASE r = op[t].req
      <3>0. Status(r) = "generating"  BY <1>0, <2>0, <2>1, Bounds DEF Served, Requests
      <3>1. r <= spent.requests /\ Status(r)' # "generating" /\ ~request'[r].unclosed
        BY <1>0, <2>0, <2>1, <3>0, NotNew, Bounds DEF Gets, Status, Served, Requests
      <3> QED  BY <1>0, <2>0, <3>1, StandingStays
    <2>2. CASE r # op[t].req
      <3>1. request'[r] = request[r]  BY <2>0, <2>2 DEF Gets
      <3>2. \A w \in Drawing(r) : w \in Drawing(r)'  BY <2>0, <2>2 DEF Drawing, Ends, Others
      <3> QED  BY <1>0, <2>0, <3>1, <3>2, StandingStays
    <2> QED  BY <2>1, <2>2
  <1>9. ASSUME NEW t \in Calls, PlaceElsewhere(t) PROVE Standing(r)'
    <2>1. Types' /\ request'[r] = request[r] /\ up' = up /\ spent'.requests = spent.requests
      BY <1>9, PlaceElsewhereDoes DEF Same
    <2>2. \A w \in Drawing(r) : w \in Drawing(r)'
      BY <1>0, <1>9, PlaceElsewhereDoes DEF Drawing, Ends, Goes, Others, Placing
    <2> QED  BY <1>0, <2>1, <2>2, StandingStays
  <1>10. ASSUME NEW t \in Calls, PlaceRead(t) PROVE Standing(r)'
    <2>1. Types' /\ request'[r] = request[r] /\ up' = up /\ spent'.requests = spent.requests
      BY <1>10, PlaceReadDoes DEF Same
    <2>2. \A w \in Drawing(r) : w \in Drawing(r)'
      BY <1>0, <1>10, PlaceReadDoes DEF Drawing, Ends, Goes, Others, Placing
    <2> QED  BY <1>0, <2>1, <2>2, StandingStays
  <1>11. ASSUME NEW t \in Calls, PlaceAppend(t) PROVE Standing(r)'
    <2>1. Types' /\ request'[r] = request[r] /\ up' = up /\ spent'.requests = spent.requests
      BY <1>11, PlaceAppendDoes DEF Same
    <2>2. \A w \in Drawing(r) : w \in Drawing(r)'
      BY <1>0, <1>11, PlaceAppendDoes DEF Drawing, Ends, Goes, Others, Placing
    <2> QED  BY <1>0, <2>1, <2>2, StandingStays
  <1>12. ASSUME NEW t \in Calls, Done(t) PROVE Standing(r)'
    <2>0. /\ Types' /\ Ends(t) /\ Gets(op[t].req, "done") /\ op[t].req \in Requests
          /\ op[t].pc \in DrawPcs /\ spent' = spent /\ up' = up
      BY <1>12, DoneDoes DEF DrawPcs, Placing
    <2>1. CASE r = op[t].req
      <3>0. Status(r) = "generating"  BY <1>0, <2>0, <2>1, Bounds DEF Served, Requests
      <3>1. r <= spent.requests /\ Status(r)' # "generating" /\ ~request'[r].unclosed
        BY <1>0, <2>0, <2>1, <3>0, NotNew, Bounds DEF Gets, Status, Served, Requests
      <3> QED  BY <1>0, <2>0, <3>1, StandingStays
    <2>2. CASE r # op[t].req
      <3>1. request'[r] = request[r]  BY <2>0, <2>2 DEF Gets
      <3>2. \A w \in Drawing(r) : w \in Drawing(r)'  BY <2>0, <2>2 DEF Drawing, Ends, Others
      <3> QED  BY <1>0, <2>0, <3>1, <3>2, StandingStays
    <2> QED  BY <2>1, <2>2
  <1>13. ASSUME NEW t \in Calls, DeleteBegin(t) PROVE Standing(r)'
    <2>1. Types' /\ request'[r] = request[r] /\ up' = up /\ spent'.requests = spent.requests
      BY <1>13, DeleteBeginDoes DEF Same
    <2>2. \A w \in Drawing(r) : w \in Drawing(r)'
      BY <1>0, <1>13, DeleteBeginDoes DEF Drawing, Ends, Goes, Others, Placing
    <2> QED  BY <1>0, <2>1, <2>2, StandingStays
  <1>14. ASSUME NEW t \in Calls, DeleteCheck(t) PROVE Standing(r)'
    <2>1. Types' /\ request'[r] = request[r] /\ up' = up /\ spent'.requests = spent.requests
      BY <1>14, DeleteCheckDoes DEF Same
    <2>2. \A w \in Drawing(r) : w \in Drawing(r)'
      BY <1>0, <1>14, DeleteCheckDoes DEF Drawing, Ends, Goes, Others, Placing
    <2> QED  BY <1>0, <2>1, <2>2, StandingStays
  <1>15. ASSUME NEW t \in Calls, DeleteRow(t) PROVE Standing(r)'
    <2>1. Types' /\ request'[r] = request[r] /\ up' = up /\ spent'.requests = spent.requests
      BY <1>15, DeleteRowDoes DEF Same
    <2>2. \A w \in Drawing(r) : w \in Drawing(r)'
      BY <1>0, <1>15, DeleteRowDoes DEF Drawing, Ends, Goes, Others, Placing
    <2> QED  BY <1>0, <2>1, <2>2, StandingStays
  <1>16. ASSUME NEW t \in Calls, CoverBegin(t) PROVE Standing(r)'
    <2>1. Types' /\ request'[r] = request[r] /\ up' = up /\ spent'.requests = spent.requests
      BY <1>16, CoverBeginDoes DEF Same
    <2>2. \A w \in Drawing(r) : w \in Drawing(r)'
      BY <1>0, <1>16, CoverBeginDoes DEF Drawing, Ends, Goes, Others, Placing
    <2> QED  BY <1>0, <2>1, <2>2, StandingStays
  <1>17. ASSUME NEW t \in Calls, CoverSet(t) PROVE Standing(r)'
    <2>1. Types' /\ request'[r] = request[r] /\ up' = up /\ spent'.requests = spent.requests
      BY <1>17, CoverSetDoes DEF Same
    <2>2. \A w \in Drawing(r) : w \in Drawing(r)'
      BY <1>0, <1>17, CoverSetDoes DEF Drawing, Ends, Goes, Others, Placing
    <2> QED  BY <1>0, <2>1, <2>2, StandingStays
  <1>18. CASE List
    <2>0. Types' /\ Weeds /\ op' = op /\ spent' = spent /\ up' = up
      BY <1>18, ListDoes
    <2>1. CASE request'[r] = request[r]
      <3>1. \A w \in Drawing(r) : w \in Drawing(r)'  BY <2>0 DEF Drawing, Others, Placing
      <3> QED  BY <1>0, <2>0, <2>1, <3>1, StandingStays
    <2>2. CASE request'[r] # request[r]
      <3>1. Status(r) \in Open /\ Status(r)' = "cancelled" /\ ~request'[r].unclosed
        BY <1>0, <2>0, <2>2 DEF Weeds, Status, Standing, Open
      <3>2. r <= spent.requests  BY <1>0, <3>1, NotNew DEF Open
      <3> QED  BY <1>0, <2>0, <3>1, <3>2, StandingStays
    <2> QED  BY <2>1, <2>2
  <1>19. ASSUME NEW q \in Requests, Reject(q) PROVE Standing(r)'
    <2>0. /\ Types' /\ Gets(q, "rejected") /\ Status(q) \in Open /\ op' = op /\ spent' = spent /\ up' = up
      BY <1>19, RejectDoes
    <2>1. CASE r = q
      <3>1. r <= spent.requests /\ Status(r)' # "generating" /\ ~request'[r].unclosed
        BY <1>0, <2>0, <2>1, NotNew DEF Gets, Open, Status, Standing
      <3> QED  BY <1>0, <2>0, <3>1, StandingStays
    <2>2. CASE r # q
      <3>1. request'[r] = request[r] /\ \A w \in Drawing(r) : w \in Drawing(r)'
        BY <2>0, <2>2 DEF Gets, Drawing
      <3> QED  BY <1>0, <2>0, <3>1, StandingStays
    <2> QED  BY <2>1, <2>2
  <1>20. CASE SetRepresentative
    <2>1. Types' /\ request'[r] = request[r] /\ up' = up /\ spent'.requests = spent.requests
      BY <1>20, SetRepresentativeDoes DEF Same
    <2>2. \A w \in Drawing(r) : w \in Drawing(r)'
      BY <1>0, <1>20, SetRepresentativeDoes DEF Drawing, Ends, Goes, Others, Placing
    <2> QED  BY <1>0, <2>1, <2>2, StandingStays
  <1>21. CASE SaveScene
    <2>1. Types' /\ request'[r] = request[r] /\ up' = up /\ spent'.requests = spent.requests
      BY <1>21, SaveSceneDoes DEF Same
    <2>2. \A w \in Drawing(r) : w \in Drawing(r)'
      BY <1>0, <1>21, SaveSceneDoes DEF Drawing, Ends, Goes, Others, Placing
    <2> QED  BY <1>0, <2>1, <2>2, StandingStays
  <1>22. CASE DeleteScene
    <2>1. Types' /\ request'[r] = request[r] /\ up' = up /\ spent'.requests = spent.requests
      BY <1>22, DeleteSceneDoes DEF Same
    <2>2. \A w \in Drawing(r) : w \in Drawing(r)'
      BY <1>0, <1>22, DeleteSceneDoes DEF Drawing, Ends, Goes, Others, Placing
    <2> QED  BY <1>0, <2>1, <2>2, StandingStays
  <1>23. CASE Crash
    <2>1. Types' /\ request'[r] = request[r] /\ up' = FALSE /\ spent'.requests = spent.requests
      BY <1>23, CrashDoes
    <2> QED  BY <1>0, <2>1, StandingStays
  <1>24. CASE Start
    <2>1. /\ Types' /\ op' = op /\ spent' = spent
          /\ IF Status(r) = "generating" THEN Status(r)' = "failed" /\ ~request'[r].unclosed
             ELSE request'[r] = request[r]
      BY <1>24, StartDoes
    <2>2. CASE Status(r) = "generating"
      <3>1. r <= spent.requests  BY <1>0, <2>2, NotNew
      <3> QED  BY <1>0, <2>1, <2>2, <3>1, StandingStays
    <2>3. CASE Status(r) # "generating"
      <3>1. request'[r] = request[r] /\ spent'.requests = spent.requests  BY <2>1, <2>3
      <3> QED  BY <1>0, <2>3, <3>1 DEF Standing, Status, Drawn
    <2> QED  BY <2>2, <2>3
  <1>26. ASSUME NEW t \in Calls, Leave(t) PROVE Standing(r)'
    <2>0. /\ Types' /\ Same /\ Ends(t) /\ Unclosed(op[t].req) /\ op[t].req \in Requests
          /\ op[t].pc \in DrawPcs /\ up' = up
      BY <1>26, LeaveDoes
    <2>1. CASE r = op[t].req
      <3>1. Status(r) = "generating"  BY <1>0, <2>0, <2>1, Bounds DEF Served, Requests
      <3> QED  BY <1>0, <2>0, <2>1, <3>1 DEF Standing, Same, Unclosed, Drawn, Status
    <2>2. CASE r # op[t].req
      <3>1. request'[r] = request[r]  BY <2>0, <2>2 DEF Unclosed
      <3>2. \A w \in Drawing(r) : w \in Drawing(r)'  BY <2>0, <2>2 DEF Drawing, Ends, Others, Placing
      <3>3. spent.requests <= spent'.requests  BY <1>0, <2>0 DEF Same
      <3> QED  BY <1>0, <2>0, <3>1, <3>2, <3>3, StandingStays
    <2> QED  BY <2>1, <2>2
  <1>25. CASE UNCHANGED vars  BY <1>0, <1>25 DEF vars, Standing, Status, Drawn, Drawing
  <1> QED  BY <1>1, <1>2, <1>3, <1>4, <1>5, <1>6, <1>7, <1>8, <1>9, <1>10, <1>11, <1>12, <1>13, <1>14, <1>15, <1>16, <1>17, <1>18, <1>19, <1>20, <1>21, <1>22, <1>23, <1>24, <1>25, <1>26 DEF Next, Writer, Begin, Serve

\* Nothing is drawn, and a request that has its one more keeps it.
LEMMA CountedStays ==
  ASSUME Types, NEW r \in Requests, Counted(r), drawn'[r] = drawn[r], spent'.crashes = spent.crashes,
         up /\ request[r].unclosed => up' /\ request'[r].unclosed,
         Status(r) = "done" => Status(r)' = "done",
         \A w \in Calls : op[w].req = r /\ op[w].pc \in Placing
            => \/ op'[w].req = r /\ op'[w].pc \in Placing
               \/ Status(r)' = "done" \/ (up' /\ request'[r].unclosed)
  PROVE  Counted(r)'
  <1>1. spent.crashes \in Nat  BY DEF Types, Counters
  <1>2. Extra(r)' \in 0..1 /\ Extra(r) \in 0..1  BY DEF Extra
  <1>4. Extra(r) = 1 => Extra(r)' = 1
    <2>1. CASE Status(r) = "done"  BY <2>1 DEF Extra, Status
    <2>2. CASE up /\ request[r].unclosed  BY <2>2 DEF Extra
    <2>3. CASE \E t \in Calls : op[t].req = r /\ op[t].pc \in Placing  BY <2>3 DEF Extra
    <2> QED  BY <2>1, <2>2, <2>3 DEF Extra
  <1>3. Cardinality(drawn[r]) \in Nat  BY FS_CardinalityType DEF Counted
  <1> QED  BY <1>1, <1>2, <1>3, <1>4 DEF Counted

LEMMA CountedStep ==
  ASSUME Inv, [Next]_vars, NEW r \in Requests
  PROVE  Counted(r)'
  <1>0. Types /\ Counted(r) /\ (\A w \in Calls : Served(w)) /\ \A w, x \in Calls : Apart(w, x)  BY Bounds DEF Inv
  <1>1. ASSUME NEW t \in Calls, SubmitCount(t) PROVE Counted(r)'
    <2>9. up /\ request[r].unclosed => up' /\ request'[r].unclosed
      BY <1>0, <1>1, SubmitCountDoes DEF Gets, Weeds
    <2>1. /\ drawn'[r] = drawn[r] /\ spent'.crashes = spent.crashes
          /\ Status(r)' = Status(r)
      BY <1>1, SubmitCountDoes DEF Same, Status
    <2>2. \A w \in Calls : op[w].req = r /\ op[w].pc \in Placing => op'[w].req = r /\ op'[w].pc \in Placing
      BY <1>1, SubmitCountDoes DEF Ends, Goes, Others, Placing
    <2> QED  BY <1>0, <2>1, <2>2, <2>9, CountedStays
  <1>2. ASSUME NEW t \in Calls, SubmitInsert(t) PROVE Counted(r)'
    <2>9. up /\ request[r].unclosed => up' /\ request'[r].unclosed
      BY <1>0, <1>2, SubmitInsertDoes DEF Gets, Weeds
    <2>1. drawn'[r] = drawn[r] /\ spent'.crashes = spent.crashes  BY <1>2, SubmitInsertDoes
    <2>2. Status(r) = "done" => Status(r)' = "done"
      BY <1>0, <1>2, SubmitInsertDoes DEF Served, Gets, Status
    <2>3. \A w \in Calls : op[w].req = r /\ op[w].pc \in Placing
            => \/ op'[w].req = r /\ op'[w].pc \in Placing
               \/ Status(r)' = "done" \/ (up' /\ request'[r].unclosed)
      BY <1>0, <1>2, SubmitInsertDoes DEF Ends, Goes, Others, Placing, Gets, Status
    <2> QED  BY <1>0, <2>1, <2>2, <2>3, <2>9, CountedStays
  <1>3. ASSUME NEW t \in Calls, ApproveBegin(t) PROVE Counted(r)'
    <2>9. up /\ request[r].unclosed => up' /\ request'[r].unclosed
      BY <1>0, <1>3, ApproveBeginDoes DEF Gets, Weeds
    <2>1. drawn'[r] = drawn[r] /\ spent'.crashes = spent.crashes  BY <1>3, ApproveBeginDoes
    <2>2. Status(r) = "done" => Status(r)' = "done"
      BY <1>0, <1>3, ApproveBeginDoes DEF Weeds, Open, Status
    <2>3. \A w \in Calls : op[w].req = r /\ op[w].pc \in Placing
            => \/ op'[w].req = r /\ op'[w].pc \in Placing
               \/ Status(r)' = "done" \/ (up' /\ request'[r].unclosed)
      BY <1>0, <1>3, ApproveBeginDoes DEF Ends, Goes, Others, Placing, Gets, Status
    <2> QED  BY <1>0, <2>1, <2>2, <2>3, <2>9, CountedStays
  <1>4. ASSUME NEW t \in Calls, Claim(t) PROVE Counted(r)'
    <2>9. up /\ request[r].unclosed => up' /\ request'[r].unclosed
      BY <1>0, <1>4, ClaimDoes DEF Gets, Weeds
    <2>1. drawn'[r] = drawn[r] /\ spent'.crashes = spent.crashes  BY <1>4, ClaimDoes
    <2>2. Status(r) = "done" => Status(r)' = "done"
      BY <1>0, <1>4, ClaimDoes DEF Gets, Open, Status
    <2>3. \A w \in Calls : op[w].req = r /\ op[w].pc \in Placing
            => \/ op'[w].req = r /\ op'[w].pc \in Placing
               \/ Status(r)' = "done" \/ (up' /\ request'[r].unclosed)
      BY <1>0, <1>4, ClaimDoes DEF Ends, Goes, Others, Placing, Gets, Status
    <2> QED  BY <1>0, <2>1, <2>2, <2>3, <2>9, CountedStays
  <1>5. ASSUME NEW t \in Calls, DrawBegin(t) PROVE Counted(r)'
    <2>9. up /\ request[r].unclosed => up' /\ request'[r].unclosed
      BY <1>0, <1>5, DrawBeginDoes DEF Gets, Weeds
    <2>1. /\ drawn'[r] = drawn[r] /\ spent'.crashes = spent.crashes
          /\ Status(r)' = Status(r)
      BY <1>5, DrawBeginDoes DEF Same, Status
    <2>2. \A w \in Calls : op[w].req = r /\ op[w].pc \in Placing => op'[w].req = r /\ op'[w].pc \in Placing
      BY <1>5, DrawBeginDoes DEF Ends, Goes, Others, Placing
    <2> QED  BY <1>0, <2>1, <2>2, <2>9, CountedStays
  <1>6. ASSUME NEW t \in Calls, Paint(t) PROVE Counted(r)'
    <2>9. up /\ request[r].unclosed => up' /\ request'[r].unclosed
      BY <1>0, <1>6, PaintDoes DEF Gets, Weeds
    <2>1. /\ drawn'[r] = drawn[r] /\ spent'.crashes = spent.crashes
          /\ Status(r)' = Status(r)
      BY <1>6, PaintDoes DEF Same, Status
    <2>2. \A w \in Calls : op[w].req = r /\ op[w].pc \in Placing => op'[w].req = r /\ op'[w].pc \in Placing
      BY <1>6, PaintDoes DEF Ends, Goes, Others, Placing
    <2> QED  BY <1>0, <2>1, <2>2, <2>9, CountedStays
  <1>7. ASSUME NEW t \in Calls, Add(t) PROVE Counted(r)'
    <2>9. up /\ request[r].unclosed => up' /\ request'[r].unclosed
      BY <1>0, <1>7, AddDoes DEF Gets, Weeds
    <2>0. op[t].pc = "add" /\ UNCHANGED request /\ Others(t)  BY <1>7, AddDoes DEF Ends, Goes
    <2>1. \A w \in Calls : op[w].req = r /\ op[w].pc \in Placing => op'[w].req = r /\ op'[w].pc \in Placing
      BY <2>0 DEF Others, Placing
    <2>2. Status(r)' = Status(r)  BY <2>0 DEF Status
    <2>3. spent'.crashes = spent.crashes  BY <1>7, AddDoes DEF Same
    <2>4. CASE drawn'[r] = drawn[r]  BY <1>0, <2>1, <2>2, <2>3, <2>4, <2>9, CountedStays
    <2>5. CASE drawn'[r] # drawn[r]
      <3>1. /\ op[t].req # 0 /\ op'[t].pc = "place" /\ op'[t].req = op[t].req
            /\ \E pic \in Pictures : drawn' = [drawn EXCEPT ![op[t].req] = drawn[op[t].req] \cup {pic}]
        BY <1>7, <2>5, AddDoes
      <3>2. PICK pic \in Pictures : drawn' = [drawn EXCEPT ![op[t].req] = drawn[op[t].req] \cup {pic}]
        BY <3>1
      <3>3. r = op[t].req /\ drawn'[r] = drawn[r] \cup {pic}  BY <1>0, <2>5, <3>2 DEF Types
      <3>4. Status(r) = "generating"  BY <1>0, <2>0, <3>1, <3>3 DEF Served, DrawPcs
      <3>5. \A w \in Calls : ~(op[w].req = r /\ op[w].pc \in Placing)
        BY <1>0, <2>0, <3>1, <3>3 DEF Apart, DrawPcs, Placing
      <3>6. Extra(r) = 0
        <4>1. ~request[r].unclosed  BY <1>0, <2>0, <3>1, <3>3 DEF Served, DrawPcs
        <4> QED  BY <3>4, <3>5, <4>1 DEF Extra
      <3>7. Extra(r)' = 1  BY <3>1, <3>3 DEF Extra, Placing
      <3>8. /\ IsFiniteSet(drawn[r]) /\ Cardinality(drawn[r]) \in Nat /\ Cardinality(drawn[r]) <= spent.crashes
            /\ spent.crashes \in Nat
        BY <1>0, <3>6, FS_CardinalityType DEF Counted, Types, Counters
      <3>9. /\ IsFiniteSet(drawn[r] \cup {pic})
            /\ Cardinality(drawn[r] \cup {pic}) = Cardinality(drawn[r])
               \/ Cardinality(drawn[r] \cup {pic}) = Cardinality(drawn[r]) + 1
        BY <3>8, FS_AddElement
      <3> QED  BY <2>3, <3>3, <3>7, <3>8, <3>9 DEF Counted
    <2> QED  BY <2>4, <2>5
  <1>8. ASSUME NEW t \in Calls, Fail(t) PROVE Counted(r)'
    <2>9. up /\ request[r].unclosed => up' /\ request'[r].unclosed
      BY <1>0, <1>8, FailDoes DEF Gets, Weeds
    <2>0. /\ op[t].pc = "fail" /\ op[t].req \in Requests /\ Ends(t) /\ Gets(op[t].req, "failed")
          /\ drawn' = drawn /\ spent' = spent
      BY <1>8, FailDoes
    <2>1. Status(op[t].req) = "generating"  BY <1>0, <2>0, Bounds DEF Served, DrawPcs, Requests
    <2>2. Status(r) = "done" => Status(r)' = "done"  BY <2>0, <2>1 DEF Gets, Status
    <2>3. \A w \in Calls : op[w].req = r /\ op[w].pc \in Placing => op'[w].req = r /\ op'[w].pc \in Placing
      BY <2>0 DEF Ends, Others, Placing
    <2> QED  BY <1>0, <2>0, <2>2, <2>3, <2>9, CountedStays
  <1>9. ASSUME NEW t \in Calls, PlaceElsewhere(t) PROVE Counted(r)'
    <2>9. up /\ request[r].unclosed => up' /\ request'[r].unclosed
      BY <1>0, <1>9, PlaceElsewhereDoes DEF Gets, Weeds
    <2>1. /\ drawn'[r] = drawn[r] /\ spent'.crashes = spent.crashes
          /\ Status(r)' = Status(r)
      BY <1>9, PlaceElsewhereDoes DEF Same, Status
    <2>2. \A w \in Calls : op[w].req = r /\ op[w].pc \in Placing => op'[w].req = r /\ op'[w].pc \in Placing
      BY <1>9, PlaceElsewhereDoes DEF Ends, Goes, Others, Placing
    <2> QED  BY <1>0, <2>1, <2>2, <2>9, CountedStays
  <1>10. ASSUME NEW t \in Calls, PlaceRead(t) PROVE Counted(r)'
    <2>9. up /\ request[r].unclosed => up' /\ request'[r].unclosed
      BY <1>0, <1>10, PlaceReadDoes DEF Gets, Weeds
    <2>1. /\ drawn'[r] = drawn[r] /\ spent'.crashes = spent.crashes
          /\ Status(r)' = Status(r)
      BY <1>10, PlaceReadDoes DEF Same, Status
    <2>2. \A w \in Calls : op[w].req = r /\ op[w].pc \in Placing => op'[w].req = r /\ op'[w].pc \in Placing
      BY <1>10, PlaceReadDoes DEF Ends, Goes, Others, Placing
    <2> QED  BY <1>0, <2>1, <2>2, <2>9, CountedStays
  <1>11. ASSUME NEW t \in Calls, PlaceAppend(t) PROVE Counted(r)'
    <2>9. up /\ request[r].unclosed => up' /\ request'[r].unclosed
      BY <1>0, <1>11, PlaceAppendDoes DEF Gets, Weeds
    <2>1. /\ drawn'[r] = drawn[r] /\ spent'.crashes = spent.crashes
          /\ Status(r)' = Status(r)
      BY <1>11, PlaceAppendDoes DEF Same, Status
    <2>2. \A w \in Calls : op[w].req = r /\ op[w].pc \in Placing => op'[w].req = r /\ op'[w].pc \in Placing
      BY <1>11, PlaceAppendDoes DEF Ends, Goes, Others, Placing
    <2> QED  BY <1>0, <2>1, <2>2, <2>9, CountedStays
  <1>12. ASSUME NEW t \in Calls, Done(t) PROVE Counted(r)'
    <2>9. up /\ request[r].unclosed => up' /\ request'[r].unclosed
      BY <1>0, <1>12, DoneDoes DEF Gets, Weeds
    <2>1. drawn'[r] = drawn[r] /\ spent'.crashes = spent.crashes  BY <1>12, DoneDoes
    <2>2. Status(r) = "done" => Status(r)' = "done"
      BY <1>0, <1>12, DoneDoes DEF Gets, Status
    <2>3. \A w \in Calls : op[w].req = r /\ op[w].pc \in Placing
            => \/ op'[w].req = r /\ op'[w].pc \in Placing
               \/ Status(r)' = "done" \/ (up' /\ request'[r].unclosed)
      <3>1. Ends(t) /\ request'[op[t].req].status = "done"  BY <1>12, DoneDoes DEF Gets
      <3> QED  BY <3>1 DEF Ends, Others, Status
    <2> QED  BY <1>0, <2>1, <2>2, <2>3, <2>9, CountedStays
  <1>13. ASSUME NEW t \in Calls, DeleteBegin(t) PROVE Counted(r)'
    <2>9. up /\ request[r].unclosed => up' /\ request'[r].unclosed
      BY <1>0, <1>13, DeleteBeginDoes DEF Gets, Weeds
    <2>1. /\ drawn'[r] = drawn[r] /\ spent'.crashes = spent.crashes
          /\ Status(r)' = Status(r)
      BY <1>13, DeleteBeginDoes DEF Same, Status
    <2>2. \A w \in Calls : op[w].req = r /\ op[w].pc \in Placing => op'[w].req = r /\ op'[w].pc \in Placing
      BY <1>13, DeleteBeginDoes DEF Ends, Goes, Others, Placing
    <2> QED  BY <1>0, <2>1, <2>2, <2>9, CountedStays
  <1>14. ASSUME NEW t \in Calls, DeleteCheck(t) PROVE Counted(r)'
    <2>9. up /\ request[r].unclosed => up' /\ request'[r].unclosed
      BY <1>0, <1>14, DeleteCheckDoes DEF Gets, Weeds
    <2>1. /\ drawn'[r] = drawn[r] /\ spent'.crashes = spent.crashes
          /\ Status(r)' = Status(r)
      BY <1>14, DeleteCheckDoes DEF Same, Status
    <2>2. \A w \in Calls : op[w].req = r /\ op[w].pc \in Placing => op'[w].req = r /\ op'[w].pc \in Placing
      BY <1>14, DeleteCheckDoes DEF Ends, Goes, Others, Placing
    <2> QED  BY <1>0, <2>1, <2>2, <2>9, CountedStays
  <1>15. ASSUME NEW t \in Calls, DeleteRow(t) PROVE Counted(r)'
    <2>9. up /\ request[r].unclosed => up' /\ request'[r].unclosed
      BY <1>0, <1>15, DeleteRowDoes DEF Gets, Weeds
    <2>1. /\ drawn'[r] = drawn[r] /\ spent'.crashes = spent.crashes
          /\ Status(r)' = Status(r)
      BY <1>15, DeleteRowDoes DEF Same, Status
    <2>2. \A w \in Calls : op[w].req = r /\ op[w].pc \in Placing => op'[w].req = r /\ op'[w].pc \in Placing
      BY <1>15, DeleteRowDoes DEF Ends, Goes, Others, Placing
    <2> QED  BY <1>0, <2>1, <2>2, <2>9, CountedStays
  <1>16. ASSUME NEW t \in Calls, CoverBegin(t) PROVE Counted(r)'
    <2>9. up /\ request[r].unclosed => up' /\ request'[r].unclosed
      BY <1>0, <1>16, CoverBeginDoes DEF Gets, Weeds
    <2>1. /\ drawn'[r] = drawn[r] /\ spent'.crashes = spent.crashes
          /\ Status(r)' = Status(r)
      BY <1>16, CoverBeginDoes DEF Same, Status
    <2>2. \A w \in Calls : op[w].req = r /\ op[w].pc \in Placing => op'[w].req = r /\ op'[w].pc \in Placing
      BY <1>16, CoverBeginDoes DEF Ends, Goes, Others, Placing
    <2> QED  BY <1>0, <2>1, <2>2, <2>9, CountedStays
  <1>17. ASSUME NEW t \in Calls, CoverSet(t) PROVE Counted(r)'
    <2>9. up /\ request[r].unclosed => up' /\ request'[r].unclosed
      BY <1>0, <1>17, CoverSetDoes DEF Gets, Weeds
    <2>1. /\ drawn'[r] = drawn[r] /\ spent'.crashes = spent.crashes
          /\ Status(r)' = Status(r)
      BY <1>17, CoverSetDoes DEF Same, Status
    <2>2. \A w \in Calls : op[w].req = r /\ op[w].pc \in Placing => op'[w].req = r /\ op'[w].pc \in Placing
      BY <1>17, CoverSetDoes DEF Ends, Goes, Others, Placing
    <2> QED  BY <1>0, <2>1, <2>2, <2>9, CountedStays
  <1>18. CASE List
    <2>9. up /\ request[r].unclosed => up' /\ request'[r].unclosed
      BY <1>0, <1>18, ListDoes DEF Gets, Weeds
    <2>1. drawn'[r] = drawn[r] /\ spent'.crashes = spent.crashes  BY <1>18, ListDoes
    <2>2. Status(r) = "done" => Status(r)' = "done"
      BY <1>0, <1>18, ListDoes DEF Weeds, Open, Status
    <2>3. \A w \in Calls : op[w].req = r /\ op[w].pc \in Placing
            => \/ op'[w].req = r /\ op'[w].pc \in Placing
               \/ Status(r)' = "done" \/ (up' /\ request'[r].unclosed)
      BY <1>0, <1>18, ListDoes DEF Ends, Goes, Others, Placing, Gets, Status
    <2> QED  BY <1>0, <2>1, <2>2, <2>3, <2>9, CountedStays
  <1>19. ASSUME NEW q \in Requests, Reject(q) PROVE Counted(r)'
    <2>9. up /\ request[r].unclosed => up' /\ request'[r].unclosed
      BY <1>0, <1>19, RejectDoes DEF Gets, Weeds
    <2>1. drawn'[r] = drawn[r] /\ spent'.crashes = spent.crashes  BY <1>19, RejectDoes
    <2>2. Status(r) = "done" => Status(r)' = "done"
      BY <1>0, <1>19, RejectDoes DEF Gets, Open, Status
    <2>3. \A w \in Calls : op[w].req = r /\ op[w].pc \in Placing
            => \/ op'[w].req = r /\ op'[w].pc \in Placing
               \/ Status(r)' = "done" \/ (up' /\ request'[r].unclosed)
      BY <1>0, <1>19, RejectDoes DEF Ends, Goes, Others, Placing, Gets, Status
    <2> QED  BY <1>0, <2>1, <2>2, <2>3, <2>9, CountedStays
  <1>20. CASE SetRepresentative
    <2>9. up /\ request[r].unclosed => up' /\ request'[r].unclosed
      BY <1>0, <1>20, SetRepresentativeDoes DEF Gets, Weeds
    <2>1. /\ drawn'[r] = drawn[r] /\ spent'.crashes = spent.crashes
          /\ Status(r)' = Status(r)
      BY <1>20, SetRepresentativeDoes DEF Same, Status
    <2>2. \A w \in Calls : op[w].req = r /\ op[w].pc \in Placing => op'[w].req = r /\ op'[w].pc \in Placing
      BY <1>20, SetRepresentativeDoes DEF Ends, Goes, Others, Placing
    <2> QED  BY <1>0, <2>1, <2>2, <2>9, CountedStays
  <1>21. CASE SaveScene
    <2>9. up /\ request[r].unclosed => up' /\ request'[r].unclosed
      BY <1>0, <1>21, SaveSceneDoes DEF Gets, Weeds
    <2>1. /\ drawn'[r] = drawn[r] /\ spent'.crashes = spent.crashes
          /\ Status(r)' = Status(r)
      BY <1>21, SaveSceneDoes DEF Same, Status
    <2>2. \A w \in Calls : op[w].req = r /\ op[w].pc \in Placing => op'[w].req = r /\ op'[w].pc \in Placing
      BY <1>21, SaveSceneDoes DEF Ends, Goes, Others, Placing
    <2> QED  BY <1>0, <2>1, <2>2, <2>9, CountedStays
  <1>22. CASE DeleteScene
    <2>9. up /\ request[r].unclosed => up' /\ request'[r].unclosed
      BY <1>0, <1>22, DeleteSceneDoes DEF Gets, Weeds
    <2>1. /\ drawn'[r] = drawn[r] /\ spent'.crashes = spent.crashes
          /\ Status(r)' = Status(r)
      BY <1>22, DeleteSceneDoes DEF Same, Status
    <2>2. \A w \in Calls : op[w].req = r /\ op[w].pc \in Placing => op'[w].req = r /\ op'[w].pc \in Placing
      BY <1>22, DeleteSceneDoes DEF Ends, Goes, Others, Placing
    <2> QED  BY <1>0, <2>1, <2>2, <2>9, CountedStays
  <1>23. CASE Crash
    <2>1. drawn' = drawn /\ spent'.crashes = spent.crashes + 1 /\ spent.crashes \in Nat
      BY <1>0, <1>23, CrashDoes DEF Types, Counters
    <2>2. Extra(r)' \in 0..1 /\ Extra(r) \in 0..1  BY DEF Extra
    <2>3. Cardinality(drawn[r]) \in Nat  BY <1>0, FS_CardinalityType DEF Counted
    <2> QED  BY <1>0, <2>1, <2>2, <2>3 DEF Counted
  <1>24. CASE Start
    <2>9. up /\ request[r].unclosed => up' /\ request'[r].unclosed
      BY <1>0, <1>24, StartDoes DEF Gets, Weeds
    <2>1. drawn'[r] = drawn[r] /\ spent'.crashes = spent.crashes  BY <1>24, StartDoes
    <2>2. Status(r) = "done" => Status(r)' = "done"
      BY <1>0, <1>24, StartDoes DEF Status
    <2>3. \A w \in Calls : op[w].req = r /\ op[w].pc \in Placing
            => \/ op'[w].req = r /\ op'[w].pc \in Placing
               \/ Status(r)' = "done" \/ (up' /\ request'[r].unclosed)
      BY <1>0, <1>24, StartDoes DEF Ends, Goes, Others, Placing, Gets, Status
    <2> QED  BY <1>0, <2>1, <2>2, <2>3, <2>9, CountedStays
  <1>26. ASSUME NEW t \in Calls, Leave(t) PROVE Counted(r)'
    <2>0. /\ drawn'[r] = drawn[r] /\ spent'.crashes = spent.crashes /\ up' = up
          /\ op[t].req \in Requests /\ op[t].pc \in DrawPcs /\ Ends(t) /\ Unclosed(op[t].req)
      BY <1>26, LeaveDoes DEF Same
    <2>1. up  BY <1>0, <2>0 DEF Served, Placing, DrawPcs
    <2>2. Status(r) = "done" => Status(r)' = "done"  BY <2>0 DEF Unclosed, Status
    <2>3. \A w \in Calls : op[w].req = r /\ op[w].pc \in Placing
            => \/ op'[w].req = r /\ op'[w].pc \in Placing
               \/ Status(r)' = "done" \/ (up' /\ request'[r].unclosed)
      BY <2>0, <2>1 DEF Ends, Others, Unclosed
    <2>9. up /\ request[r].unclosed => up' /\ request'[r].unclosed  BY <2>0 DEF Unclosed
    <2> QED  BY <1>0, <2>0, <2>2, <2>3, <2>9, CountedStays
  <1>25. CASE UNCHANGED vars  BY <1>0, <1>25 DEF vars, Counted, Extra, Status
  <1> QED  BY <1>1, <1>2, <1>3, <1>4, <1>5, <1>6, <1>7, <1>8, <1>9, <1>10, <1>11, <1>12, <1>13, <1>14, <1>15, <1>16, <1>17, <1>18, <1>19, <1>20, <1>21, <1>22, <1>23, <1>24, <1>25, <1>26 DEF Next, Writer, Begin, Serve

\* Pending requests and those about to be filed: with one more of the first there is one
\* less of the second.
Waiting  == With("pending")

LEMMA FiniteSets ==
  ASSUME Types
  PROVE  /\ IsFiniteSet(Waiting) /\ IsFiniteSet(Inserting)
         /\ Cardinality(Waiting) \in Nat /\ Cardinality(Inserting) \in Nat
         /\ Cardinality(Inserting) <= Cardinality(Calls) /\ Cardinality(Calls) \in Nat
  <1>1. IsFiniteSet(Requests)  BY Bounds, FS_Interval DEF Requests
  <1>2. Waiting \subseteq Requests /\ Inserting \subseteq Calls  BY DEF Waiting, With, Inserting
  <1> QED  BY <1>1, <1>2, SomeCalls, FS_Subset, FS_CardinalityType

LEMMA FewerWait ==
  ASSUME Types, Bounded, Types', Waiting' \subseteq Waiting, Inserting' \subseteq Inserting,
         gallery' \subseteq gallery
  PROVE  Bounded'
  <1> USE FiniteSets, Limits
  <1>1. Cardinality(Waiting') <= Cardinality(Waiting) /\ Cardinality(Inserting') <= Cardinality(Inserting)
    BY FS_Subset
  <1>2. Cardinality(Waiting') \in Nat /\ Cardinality(Inserting') \in Nat
    <2>1. IsFiniteSet(Waiting') /\ IsFiniteSet(Inserting')  BY FS_Subset
    <2> QED  BY <2>1, FS_CardinalityType
  <1>3. NearlyBounded'
    <2>1. Cardinality(Waiting) + Cardinality(Inserting) < MaxPendingRequests + Cardinality(Calls)
      BY DEF Bounded, NearlyBounded, Waiting
    <2>2. Cardinality(Waiting') + Cardinality(Inserting') < MaxPendingRequests + Cardinality(Calls)
      BY <1>1, <1>2, <2>1
    <2> QED  BY <2>2 DEF NearlyBounded, Waiting
  <1>4. /\ IsFiniteSet(gallery') /\ Cardinality(gallery') <= Cardinality(gallery)
        /\ Cardinality(gallery) \in Nat /\ Cardinality(gallery') \in Nat
    <2>1. IsFiniteSet(gallery)  BY DEF Bounded
    <2> QED  BY <2>1, FS_Subset, FS_CardinalityType
  <1> QED  BY <1>3, <1>4 DEF Bounded

LEMMA BoundedStep ==
  ASSUME Inv, [Next]_vars
  PROVE  Bounded'
  <1>0. Types /\ Bounded /\ \A w \in Calls : Served(w)  BY Bounds DEF Inv
  <1>1. ASSUME NEW t \in Calls, SubmitCount(t) PROVE Bounded'
    <2>1. Types' /\ gallery' = gallery /\ request' = request /\ Cardinality(Waiting) < MaxPendingRequests
      BY <1>1, SubmitCountDoes DEF Waiting
    <2>2. Waiting' = Waiting  BY <2>1 DEF Waiting, With
    <2>3. /\ Cardinality(Waiting) \in Nat /\ Cardinality(Inserting') \in Nat /\ Cardinality(Calls) \in Nat
          /\ Cardinality(Inserting') <= Cardinality(Calls)
      <3>1. IsFiniteSet(Inserting') /\ Inserting' \subseteq Calls  BY SomeCalls, FS_Subset DEF Inserting
      <3> QED  BY <1>0, <3>1, FiniteSets, FS_Subset, SomeCalls, FS_CardinalityType
    <2>4. Cardinality(Waiting') + Cardinality(Inserting') < MaxPendingRequests + Cardinality(Calls)
      BY <2>1, <2>2, <2>3, Limits
    <2> QED  BY <1>0, <2>1, <2>4 DEF Bounded, NearlyBounded, Waiting
  <1>2. ASSUME NEW t \in Calls, SubmitInsert(t) PROVE Bounded'
    <2>0. /\ Types' /\ gallery' = gallery /\ Ends(t) /\ Gets(op[t].req, "pending") /\ op[t].req \in Requests
          /\ op[t].pc = "insert"
      BY <1>2, SubmitInsertDoes
    <2>1. Waiting' = Waiting \cup {op[t].req}  BY <1>0, <2>0 DEF Waiting, With, Gets
    <2>2. Inserting' = Inserting \ {t} /\ t \in Inserting  BY <2>0 DEF Inserting, Ends, Others
    <2>3. /\ Cardinality(Waiting') <= Cardinality(Waiting) + 1 /\ Cardinality(Waiting') \in Nat
          /\ Cardinality(Inserting') = Cardinality(Inserting) - 1 /\ Cardinality(Inserting') \in Nat
      <3>1. IsFiniteSet(Waiting) /\ IsFiniteSet(Inserting) /\ Cardinality(Waiting) \in Nat
        BY <1>0, FiniteSets
      <3>2. Cardinality(Waiting \cup {op[t].req}) <= Cardinality(Waiting) + 1 /\ IsFiniteSet(Waiting \cup {op[t].req})
        <4>1. /\ IsFiniteSet(Waiting \cup {op[t].req})
              /\ Cardinality(Waiting \cup {op[t].req}) = Cardinality(Waiting)
                 \/ Cardinality(Waiting \cup {op[t].req}) = Cardinality(Waiting) + 1
          BY <3>1, FS_AddElement
        <4> QED  BY <3>1, <4>1
      <3>3. Cardinality(Inserting \ {t}) = Cardinality(Inserting) - 1 /\ IsFiniteSet(Inserting \ {t})
        BY <2>2, <3>1, FS_RemoveElement
      <3>4. Cardinality(Waiting') \in Nat /\ Cardinality(Inserting') \in Nat
        BY <2>1, <2>2, <3>2, <3>3, FS_CardinalityType
      <3> QED  BY <2>1, <2>2, <3>2, <3>3, <3>4
    <2>4. /\ Cardinality(Waiting) + Cardinality(Inserting) < MaxPendingRequests + Cardinality(Calls)
          /\ Cardinality(Waiting) \in Nat /\ Cardinality(Inserting) \in Nat /\ Cardinality(Calls) \in Nat
      BY <1>0, FiniteSets DEF Bounded, NearlyBounded, Waiting
    <2>5. Cardinality(Waiting') + Cardinality(Inserting') < MaxPendingRequests + Cardinality(Calls)
      BY <2>3, <2>4, Limits
    <2> QED  BY <1>0, <2>0, <2>5 DEF Bounded, NearlyBounded, Waiting
  <1>3. ASSUME NEW t \in Calls, ApproveBegin(t) PROVE Bounded'
    <2>1. Types' /\ gallery' = gallery  BY <1>3, ApproveBeginDoes
    <2>2. Waiting' \subseteq Waiting
      BY <1>0, <1>3, ApproveBeginDoes DEF Waiting, With, Weeds, Status
    <2>3. Inserting' \subseteq Inserting
      BY <1>0, <1>3, ApproveBeginDoes DEF Inserting, Ends, Goes, Others
    <2> QED  BY <1>0, <2>1, <2>2, <2>3, FewerWait
  <1>4. ASSUME NEW t \in Calls, Claim(t) PROVE Bounded'
    <2>1. Types' /\ gallery' = gallery  BY <1>4, ClaimDoes
    <2>2. Waiting' \subseteq Waiting
      BY <1>0, <1>4, ClaimDoes DEF Waiting, With, Gets, Status
    <2>3. Inserting' \subseteq Inserting
      BY <1>0, <1>4, ClaimDoes DEF Inserting, Ends, Goes, Others
    <2> QED  BY <1>0, <2>1, <2>2, <2>3, FewerWait
  <1>5. ASSUME NEW t \in Calls, DrawBegin(t) PROVE Bounded'
    <2>1. Types' /\ gallery' = gallery /\ request' = request
      BY <1>5, DrawBeginDoes DEF Same
    <2>2. Inserting' \subseteq Inserting
      BY <1>0, <1>5, DrawBeginDoes DEF Inserting, Ends, Goes, Others
    <2> QED  BY <1>0, <2>1, <2>2, FewerWait DEF Waiting, With
  <1>6. ASSUME NEW t \in Calls, Paint(t) PROVE Bounded'
    <2>1. Types' /\ gallery' = gallery /\ request' = request
      BY <1>6, PaintDoes DEF Same
    <2>2. Inserting' \subseteq Inserting
      BY <1>0, <1>6, PaintDoes DEF Inserting, Ends, Goes, Others
    <2> QED  BY <1>0, <2>1, <2>2, FewerWait DEF Waiting, With
  <1>7. ASSUME NEW t \in Calls, Add(t) PROVE Bounded'
    <2>0. Types' /\ request' = request /\ op[t].pc = "add" /\ Others(t) /\ op'[t].pc # "insert"
      BY <1>7, AddDoes DEF Ends, Goes
    <2>1. Inserting' \subseteq Inserting  BY <2>0 DEF Inserting, Others
    <2>2. Waiting' = Waiting  BY <2>0 DEF Waiting, With
    <2>3. CASE gallery' = gallery  BY <1>0, <2>0, <2>1, <2>2, <2>3, FewerWait
    <2>4. CASE gallery' # gallery
      <3>1. Room /\ \E pic \in Pictures : gallery' = gallery \cup {pic}  BY <1>7, <2>4, AddDoes
      <3>2. PICK pic \in Pictures : gallery' = gallery \cup {pic}  BY <3>1
      <3>3. IsFiniteSet(gallery) /\ Cardinality(gallery) < MaxPerProject /\ Cardinality(gallery) \in Nat
        BY <1>0, <3>1, FS_CardinalityType DEF Room, Bounded
      <3>4. IsFiniteSet(gallery') /\ Cardinality(gallery') <= MaxPerProject
        <4>1. /\ IsFiniteSet(gallery \cup {pic})
              /\ Cardinality(gallery \cup {pic}) = Cardinality(gallery)
                 \/ Cardinality(gallery \cup {pic}) = Cardinality(gallery) + 1
          BY <3>3, FS_AddElement
        <4> QED  BY <3>2, <3>3, <4>1, Limits
      <3>5. NearlyBounded'
        <4>1. /\ Cardinality(Inserting') <= Cardinality(Inserting) /\ Cardinality(Inserting') \in Nat
              /\ Cardinality(Inserting) \in Nat /\ Cardinality(Waiting) \in Nat /\ Cardinality(Calls) \in Nat
          BY <1>0, <2>1, FiniteSets, FS_Subset, FS_CardinalityType
        <4>2. Cardinality(Waiting) + Cardinality(Inserting) < MaxPendingRequests + Cardinality(Calls)
          BY <1>0 DEF Bounded, NearlyBounded, Waiting
        <4>3. Cardinality(Waiting') + Cardinality(Inserting') < MaxPendingRequests + Cardinality(Calls)
          BY <2>2, <4>1, <4>2, Limits
        <4> QED  BY <4>3 DEF NearlyBounded, Waiting
      <3> QED  BY <3>4, <3>5 DEF Bounded
    <2> QED  BY <2>3, <2>4
  <1>8. ASSUME NEW t \in Calls, Fail(t) PROVE Bounded'
    <2>1. Types' /\ gallery' = gallery  BY <1>8, FailDoes
    <2>2. Waiting' \subseteq Waiting
      BY <1>0, <1>8, FailDoes DEF Waiting, With, Gets, Status
    <2>3. Inserting' \subseteq Inserting
      BY <1>0, <1>8, FailDoes DEF Inserting, Ends, Goes, Others
    <2> QED  BY <1>0, <2>1, <2>2, <2>3, FewerWait
  <1>9. ASSUME NEW t \in Calls, PlaceElsewhere(t) PROVE Bounded'
    <2>1. Types' /\ gallery' = gallery /\ request' = request
      BY <1>9, PlaceElsewhereDoes DEF Same
    <2>2. Inserting' \subseteq Inserting
      BY <1>0, <1>9, PlaceElsewhereDoes DEF Inserting, Ends, Goes, Others
    <2> QED  BY <1>0, <2>1, <2>2, FewerWait DEF Waiting, With
  <1>10. ASSUME NEW t \in Calls, PlaceRead(t) PROVE Bounded'
    <2>1. Types' /\ gallery' = gallery /\ request' = request
      BY <1>10, PlaceReadDoes DEF Same
    <2>2. Inserting' \subseteq Inserting
      BY <1>0, <1>10, PlaceReadDoes DEF Inserting, Ends, Goes, Others
    <2> QED  BY <1>0, <2>1, <2>2, FewerWait DEF Waiting, With
  <1>11. ASSUME NEW t \in Calls, PlaceAppend(t) PROVE Bounded'
    <2>1. Types' /\ gallery' = gallery /\ request' = request
      BY <1>11, PlaceAppendDoes DEF Same
    <2>2. Inserting' \subseteq Inserting
      BY <1>0, <1>11, PlaceAppendDoes DEF Inserting, Ends, Goes, Others
    <2> QED  BY <1>0, <2>1, <2>2, FewerWait DEF Waiting, With
  <1>12. ASSUME NEW t \in Calls, Done(t) PROVE Bounded'
    <2>1. Types' /\ gallery' = gallery  BY <1>12, DoneDoes
    <2>2. Waiting' \subseteq Waiting
      BY <1>0, <1>12, DoneDoes DEF Waiting, With, Gets, Status
    <2>3. Inserting' \subseteq Inserting
      BY <1>0, <1>12, DoneDoes DEF Inserting, Ends, Goes, Others
    <2> QED  BY <1>0, <2>1, <2>2, <2>3, FewerWait
  <1>13. ASSUME NEW t \in Calls, DeleteBegin(t) PROVE Bounded'
    <2>1. Types' /\ gallery' = gallery /\ request' = request
      BY <1>13, DeleteBeginDoes DEF Same
    <2>2. Inserting' \subseteq Inserting
      BY <1>0, <1>13, DeleteBeginDoes DEF Inserting, Ends, Goes, Others
    <2> QED  BY <1>0, <2>1, <2>2, FewerWait DEF Waiting, With
  <1>14. ASSUME NEW t \in Calls, DeleteCheck(t) PROVE Bounded'
    <2>1. Types' /\ gallery' = gallery /\ request' = request
      BY <1>14, DeleteCheckDoes DEF Same
    <2>2. Inserting' \subseteq Inserting
      BY <1>0, <1>14, DeleteCheckDoes DEF Inserting, Ends, Goes, Others
    <2> QED  BY <1>0, <2>1, <2>2, FewerWait DEF Waiting, With
  <1>15. ASSUME NEW t \in Calls, DeleteRow(t) PROVE Bounded'
    <2>1. Types' /\ gallery' \subseteq gallery /\ request' = request /\ Ends(t)
      BY <1>15, DeleteRowDoes
    <2>2. Inserting' \subseteq Inserting  BY <2>1 DEF Inserting, Ends, Others
    <2> QED  BY <1>0, <2>1, <2>2, FewerWait DEF Waiting, With
  <1>16. ASSUME NEW t \in Calls, CoverBegin(t) PROVE Bounded'
    <2>1. Types' /\ gallery' = gallery /\ request' = request
      BY <1>16, CoverBeginDoes DEF Same
    <2>2. Inserting' \subseteq Inserting
      BY <1>0, <1>16, CoverBeginDoes DEF Inserting, Ends, Goes, Others
    <2> QED  BY <1>0, <2>1, <2>2, FewerWait DEF Waiting, With
  <1>17. ASSUME NEW t \in Calls, CoverSet(t) PROVE Bounded'
    <2>1. Types' /\ gallery' = gallery /\ request' = request
      BY <1>17, CoverSetDoes DEF Same
    <2>2. Inserting' \subseteq Inserting
      BY <1>0, <1>17, CoverSetDoes DEF Inserting, Ends, Goes, Others
    <2> QED  BY <1>0, <2>1, <2>2, FewerWait DEF Waiting, With
  <1>18. CASE List
    <2>1. Types' /\ gallery' = gallery  BY <1>18, ListDoes
    <2>2. Waiting' \subseteq Waiting
      BY <1>0, <1>18, ListDoes DEF Waiting, With, Weeds, Status
    <2>3. Inserting' \subseteq Inserting
      BY <1>0, <1>18, ListDoes DEF Inserting, Ends, Goes, Others
    <2> QED  BY <1>0, <2>1, <2>2, <2>3, FewerWait
  <1>19. ASSUME NEW q \in Requests, Reject(q) PROVE Bounded'
    <2>1. Types' /\ gallery' = gallery  BY <1>19, RejectDoes
    <2>2. Waiting' \subseteq Waiting
      BY <1>0, <1>19, RejectDoes DEF Waiting, With, Gets, Status
    <2>3. Inserting' \subseteq Inserting
      BY <1>0, <1>19, RejectDoes DEF Inserting, Ends, Goes, Others
    <2> QED  BY <1>0, <2>1, <2>2, <2>3, FewerWait
  <1>20. CASE SetRepresentative
    <2>1. Types' /\ gallery' = gallery /\ request' = request /\ op' = op  BY <1>20, SetRepresentativeDoes
    <2> QED  BY <1>0, <2>1, FewerWait DEF Waiting, With, Inserting
  <1>21. CASE SaveScene
    <2>1. Types' /\ gallery' = gallery /\ request' = request /\ op' = op  BY <1>21, SaveSceneDoes
    <2> QED  BY <1>0, <2>1, FewerWait DEF Waiting, With, Inserting
  <1>22. CASE DeleteScene
    <2>1. Types' /\ gallery' = gallery /\ request' = request /\ op' = op  BY <1>22, DeleteSceneDoes
    <2> QED  BY <1>0, <2>1, FewerWait DEF Waiting, With, Inserting
  <1>23. CASE Crash
    <2>1. Types' /\ gallery' = gallery /\ request' = request  BY <1>23, CrashDoes
    <2>2. Inserting' \subseteq Inserting  BY <1>23, CrashDoes DEF Inserting
    <2> QED  BY <1>0, <2>1, <2>2, FewerWait DEF Waiting, With
  <1>24. CASE Start
    <2>1. Types' /\ gallery' = gallery  BY <1>24, StartDoes
    <2>2. Waiting' \subseteq Waiting
      BY <1>0, <1>24, StartDoes DEF Waiting, With, Status
    <2>3. Inserting' \subseteq Inserting
      BY <1>0, <1>24, StartDoes DEF Inserting, Ends, Goes, Others
    <2> QED  BY <1>0, <2>1, <2>2, <2>3, FewerWait
  <1>26. ASSUME NEW t \in Calls, Leave(t) PROVE Bounded'
    <2>1. Types' /\ gallery' = gallery  BY <1>26, LeaveDoes
    <2>2. Waiting' \subseteq Waiting
      BY <1>0, <1>26, LeaveDoes DEF Waiting, With, Unclosed, Status
    <2>3. Inserting' \subseteq Inserting
      BY <1>0, <1>26, LeaveDoes DEF Inserting, Ends, Others
    <2> QED  BY <1>0, <2>1, <2>2, <2>3, FewerWait
  <1>25. CASE UNCHANGED vars  BY <1>0, <1>25 DEF vars, Bounded, NearlyBounded, With, Inserting
  <1> QED  BY <1>1, <1>2, <1>3, <1>4, <1>5, <1>6, <1>7, <1>8, <1>9, <1>10, <1>11, <1>12, <1>13, <1>14, <1>15, <1>16, <1>17, <1>18, <1>19, <1>20, <1>21, <1>22, <1>23, <1>24, <1>25, <1>26 DEF Next, Writer, Begin, Serve

LEMMA TypesStep ==
  ASSUME Inv, [Next]_vars
  PROVE  Types'
  <1>0. Types  BY Bounds DEF Inv
  <1>1. ASSUME NEW t \in Calls, SubmitCount(t) PROVE Types'
    BY <1>1, SubmitCountDoes
  <1>2. ASSUME NEW t \in Calls, SubmitInsert(t) PROVE Types'
    BY <1>2, SubmitInsertDoes
  <1>3. ASSUME NEW t \in Calls, ApproveBegin(t) PROVE Types'
    BY <1>3, ApproveBeginDoes
  <1>4. ASSUME NEW t \in Calls, Claim(t) PROVE Types'
    BY <1>4, ClaimDoes
  <1>5. ASSUME NEW t \in Calls, DrawBegin(t) PROVE Types'
    BY <1>5, DrawBeginDoes
  <1>6. ASSUME NEW t \in Calls, Paint(t) PROVE Types'
    BY <1>6, PaintDoes
  <1>7. ASSUME NEW t \in Calls, Add(t) PROVE Types'
    BY <1>7, AddDoes
  <1>8. ASSUME NEW t \in Calls, Fail(t) PROVE Types'
    BY <1>8, FailDoes
  <1>9. ASSUME NEW t \in Calls, PlaceElsewhere(t) PROVE Types'
    BY <1>9, PlaceElsewhereDoes
  <1>10. ASSUME NEW t \in Calls, PlaceRead(t) PROVE Types'
    BY <1>10, PlaceReadDoes
  <1>11. ASSUME NEW t \in Calls, PlaceAppend(t) PROVE Types'
    BY <1>11, PlaceAppendDoes
  <1>12. ASSUME NEW t \in Calls, Done(t) PROVE Types'
    BY <1>12, DoneDoes
  <1>13. ASSUME NEW t \in Calls, DeleteBegin(t) PROVE Types'
    BY <1>13, DeleteBeginDoes
  <1>14. ASSUME NEW t \in Calls, DeleteCheck(t) PROVE Types'
    BY <1>14, DeleteCheckDoes
  <1>15. ASSUME NEW t \in Calls, DeleteRow(t) PROVE Types'
    BY <1>15, DeleteRowDoes
  <1>16. ASSUME NEW t \in Calls, CoverBegin(t) PROVE Types'
    BY <1>16, CoverBeginDoes
  <1>17. ASSUME NEW t \in Calls, CoverSet(t) PROVE Types'
    BY <1>17, CoverSetDoes
  <1>18. CASE List
    BY <1>18, ListDoes
  <1>19. ASSUME NEW q \in Requests, Reject(q) PROVE Types'
    BY <1>19, RejectDoes
  <1>20. CASE SetRepresentative
    BY <1>20, SetRepresentativeDoes
  <1>21. CASE SaveScene
    BY <1>21, SaveSceneDoes
  <1>22. CASE DeleteScene
    BY <1>22, DeleteSceneDoes
  <1>23. CASE Crash
    BY <1>23, CrashDoes
  <1>24. CASE Start
    BY <1>24, StartDoes
  <1>26. ASSUME NEW t \in Calls, Leave(t) PROVE Types'
    BY <1>26, LeaveDoes
  <1>25. CASE UNCHANGED vars  BY <1>0, <1>25 DEF vars, Types
  <1> QED  BY <1>1, <1>2, <1>3, <1>4, <1>5, <1>6, <1>7, <1>8, <1>9, <1>10, <1>11, <1>12, <1>13, <1>14, <1>15, <1>16, <1>17, <1>18, <1>19, <1>20, <1>21, <1>22, <1>23, <1>24, <1>25, <1>26 DEF Next, Writer, Begin, Serve

LEMMA DecidedStep ==
  ASSUME Inv, [Next]_vars, NEW r \in Requests, Status(r) \in Closed
  PROVE  request'[r] = request[r]
  <1>0. Types /\ Status(r) \in Closed /\ \A w \in Calls : Served(w)  BY Bounds DEF Inv
  <1>1. ASSUME NEW t \in Calls, SubmitCount(t) PROVE request'[r] = request[r]
    BY <1>1, SubmitCountDoes
  <1>2. ASSUME NEW t \in Calls, SubmitInsert(t) PROVE request'[r] = request[r]
    BY <1>0, <1>2, SubmitInsertDoes DEF Served, Gets, Status, Closed
  <1>3. ASSUME NEW t \in Calls, ApproveBegin(t) PROVE request'[r] = request[r]
    BY <1>0, <1>3, ApproveBeginDoes DEF Weeds, Open, Status, Closed
  <1>4. ASSUME NEW t \in Calls, Claim(t) PROVE request'[r] = request[r]
    BY <1>0, <1>4, ClaimDoes DEF Gets, Open, Status, Closed
  <1>5. ASSUME NEW t \in Calls, DrawBegin(t) PROVE request'[r] = request[r]
    BY <1>5, DrawBeginDoes
  <1>6. ASSUME NEW t \in Calls, Paint(t) PROVE request'[r] = request[r]
    BY <1>6, PaintDoes
  <1>7. ASSUME NEW t \in Calls, Add(t) PROVE request'[r] = request[r]
    BY <1>7, AddDoes
  <1>8. ASSUME NEW t \in Calls, Fail(t) PROVE request'[r] = request[r]
    <2>1. op[t].pc \in DrawPcs /\ op[t].req \in Requests /\ \E s \in Statuses : Gets(op[t].req, s)
      BY <1>8, FailDoes DEF DrawPcs, Placing, Statuses
    <2>2. Status(op[t].req) = "generating"  BY <1>0, <2>1, Bounds DEF Served, Requests
    <2> QED  BY <1>0, <2>1, <2>2 DEF Gets, Status, Closed
  <1>9. ASSUME NEW t \in Calls, PlaceElsewhere(t) PROVE request'[r] = request[r]
    BY <1>9, PlaceElsewhereDoes
  <1>10. ASSUME NEW t \in Calls, PlaceRead(t) PROVE request'[r] = request[r]
    BY <1>10, PlaceReadDoes
  <1>11. ASSUME NEW t \in Calls, PlaceAppend(t) PROVE request'[r] = request[r]
    BY <1>11, PlaceAppendDoes
  <1>12. ASSUME NEW t \in Calls, Done(t) PROVE request'[r] = request[r]
    <2>1. op[t].pc \in DrawPcs /\ op[t].req \in Requests /\ \E s \in Statuses : Gets(op[t].req, s)
      BY <1>12, DoneDoes DEF DrawPcs, Placing, Statuses
    <2>2. Status(op[t].req) = "generating"  BY <1>0, <2>1, Bounds DEF Served, Requests
    <2> QED  BY <1>0, <2>1, <2>2 DEF Gets, Status, Closed
  <1>13. ASSUME NEW t \in Calls, DeleteBegin(t) PROVE request'[r] = request[r]
    BY <1>13, DeleteBeginDoes
  <1>14. ASSUME NEW t \in Calls, DeleteCheck(t) PROVE request'[r] = request[r]
    BY <1>14, DeleteCheckDoes
  <1>15. ASSUME NEW t \in Calls, DeleteRow(t) PROVE request'[r] = request[r]
    BY <1>15, DeleteRowDoes
  <1>16. ASSUME NEW t \in Calls, CoverBegin(t) PROVE request'[r] = request[r]
    BY <1>16, CoverBeginDoes
  <1>17. ASSUME NEW t \in Calls, CoverSet(t) PROVE request'[r] = request[r]
    BY <1>17, CoverSetDoes
  <1>18. CASE List
    BY <1>0, <1>18, ListDoes DEF Weeds, Open, Status, Closed
  <1>19. ASSUME NEW q \in Requests, Reject(q) PROVE request'[r] = request[r]
    BY <1>0, <1>19, RejectDoes DEF Gets, Open, Status, Closed
  <1>20. CASE SetRepresentative
    BY <1>20, SetRepresentativeDoes
  <1>21. CASE SaveScene
    BY <1>21, SaveSceneDoes
  <1>22. CASE DeleteScene
    BY <1>22, DeleteSceneDoes
  <1>23. CASE Crash
    BY <1>23, CrashDoes
  <1>24. CASE Start
    BY <1>0, <1>24, StartDoes DEF Status, Closed
  <1>26. ASSUME NEW t \in Calls, Leave(t) PROVE request'[r] = request[r]
    <2>1. op[t].pc \in DrawPcs /\ op[t].req \in Requests /\ Unclosed(op[t].req)  BY <1>26, LeaveDoes
    <2>2. Status(op[t].req) = "generating"  BY <1>0, <2>1, Bounds DEF Served, Requests
    <2> QED  BY <1>0, <2>1, <2>2 DEF Unclosed, Status, Closed
  <1>25. CASE UNCHANGED vars  BY <1>0, <1>25 DEF vars
  <1> QED  BY <1>1, <1>2, <1>3, <1>4, <1>5, <1>6, <1>7, <1>8, <1>9, <1>10, <1>11, <1>12, <1>13, <1>14, <1>15, <1>16, <1>17, <1>18, <1>19, <1>20, <1>21, <1>22, <1>23, <1>24, <1>25, <1>26 DEF Next, Writer, Begin, Serve

-----------------------------------------------------------------------------
(* The theorems. *)

LEMMA InitInv == Init => Inv
  <1> SUFFICES ASSUME Init PROVE Inv  OBVIOUS
  <1> USE DEF Init
  <1>1. Types
    <2>1. scene \in Written /\ chosen \in Naming /\ spent \in Counters  BY Bounds DEF Written, Naming, Counters
    <2>2. request \in [Requests -> Filed]
      <3>1. [status |-> "none", purpose |-> "gallery", pic |-> 0, placed |-> FALSE,
             unclosed |-> FALSE] \in Filed
        BY Zenon DEF Filed, Statuses, Purposes
      <3> QED  BY <3>1
    <2> QED  BY <2>1, <2>2, IdleIsCalling DEF Types
  <1>2. \A t \in Calls : op[t].pc = "idle" /\ op[t].req = 0  BY IdleIsCalling
  <1>3. \A r \in Requests : Status(r) = "none" /\ ~request[r].unclosed /\ drawn[r] = {}  BY DEF Status
  <1>4. Bounded
    <2>1. With("pending") = {} /\ Inserting = {}  BY <1>2, <1>3 DEF With, Inserting, Status
    <2>2. Cardinality({}) = 0 /\ IsFiniteSet({})  BY FS_EmptySet
    <2>3. 0 + 0 < MaxPendingRequests + Cardinality(Calls)  BY Limits, SomeCalls, FS_CardinalityType
    <2>4. NearlyBounded  BY <2>1, <2>2, <2>3 DEF NearlyBounded
    <2>5. gallery = {} /\ 0 <= MaxPerProject  BY Limits
    <2> QED  BY <2>2, <2>4, <2>5 DEF Bounded
  <1>5. ASSUME NEW t \in Calls PROVE Served(t) /\ Current(t)
    BY <1>2 DEF Served, Current, Placing, DrawPcs
  <1>6. ASSUME NEW t \in Calls, NEW u \in Calls PROVE Apart(t, u)
    BY <1>2 DEF Apart, Placing, DrawPcs
  <1>7. ASSUME NEW r \in Requests PROVE Standing(r) /\ Counted(r)
    <2>1. Standing(r)  BY <1>3 DEF Standing, Drawn, Status
    <2>2. Cardinality({}) = 0 /\ IsFiniteSet({})  BY FS_EmptySet
    <2>3. Extra(r) \in 0..1  BY DEF Extra
    <2> QED  BY <1>3, <2>1, <2>2, <2>3 DEF Counted
  <1> QED  BY <1>1, <1>4, <1>5, <1>6, <1>7 DEF Inv

LEMMA NextInv == Inv /\ [Next]_vars => Inv'
  <1> SUFFICES ASSUME Inv, [Next]_vars PROVE Inv'  OBVIOUS
  <1>1. Types' /\ Bounded'  BY TypesStep, BoundedStep
  <1>2. \A t \in Calls : Served(t)' /\ Current(t)'  BY ServedStep, CurrentStep
  <1>3. \A t, u \in Calls : Apart(t, u)'  BY ApartStep
  <1>4. \A r \in Requests : Standing(r)' /\ Counted(r)'  BY StandingStep, CountedStep
  <1> QED  BY <1>1, <1>2, <1>3, <1>4 DEF Inv

LEMMA AlwaysInv == Spec => []Inv
  BY InitInv, NextInv, PTL DEF Spec

\* Every variable has its type; a gallery never has more pictures than it may have,
\* however many drawings end at once (Repo.Add); and the calls that file requests at
\* once exceed the limit of waiting ones by less than there are calls (Submit).
THEOREM Typed == Spec => []TypeOK
  <1>1. Inv => TypeOK  BY DEF Inv, Types, Bounded, TypeOK, Written
  <1> QED  BY <1>1, AlwaysInv, PTL

\* A request is being drawn exactly while one call draws it, unless the statement that
\* was to say what became of the drawing failed: then nobody draws it, nor can anybody
\* before the next start.  And a request is drawn for once, or once more for each stop
\* of the engine (Approve, RecoverInterrupted).
THEOREM OneDrawingEach == Spec => []DrawnOnce
  <1>1. ASSUME Inv PROVE DrawnOnce
    <2>1. ASSUME NEW r \in Requests, up, Drawn(r) PROVE \E t \in Calls : Drawing(r) = {t}
      <3>1. PICK t \in Calls : t \in Drawing(r)  BY <1>1, <2>1 DEF Inv, Standing
      <3>2. \A u \in Drawing(r) : u = t  BY <1>1, <2>1, <3>1, Bounds DEF Inv, Apart, Drawing, DrawPcs, Requests
      <3> QED  BY <3>1, <3>2
    <2>2. ASSUME NEW r \in Requests, ~Drawn(r) PROVE Drawing(r) = {}
      BY <1>1, <2>2, Bounds DEF Inv, Served, Drawing, DrawPcs, Requests, Drawn, Status
    <2>3. ASSUME NEW r \in Requests PROVE Cardinality(drawn[r]) <= 1 + spent.crashes
      <3>1. /\ IsFiniteSet(drawn[r]) /\ Cardinality(drawn[r]) <= spent.crashes + Extra(r)
            /\ spent.crashes \in Nat /\ Cardinality(drawn[r]) \in Nat
        BY <1>1, FS_CardinalityType DEF Inv, Counted, Types, Counters
      <3>2. Extra(r) \in 0..1  BY DEF Extra
      <3> QED  BY <3>1, <3>2
    <2> QED  BY <2>1, <2>2, <2>3 DEF DrawnOnce, OneDrawing
  <1> QED  BY <1>1, AlwaysInv, PTL

\* What is done, rejected or cancelled stays so (the conditions of Approve's and
\* Reject's updates, and of RecoverInterrupted).
THEOREM DecidedForGood == Spec => Decided
  <1> DEFINE Keeps == \A r \in Requests : request[r].status \in Closed => request'[r] = request[r]
  <1>1. Inv /\ [Next]_vars => Keeps  BY DecidedStep DEF Status
  <1>2. Inv /\ [Next]_vars => [Keeps]_vars  BY <1>1
  <1> QED  BY <1>2, AlwaysInv, PTL DEF Spec, Decided

\* Placing a drawing in a scene takes nothing out of it (appendToScene's expected
\* version).
THEOREM PlacingTakesNothing == Spec => PlacingSpares
  <1> DEFINE Spares == scene'.shown # scene.shown /\ op' # op
                       => scene.typed = scene'.typed /\ scene.shown \subseteq scene'.shown
  <1>1. ASSUME Inv, [Next]_vars PROVE Spares
    <2> SUFFICES ASSUME scene'.shown # scene.shown, op' # op
                 PROVE  scene.typed = scene'.typed /\ scene.shown \subseteq scene'.shown
      OBVIOUS
    <2>1. PICK t \in Calls : PlaceAppend(t)
      BY <1>1 DEF Next, Writer, Begin, Serve, vars, List, SetRepresentative, SaveScene, DeleteScene, Crash,
         Start, Reject, SubmitCount, SubmitInsert, ApproveBegin, Claim, DrawBegin, Paint, Add, Fail, Leave,
         PlaceElsewhere, PlaceRead, Done, DeleteBegin, DeleteCheck, DeleteRow, CoverBegin, CoverSet
    <2>2. /\ op[t].pc = "append" /\ AsRead(t)
          /\ scene'.typed = op[t].typed /\ scene'.shown = op[t].shown \cup {op[t].pic}
      BY <1>1, <2>1, PlaceAppendDoes
    <2>3. op[t].typed = scene.typed /\ op[t].shown = scene.shown
      BY <1>1, <2>2 DEF Inv, Current, AsRead
    <2> QED  BY <2>2, <2>3
  <1>2. Inv /\ [Next]_vars => [Spares]_vars  BY <1>1
  <1> QED  BY <1>2, AlwaysInv, PTL DEF Spec, PlacingSpares
=============================================================================
