---------------------------- MODULE VaultProofs ----------------------------
(***************************************************************************)
(* What holds of Vault for every set of devices and words and every bound: *)
(* that no word is lost, that none is but moved (WordCopies), that no      *)
(* update is lost, and that a link tells the truth.                        *)
(*                                                                         *)
(* They need to know what an operation cut in the middle has in its hands, *)
(* so the invariant that is inductive says it of one device at a time:     *)
(* other devices change neither its rows nor its operation, and the vault, *)
(* the snapshots and the history variables only grow.                      *)
(***************************************************************************)
EXTENDS Vault, TLAPS


-----------------------------------------------------------------------------
(* Types, and the facts about the operators that the rest starts from.     *)

LEMMA IdleTyped == Idle \in Operation
  BY DEF Idle, Operation, Steps

LEMMA HistTyped ==
  ASSUME TypeOK, NEW r \in 1 .. HeadRev
  PROVE  hist[r] \in Revision /\ Body(r) \in SUBSET Words
<1>1. hist \in Seq(Revision) /\ HeadRev = Len(hist)
  BY DEF TypeOK, HeadRev
<1>2. hist[r] \in Revision
  BY <1>1
<1>3. r # 0
  OBVIOUS
<1> QED BY <1>2, <1>3 DEF Body, Revision

\* Body is a text also where there is no revision, number 0.
LEMMA BodyTyped ==
  ASSUME TypeOK, NEW r \in 0 .. HeadRev
  PROVE  Body(r) \in SUBSET Words
<1>1. CASE r = 0
  BY <1>1 DEF Body
<1>2. CASE r # 0
  <2>1. HeadRev \in Nat
    BY DEF TypeOK, HeadRev
  <2> QED BY <1>2, <2>1, HistTyped
<1> QED BY <1>1, <1>2

\* An operation that reads no further than the head may replace any other.
LEMMA OperationChanges ==
  ASSUME TypeOK, NEW d \in Devices, NEW o \in Operation,
         o.rev <= HeadRev, op' = [op EXCEPT ![d] = o]
  PROVE  /\ op' \in [Devices -> Operation]
         /\ \A e \in Devices : op'[e].rev <= HeadRev
  BY DEF TypeOK

LEMMA OperationEnds ==
  ASSUME TypeOK, NEW d \in Devices, op' = [op EXCEPT ![d] = Idle]
  PROVE  /\ op' \in [Devices -> Operation]
         /\ \A e \in Devices : op'[e].rev <= HeadRev
<1>1. Idle.rev = 0 /\ HeadRev \in Nat
  BY DEF Idle, HeadRev, TypeOK
<1>2. Idle.rev <= HeadRev
  BY <1>1
<1> QED BY <1>2, IdleTyped, OperationChanges, Zenon

LEMMA OperationTyped ==
  ASSUME TypeOK, NEW d \in Devices
  PROVE  /\ op[d] \in Operation
         /\ op[d].rev \in 0 .. HeadRev /\ op[d].words \in SUBSET Words
         /\ HeadRev \in Nat
  BY DEF TypeOK, Operation, HeadRev

LEMMA PutLinkTyped ==
  ASSUME TypeOK, NEW d \in Devices, NEW r \in Nat, NEW h \in SUBSET Words,
         PutLink(d, r, h)
  PROVE  /\ linked' \in SUBSET Devices
         /\ base' \in [Devices -> Nat]
         /\ last' \in [Devices -> SUBSET Words]
  BY DEF TypeOK, PutLink

\* The head only moves forward, and when it does a new revision is on top.
LEMMA CommitTyped ==
  ASSUME TypeOK, NEW d \in Devices, NEW alive \in BOOLEAN,
         NEW words \in SUBSET Words, Commit(d, alive, words)
  PROVE  /\ hist' \in Seq(Revision)
         /\ HeadRev' = HeadRev + 1
         /\ \A r \in 1 .. HeadRev : hist'[r] = hist[r]
         /\ hist'[HeadRev + 1] = [alive |-> alive, words |-> words, by |-> d]
<1>1. [alive |-> alive, words |-> words, by |-> d] \in Revision
  BY DEF Revision
<1>2. hist \in Seq(Revision)
  BY DEF TypeOK
<1> QED BY <1>1, <1>2 DEF Commit, HeadRev

LEMMA FetchedTyped ==
  ASSUME TypeOK, NEW auto \in BOOLEAN, NEW force \in BOOLEAN,
         NEW o \in Fetched(auto, force)
  PROVE  o \in Operation /\ o.rev = HeadRev
<1>1. PICK r \in 1 .. HeadRev :
        o = [Idle EXCEPT !.pc = "check", !.auto = auto, !.decided = force,
               !.words = Body(r), !.rev = HeadRev, !.atHead = (r = HeadRev)]
  BY DEF Fetched
<1>2. Body(r) \in SUBSET Words /\ HeadRev \in Nat
  BY HistTyped DEF TypeOK, HeadRev
<1> QED BY <1>1, <1>2 DEF Idle, Operation, Steps

LEMMA InitTyped == Init => TypeOK
  BY IdleTyped DEF Init, TypeOK, HeadRev, Idle

LEMMA WriterTyped ==
  ASSUME TypeOK, NEW d \in Devices, Writer(d)
  PROVE  TypeOK'
<1>1. ASSUME NEW w \in Words, Write(d, w) PROVE TypeOK'
  BY <1>1 DEF TypeOK, Write, vault, queue, shelf, HeadRev
<1>2. CASE QueueDeletion(d)
  BY <1>2 DEF TypeOK, QueueDeletion, vault, library, shelf, ghosts, HeadRev
<1>3. CASE DeleteRow(d)
  BY <1>3 DEF TypeOK, DeleteRow, vault, shelf, Unsent, HeadRev
<1>4. ASSUME NEW choice \in BOOLEAN, BeginPush(d, choice) PROVE TypeOK'
  <2>1. Exported(d, choice) \in Operation /\ Exported(d, choice).rev = 0
    BY DEF Exported, TypeOK, Idle, Operation, Steps
  <2>2. Exported(d, choice).rev <= HeadRev
    BY <2>1 DEF TypeOK, HeadRev
  <2>3. /\ op' \in [Devices -> Operation]
        /\ \A e \in Devices : op'[e].rev <= HeadRev
    BY <1>4, <2>1, <2>2, OperationChanges DEF BeginPush, Begin
  <2> QED BY <1>4, <2>3
        DEF TypeOK, BeginPush, vault, library, queue, shelf, ghosts, HeadRev
<1>5. ASSUME NEW choice \in BOOLEAN, BeginPull(d, choice) PROVE TypeOK'
  <2>1. PICK o \in Fetched(FALSE, choice) : op' = [op EXCEPT ![d] = o]
    BY <1>5 DEF BeginPull, Begin
  <2>2. o \in Operation /\ o.rev <= HeadRev
    <3>1. o \in Operation /\ o.rev = HeadRev
      BY <2>1, FetchedTyped
    <3>2. HeadRev \in Nat
      BY DEF TypeOK, HeadRev
    <3> QED BY <3>1, <3>2
  <2>3. /\ op' \in [Devices -> Operation]
        /\ \A e \in Devices : op'[e].rev <= HeadRev
    BY <2>1, <2>2, OperationChanges
  <2> QED BY <1>5, <2>3
        DEF TypeOK, BeginPull, vault, library, queue, shelf, ghosts, HeadRev
<1> QED BY <1>1, <1>2, <1>3, <1>4, <1>5 DEF Writer

LEMMA PushTyped ==
  ASSUME TypeOK, NEW d \in Devices, Push(d)
  PROVE  TypeOK'
<1>1. /\ op[d] \in Operation
      /\ op[d].rev \in 0 .. HeadRev /\ op[d].words \in SUBSET Words
      /\ HeadRev \in Nat
  BY OperationTyped
<1>2. CASE PushResolve(d)
  <2> DEFINE next(p) == [op[d] EXCEPT !.pc = p, !.rev = HeadRev]
  <2>1. \A p \in {"match", "commit"} :
          next(p) \in Operation /\ next(p).rev = HeadRev
    BY <1>1 DEF Operation, Steps
  <2>2. \/ op' = [op EXCEPT ![d] = Idle]
        \/ \E p \in {"match", "commit"} : op' = [op EXCEPT ![d] = next(p)]
    BY <1>2 DEF PushResolve
  <2> HIDE DEF next
  <2>3. /\ op' \in [Devices -> Operation]
        /\ \A e \in Devices : op'[e].rev <= HeadRev
    BY <1>1, <2>1, <2>2, OperationChanges, OperationEnds
  <2> QED BY <1>2, <2>3
        DEF TypeOK, PushResolve, vault, library, queue, shelf, ghosts, HeadRev
<1>3. CASE PushMatch(d)
  <2>1. /\ linked' \in SUBSET Devices
        /\ base' \in [Devices -> Nat]
        /\ last' \in [Devices -> SUBSET Words]
    BY <1>1, <1>3, PutLinkTyped DEF PushMatch, TypeOK
  <2>2. /\ op' \in [Devices -> Operation]
        /\ \A e \in Devices : op'[e].rev <= HeadRev
    BY <1>3, OperationEnds DEF PushMatch, Finish
  <2> QED BY <1>3, <2>1, <2>2
        DEF TypeOK, PushMatch, vault, queue, shelf, ghosts, HeadRev
<1>4. CASE PushCommit(d)
  <2> DEFINE new == HeadRev + 1
             recording == [op[d] EXCEPT !.pc = "record", !.rev = new]
  <2>1. recording \in Operation /\ recording.rev = new
    <3>1. new \in Nat
      BY <1>1
    <3> HIDE DEF new
    <3> QED BY <1>1, <3>1 DEF Operation, Steps
  <2>2. hist' \in Seq(Revision) /\ HeadRev' = HeadRev + 1
    BY <1>1, <1>4, CommitTyped DEF PushCommit
  <2>3. /\ op' \in [Devices -> Operation]
        /\ \A e \in Devices : op'[e].rev <= HeadRev + 1
    <3>1. op' = [op EXCEPT ![d] = recording] \/ op' = [op EXCEPT ![d] = Idle]
      BY <1>4 DEF PushCommit
    <3> HIDE DEF recording
    <3>2. CASE op' = [op EXCEPT ![d] = recording]
      <4>1. op \in [Devices -> Operation]
        BY DEF TypeOK
      <4>2. \A e \in Devices : op[e].rev <= HeadRev /\ op[e].rev \in Nat
        BY OperationTyped
      <4>3. ASSUME NEW e \in Devices PROVE op'[e].rev <= HeadRev + 1
        <5>1. CASE e = d
          BY <1>1, <2>1, <3>2, <4>1, <5>1
        <5>2. CASE e # d
          BY <1>1, <3>2, <4>1, <4>2, <5>2
        <5> QED BY <5>1, <5>2
      <4> QED BY <2>1, <3>2, <4>1, <4>3
    <3>3. CASE op' = [op EXCEPT ![d] = Idle]
      <4>1. /\ op' \in [Devices -> Operation]
            /\ \A e \in Devices : op'[e].rev <= HeadRev
        BY <3>3, OperationEnds
      <4>2. \A e \in Devices : op'[e].rev \in Nat
        BY <4>1 DEF Operation
      <4> QED BY <1>1, <4>1, <4>2
    <3> QED BY <3>1, <3>2, <3>3
  <2>4. Body(HeadRev) \in SUBSET Words
    BY <1>1, BodyTyped
  <2> QED BY <1>4, <2>2, <2>3, <2>4
        DEF TypeOK, PushCommit, library, queue, shelf, ghosts
<1>5. CASE PushRefused(d)
  BY <1>5, IdleTyped
     DEF TypeOK, PushRefused, vault, library, queue, shelf, ghosts, HeadRev, Idle
<1>6. CASE PushRecord(d)
  <2>1. /\ linked' \in SUBSET Devices
        /\ base' \in [Devices -> Nat]
        /\ last' \in [Devices -> SUBSET Words]
    BY <1>1, <1>6, PutLinkTyped DEF PushRecord, TypeOK
  <2>2. /\ op' \in [Devices -> Operation]
        /\ \A e \in Devices : op'[e].rev <= HeadRev
    BY <1>6, OperationEnds DEF PushRecord, Finish
  <2> QED BY <1>6, <2>1, <2>2
        DEF TypeOK, PushRecord, vault, queue, shelf, ghosts, HeadRev
<1> QED BY <1>2, <1>3, <1>4, <1>5, <1>6 DEF Push

LEMMA PullTyped ==
  ASSUME TypeOK, NEW d \in Devices, Pull(d)
  PROVE  TypeOK'
<1>1. /\ op[d] \in Operation
      /\ op[d].rev \in 0 .. HeadRev /\ op[d].words \in SUBSET Words
      /\ HeadRev \in Nat
  BY OperationTyped
<1>2. CASE PullOpen(d)
  <2>1. \/ \E o \in Fetched(TRUE, FALSE) : op' = [op EXCEPT ![d] = o]
        \/ op' = [op EXCEPT ![d] = Idle]
    BY <1>2 DEF PullOpen
  <2>2. /\ op' \in [Devices -> Operation]
        /\ \A e \in Devices : op'[e].rev <= HeadRev
    <3>1. CASE op' = [op EXCEPT ![d] = Idle]
      BY <3>1, OperationEnds
    <3>2. ASSUME NEW o \in Fetched(TRUE, FALSE), op' = [op EXCEPT ![d] = o]
          PROVE  /\ op' \in [Devices -> Operation]
                 /\ \A e \in Devices : op'[e].rev <= HeadRev
      <4>1. o \in Operation /\ o.rev = HeadRev
        BY FetchedTyped
      <4>2. o.rev <= HeadRev
        BY <1>1, <4>1
      <4> QED BY <3>2, <4>1, <4>2, OperationChanges
    <3> QED BY <2>1, <3>1, <3>2
  <2> QED BY <1>2, <2>2
        DEF TypeOK, PullOpen, vault, library, queue, shelf, ghosts, HeadRev
<1>3. CASE PullCheck(d)
  <2> DEFINE next(p) == [op[d] EXCEPT !.pc = p]
             merging == [op[d] EXCEPT !.pc = "snapshot", !.merge = TRUE]
  <2>1. \/ op' = [op EXCEPT ![d] = Idle]
        \/ \E p \in {"apply", "snapshot"} : op' = [op EXCEPT ![d] = next(p)]
        \/ op' = [op EXCEPT ![d] = merging]
    BY <1>3 DEF PullCheck
  <2>2. \A p \in {"apply", "snapshot"} :
          next(p) \in Operation /\ next(p).rev = op[d].rev
    BY <1>1 DEF Operation, Steps
  <2>3. merging \in Operation /\ merging.rev = op[d].rev
    BY <1>1 DEF Operation, Steps
  <2> HIDE DEF next, merging
  <2>4. /\ op' \in [Devices -> Operation]
        /\ \A e \in Devices : op'[e].rev <= HeadRev
    BY <1>1, <2>1, <2>2, <2>3, OperationChanges, OperationEnds
  <2> QED BY <1>3, <2>4
        DEF TypeOK, PullCheck, vault, library, queue, shelf, ghosts, HeadRev
<1>4. CASE PullSnapshot(d)
  <2> DEFINE next == [op[d] EXCEPT !.pc = "apply"]
  <2>1. next \in Operation /\ next.rev = op[d].rev
    BY <1>1 DEF Operation, Steps
  <2>2. op' = [op EXCEPT ![d] = next]
    BY <1>4 DEF PullSnapshot, Goto
  <2> HIDE DEF next
  <2>3. /\ op' \in [Devices -> Operation]
        /\ \A e \in Devices : op'[e].rev <= HeadRev
    <3>1. next.rev <= HeadRev
      BY <1>1, <2>1
    <3> QED BY <2>1, <2>2, <3>1, OperationChanges
  <2>4. kept' \in [Devices -> SUBSET Words] /\ today' \in [Devices -> BOOLEAN]
    BY <1>4 DEF PullSnapshot, TypeOK, shelf
  <2> QED BY <1>4, <2>3, <2>4
        DEF TypeOK, PullSnapshot, vault, library, queue, ghosts, HeadRev
<1>5. CASE PullApply(d)
  <2> DEFINE new == IF op[d].merge
                      THEN op[d].words \cup (text[d] \cap Conversation)
                      ELSE op[d].words
  <2>1. new \in SUBSET Words
    BY <1>1, ConversationAssumption
  <2> DEFINE next == [op[d] EXCEPT !.pc = "rehash"]
  <2>2. next \in Operation /\ next.rev = op[d].rev
    BY <1>1 DEF Operation, Steps
  <2>3. op' = [op EXCEPT ![d] = Idle] \/ op' = [op EXCEPT ![d] = next]
    BY <1>5 DEF PullApply
  <2>4. /\ op' \in [Devices -> Operation]
        /\ \A e \in Devices : op'[e].rev <= HeadRev
    <3> HIDE DEF next
    <3> QED BY <1>1, <2>2, <2>3, OperationChanges, OperationEnds
  <2>5. text' \in [Devices -> SUBSET Words] /\ held' \in SUBSET Devices
    BY <1>5, <2>1 DEF PullApply, TypeOK
  <2>6. \A r \in op[d].rev .. HeadRev : Body(r) \in SUBSET Words
    BY <1>1, BodyTyped
  <2>7. Body(op[d].rev) \in SUBSET Words
    BY <1>1, BodyTyped
  <2>8. discarded' \in SUBSET Words
    BY <1>5, <2>7 DEF PullApply, TypeOK
  <2>9. PICK h \in SUBSET Words : PutLink(d, op[d].rev, h)
    BY <1>1, <1>5, <2>6 DEF PullApply
  <2>10. /\ linked' \in SUBSET Devices
         /\ base' \in [Devices -> Nat]
         /\ last' \in [Devices -> SUBSET Words]
    BY <1>1, <2>9, PutLinkTyped
  <2> QED BY <1>5, <2>3, <2>4, <2>5, <2>8, <2>10
        DEF TypeOK, PullApply, queue, shelf, ghosts, HeadRev
<1>6. CASE PullRehash(d)
  <2>1. text[d] \in SUBSET Words
    BY DEF TypeOK
  <2>2. /\ linked' \in SUBSET Devices
        /\ base' \in [Devices -> Nat]
        /\ last' \in [Devices -> SUBSET Words]
    BY <1>1, <1>6, <2>1, PutLinkTyped DEF PullRehash, TypeOK
  <2>3. /\ op' \in [Devices -> Operation]
        /\ \A e \in Devices : op'[e].rev <= HeadRev
    BY <1>6, OperationEnds DEF PullRehash, Finish
  <2> QED BY <1>6, <2>2, <2>3
        DEF TypeOK, PullRehash, vault, queue, shelf, ghosts, HeadRev
<1> QED BY <1>2, <1>3, <1>4, <1>5, <1>6 DEF Pull

LEMMA MarkerTyped ==
  ASSUME TypeOK, NEW d \in Devices, Marker(d)
  PROVE  TypeOK'
<1>1. op[d] \in Operation /\ op \in [Devices -> Operation] /\ HeadRev \in Nat
  BY DEF TypeOK, HeadRev
<1> DEFINE scanning == [op[d] EXCEPT !.pc = "scan"]
<1>2. scanning \in Operation /\ scanning.rev = op[d].rev
  BY <1>1 DEF Operation, Steps
<1> HIDE DEF scanning
<1>3. op[d].rev <= HeadRev /\ op[d].rev \in Nat
  BY OperationTyped
<1>4. CASE BeginMarker(d)
  <2> DEFINE o == [Idle EXCEPT !.pc = "marker", !.auto = TRUE, !.rev = HeadRev]
  <2>1. o \in Operation /\ o.rev = HeadRev
    BY <1>1 DEF Idle, Operation, Steps
  <2>2. op' = [op EXCEPT ![d] = o]
    BY <1>4 DEF BeginMarker, Begin
  <2> HIDE DEF o
  <2>3. o.rev <= HeadRev
    BY <1>1, <2>1
  <2>4. /\ op' \in [Devices -> Operation]
        /\ \A e \in Devices : op'[e].rev <= HeadRev
    BY <2>1, <2>2, <2>3, OperationChanges
  <2> QED BY <1>4, <2>4
        DEF TypeOK, BeginMarker, vault, library, queue, shelf, ghosts, HeadRev
<1>5. CASE MarkerCommit(d)
  <2>1. hist' \in Seq(Revision) /\ HeadRev' = HeadRev + 1
    <3>1. {} \in SUBSET Words
      OBVIOUS
    <3> QED BY <1>5, <3>1, CommitTyped DEF MarkerCommit
  <2>2. op' = [op EXCEPT ![d] = scanning] \/ op' = [op EXCEPT ![d] = Idle]
    BY <1>5 DEF MarkerCommit, scanning
  <2>3. /\ op' \in [Devices -> Operation]
        /\ \A e \in Devices : op'[e].rev <= HeadRev
    BY <1>2, <1>3, <2>2, OperationChanges, OperationEnds
  <2>4. \A e \in Devices : op'[e].rev <= HeadRev + 1
    <3>1. \A e \in Devices : op'[e].rev \in Nat
      BY <2>3 DEF Operation
    <3> QED BY <1>1, <2>3, <3>1
  <2>5. Body(HeadRev) \in SUBSET Words
    BY <1>1, BodyTyped
  <2> QED BY <1>5, <2>1, <2>3, <2>4, <2>5
        DEF TypeOK, MarkerCommit, library, shelf, ghosts
<1>6. CASE MarkerRefused(d)
  <2>1. op' = [op EXCEPT ![d] = scanning]
    BY <1>6 DEF MarkerRefused, scanning
  <2>2. /\ op' \in [Devices -> Operation]
        /\ \A e \in Devices : op'[e].rev <= HeadRev
    BY <1>2, <1>3, <2>1, OperationChanges
  <2> QED BY <1>6, <2>2
        DEF TypeOK, MarkerRefused, vault, library, queue, shelf, ghosts, HeadRev
<1> QED BY <1>4, <1>5, <1>6 DEF Marker

LEMMA SyncTyped ==
  ASSUME TypeOK, NEW d \in Devices, Sync(d)
  PROVE  TypeOK'
<1>1. op[d] \in Operation /\ op \in [Devices -> Operation] /\ HeadRev \in Nat
  BY DEF TypeOK, HeadRev
<1>2. text[d] \in SUBSET Words /\ last[d] \in SUBSET Words
  BY DEF TypeOK
<1>3. op[d].rev \in Nat
  BY <1>1 DEF Operation
<1>4. CASE Scan(d)
  <2> DEFINE decide == [Idle EXCEPT !.pc = "decide", !.auto = TRUE,
                                    !.rev = HeadRev]
             open == [Idle EXCEPT !.pc = "open", !.auto = TRUE]
  <2>1. \/ op' = [op EXCEPT ![d] = Idle]
        \/ op' = [op EXCEPT ![d] = decide]
        \/ op' = [op EXCEPT ![d] = open]
    BY <1>4 DEF Scan
  <2>2. /\ decide \in Operation /\ decide.rev = HeadRev
        /\ open \in Operation /\ open.rev = 0
    BY <1>1 DEF Idle, Operation, Steps
  <2> HIDE DEF decide, open
  <2>3. decide.rev <= HeadRev /\ open.rev <= HeadRev
    BY <1>1, <2>2
  <2>4. /\ op' \in [Devices -> Operation]
        /\ \A e \in Devices : op'[e].rev <= HeadRev
    BY <2>1, <2>2, <2>3, OperationChanges, OperationEnds
  <2> QED BY <1>4, <2>4
        DEF TypeOK, Scan, vault, library, queue, shelf, ghosts, HeadRev
<1>5. CASE DecidePush(d)
  <2> DEFINE o == Exported(d, FALSE)
  <2>1. o \in Operation /\ o.rev = 0
    BY <1>2 DEF Exported, Idle, Operation, Steps
  <2>2. op' = [op EXCEPT ![d] = o]
    BY <1>5 DEF DecidePush
  <2> HIDE DEF o
  <2>4. o.rev <= HeadRev
    BY <1>1, <2>1
  <2>3. /\ op' \in [Devices -> Operation]
        /\ \A e \in Devices : op'[e].rev <= HeadRev
    BY <2>1, <2>2, <2>4, OperationChanges
  <2> QED BY <1>5, <2>3
        DEF TypeOK, DecidePush, vault, library, queue, shelf, ghosts, HeadRev
<1>6. CASE DecidePull(d) \/ DecideBack(d)
  <2> DEFINE open == [op[d] EXCEPT !.pc = "open", !.rev = 0]
  <2>1. open \in Operation /\ open.rev = 0
    BY <1>1 DEF Operation, Steps
  <2>2. op' = [op EXCEPT ![d] = open]
    BY <1>6 DEF DecidePull, DecideBack
  <2> HIDE DEF open
  <2>3. open.rev <= HeadRev
    BY <1>1, <2>1
  <2>4. /\ op' \in [Devices -> Operation]
        /\ \A e \in Devices : op'[e].rev <= HeadRev
    BY <2>1, <2>2, <2>3, OperationChanges
  <2> QED BY <1>6, <2>4
        DEF TypeOK, DecidePull, DecideBack, vault, library, queue, shelf, ghosts,
            HeadRev
<1>7. ASSUME Finish(d, "decide")
      PROVE  /\ op' \in [Devices -> Operation]
             /\ \A e \in Devices : op'[e].rev <= HeadRev
  BY <1>7, OperationEnds DEF Finish
<1>8. ASSUME PutLink(d, op[d].rev, text[d])
      PROVE  /\ linked' \in SUBSET Devices
             /\ base' \in [Devices -> Nat]
             /\ last' \in [Devices -> SUBSET Words]
  BY <1>2, <1>3, <1>8, PutLinkTyped
<1>9. CASE DecideMatch(d)
  BY <1>7, <1>8, <1>9
     DEF TypeOK, DecideMatch, vault, queue, shelf, ghosts, HeadRev
<1>10. CASE DecideArchive(d)
  BY <1>2, <1>7, <1>8, <1>10
     DEF TypeOK, DecideArchive, Unsent, vault, queue, shelf, ghosts, HeadRev
<1>11. CASE DecideNothing(d)
  BY <1>7, <1>11
     DEF TypeOK, DecideNothing, vault, library, queue, shelf, ghosts, HeadRev
<1> QED BY <1>4, <1>5, <1>6, <1>9, <1>10, <1>11 DEF Sync, Settle

LEMMA OthersTyped ==
  ASSUME TypeOK, NEW d \in Devices,
         NextDay(d) \/ DeleteFails(d) \/ Abort(d)
  PROVE  TypeOK'
<1>1. CASE NextDay(d)
  BY <1>1 DEF TypeOK, NextDay, vault, library, queue, ghosts, HeadRev
<1>2. CASE DeleteFails(d)
  BY <1>2 DEF TypeOK, DeleteFails, vault, library, shelf, ghosts, HeadRev
<1>3. CASE Abort(d)
  <2>1. /\ op' \in [Devices -> Operation]
        /\ \A e \in Devices : op'[e].rev <= HeadRev
    BY <1>3, OperationEnds DEF Abort
  <2> QED BY <1>3, <2>1
        DEF TypeOK, Abort, vault, library, queue, shelf, ghosts, HeadRev
<1> QED BY <1>1, <1>2, <1>3

LEMMA NextTyped == TypeOK /\ [Next]_vars => TypeOK'
<1> SUFFICES ASSUME TypeOK, [Next]_vars PROVE TypeOK'
  OBVIOUS
<1>1. CASE UNCHANGED vars
  BY <1>1
     DEF TypeOK, vars, vault, library, queue, shelf, ghosts, HeadRev
<1>2. ASSUME NEW d \in Devices, Step(d) PROVE TypeOK'
  BY <1>2, WriterTyped, PushTyped, PullTyped, MarkerTyped, SyncTyped,
     OthersTyped DEF Step
<1> QED BY <1>1, <1>2 DEF Next

\* Every variable keeps its type, and no operation reads past the head.
THEOREM Typed == Spec => []TypeOK
  BY InitTyped, NextTyped, PTL DEF Spec

-----------------------------------------------------------------------------
(* What holds of each device.                                              *)

\* The words of a work that the pull under way takes out of it.
Doomed(d) == IF op[d].merge THEN text[d] \ Conversation ELSE text[d]

Pushing(d) == op[d].pc \in {"resolve", "match", "commit", "record"}
Pulling(d) == op[d].pc \in {"check", "snapshot", "apply", "rehash"}

\* The library's rows: a link belongs to a work, names a revision, and that
\* revision's words are in the work unless some answer discarded them.
Rows(d) ==
  /\ d \notin held => text[d] = {} /\ d \notin linked
  /\ d \in linked =>
       /\ base[d] \in 1 .. HeadRev
       /\ last[d] \subseteq Safe
       /\ Body(base[d]) \ text[d] \subseteq discarded

\* What an operation carries between its steps.
Carried(d) ==
  /\ op[d].decided => ~op[d].auto
  /\ Pulling(d) => /\ op[d].rev >= 1
                   /\ op[d].words \subseteq Stored
                   /\ op[d].atHead => op[d].words = Body(op[d].rev)
  /\ Pushing(d) /\ d \in held => op[d].words \subseteq text[d]
  /\ Pushing(d) => op[d].words \subseteq text[d] \cup Safe

\* A push that may commit undoes nothing it has not seen.
PushSound(d) ==
  /\ op[d].pc = "resolve" /\ d \in linked =>
       Body(base[d]) \ op[d].words \subseteq discarded
  /\ op[d].pc = "match" => op[d].rev >= 1
  /\ op[d].pc = "commit" /\ ~op[d].decided =>
       Body(op[d].rev) \ op[d].words \subseteq discarded
  /\ op[d].pc = "record" => op[d].rev >= 1 /\ op[d].words = Body(op[d].rev)

\* A pull that may replace the text takes nothing that is only there.
PullSound(d) ==
  /\ /\ op[d].pc = "apply" \/ (op[d].pc = "snapshot" /\ op[d].auto /\ today[d])
     /\ d \in held
     => Doomed(d) \subseteq Safe
  /\ op[d].pc = "rehash" => op[d].atHead
  /\ op[d].pc = "rehash" /\ d \in held =>
       /\ d \in linked /\ base[d] = op[d].rev
       /\ ~op[d].merge => text[d] \subseteq Safe

DeviceInv(d) == Rows(d) /\ Carried(d) /\ PushSound(d) /\ PullSound(d)

\* A marker holds no text.
MarkersEmpty == \A r \in 1 .. HeadRev : ~Alive(r) => Body(r) = {}

Inv ==
  /\ TypeOK
  /\ MarkersEmpty
  /\ NoWordLost
  /\ NoLostUpdate
  /\ \A d \in Devices : DeviceInv(d)

-----------------------------------------------------------------------------
(* What grows, and what a step leaves alone *)

\* A revision is never changed, a kept word never dropped.
Grows ==
  /\ HeadRev \in Nat /\ HeadRev' \in Nat /\ HeadRev <= HeadRev'
  /\ \A r \in 1 .. HeadRev : hist'[r] = hist[r]
  /\ discarded \subseteq discarded'
  /\ Stored \subseteq Stored'
  /\ Safe \subseteq Safe'

\* A step by one device seen from another.
Untouched(e) ==
  /\ op'[e] = op[e] /\ text'[e] = text[e]
  /\ base'[e] = base[e] /\ last'[e] = last[e]
  /\ (e \in held' <=> e \in held) /\ (e \in linked' <=> e \in linked)
  /\ today'[e] => today[e]

LEMMA SameHistGrows ==
  ASSUME TypeOK, hist' = hist, discarded \subseteq discarded',
         forfeited \subseteq forfeited',
         \A e \in Devices : kept[e] \subseteq kept'[e]
  PROVE  Grows
  BY DEF TypeOK, Grows, Safe, Stored, Shelved, HeadRev, Body

LEMMA CommitGrows ==
  ASSUME TypeOK, NEW d \in Devices, NEW alive \in BOOLEAN,
         NEW words \in SUBSET Words, Commit(d, alive, words),
         discarded \subseteq discarded', UNCHANGED <<shelf, forfeited>>
  PROVE  Grows
<1>1. HeadRev \in Nat
  BY DEF TypeOK, HeadRev
<1>2. /\ HeadRev' = HeadRev + 1
      /\ \A r \in 1 .. HeadRev : hist'[r] = hist[r]
  BY CommitTyped
<1>3. \A r \in 1 .. HeadRev : Body(r)' = Body(r)
  BY <1>1, <1>2 DEF Body
<1>4. Stored \subseteq Stored'
  BY <1>1, <1>2, <1>3 DEF Stored
<1>5. Shelved' = Shelved
  BY DEF Shelved, shelf
<1> QED BY <1>1, <1>2, <1>4, <1>5 DEF Grows, Safe

LEMMA StepGrows ==
  ASSUME TypeOK, NEW d \in Devices, Step(d)
  PROVE  Grows
<1>1. ASSUME hist' = hist, discarded \subseteq discarded',
             forfeited \subseteq forfeited', UNCHANGED shelf
      PROVE  Grows
  BY <1>1, SameHistGrows DEF shelf
<1>2. CASE Writer(d)
  BY <1>1, <1>2 DEF Writer, Write, QueueDeletion, DeleteRow, BeginPush,
     BeginPull, vault, ghosts
<1>3. CASE Push(d)
  <2>1. CASE PushCommit(d)
    <3>1. op[d].words \in SUBSET Words
      BY OperationTyped
    <3>2. discarded \subseteq discarded'
      BY <2>1 DEF PushCommit
    <3> QED BY <2>1, <3>1, <3>2, CommitGrows DEF PushCommit, ghosts
  <2> QED BY <1>1, <1>3, <2>1 DEF Push, PushResolve, PushMatch, PushRefused,
          PushRecord, vault, ghosts
<1>4. CASE Pull(d)
  <2>1. CASE PullSnapshot(d)
    <3>1. \A e \in Devices : kept[e] \subseteq kept'[e]
      BY <2>1 DEF PullSnapshot, shelf, TypeOK
    <3> QED BY <2>1, <3>1, SameHistGrows DEF PullSnapshot, vault, ghosts
  <2> QED BY <1>1, <1>4, <2>1 DEF Pull, PullOpen, PullCheck, PullApply,
          PullRehash, vault, ghosts
<1>5. CASE Marker(d)
  <2>1. CASE MarkerCommit(d)
    <3>1. {} \in SUBSET Words /\ discarded \subseteq discarded'
      BY <2>1 DEF MarkerCommit
    <3> QED BY <2>1, <3>1, CommitGrows DEF MarkerCommit, ghosts
  <2> QED BY <1>1, <1>5, <2>1 DEF Marker, BeginMarker, MarkerRefused,
          vault, ghosts
<1>6. CASE Sync(d)
  BY <1>1, <1>6 DEF Sync, Settle, Scan, DecidePush, DecidePull, DecideMatch,
     DecideArchive, DecideBack, DecideNothing, vault, ghosts
<1>7. CASE NextDay(d)
  BY <1>7, SameHistGrows DEF NextDay, vault, ghosts
<1>8. CASE DeleteFails(d) \/ Abort(d)
  BY <1>1, <1>8 DEF DeleteFails, Abort, vault, ghosts
<1> QED BY <1>2, <1>3, <1>4, <1>5, <1>6, <1>7, <1>8 DEF Step

LEMMA StepLeavesOthers ==
  ASSUME TypeOK, NEW d \in Devices, Step(d), NEW e \in Devices, e # d
  PROVE  Untouched(e)
<1> USE DEF TypeOK, Untouched, vault, library, queue, shelf, ghosts
<1>1. CASE Writer(d)
  BY <1>1 DEF Writer, Write, QueueDeletion, DeleteRow, BeginPush, BeginPull,
     Begin
<1>2. CASE Push(d)
  <2>1. CASE PushResolve(d) \/ PushRefused(d)
    BY <2>1 DEF PushResolve, PushRefused
  <2>2. CASE PushMatch(d) \/ PushRecord(d)
    BY <2>2 DEF PushMatch, PushRecord, Finish, PutLink
  <2>3. CASE PushCommit(d)
    BY <2>3 DEF PushCommit
  <2> QED BY <1>2, <2>1, <2>2, <2>3 DEF Push
<1>3. CASE Pull(d)
  <2>1. CASE PullOpen(d)
    BY <2>1 DEF PullOpen
  <2>2. CASE PullCheck(d)
    BY <2>2 DEF PullCheck
  <2>3. CASE PullSnapshot(d)
    BY <2>3 DEF PullSnapshot, Goto
  <2>4. CASE PullApply(d)
    BY <2>4 DEF PullApply, PutLink
  <2>5. CASE PullRehash(d)
    BY <2>5 DEF PullRehash, Finish, PutLink
  <2> QED BY <1>3, <2>1, <2>2, <2>3, <2>4, <2>5 DEF Pull
<1>5. CASE Marker(d)
  BY <1>5 DEF Marker, BeginMarker, MarkerCommit, MarkerRefused, Begin
<1>6. CASE Sync(d)
  BY <1>6 DEF Sync, Settle, Scan, DecidePush, DecidePull, DecideMatch,
     DecideArchive, DecideBack, DecideNothing, Finish, PutLink
<1>7. CASE NextDay(d) \/ DeleteFails(d) \/ Abort(d)
  BY <1>7 DEF NextDay, DeleteFails, Abort
<1> QED BY <1>1, <1>2, <1>3, <1>5, <1>6, <1>7 DEF Step

LEMMA UntouchedKeeps ==
  ASSUME TypeOK, Grows, NEW e \in Devices, Untouched(e), DeviceInv(e)
  PROVE  DeviceInv(e)'
<1>1. /\ HeadRev \in Nat /\ HeadRev' \in Nat /\ HeadRev <= HeadRev'
      /\ op[e].rev \in Nat /\ op[e].rev <= HeadRev
  BY OperationTyped DEF Grows
<1>2. Body(op[e].rev)' = Body(op[e].rev)
  BY <1>1 DEF Grows, Untouched, Body
<1>3. e \in linked =>
        base[e] \in 1 .. HeadRev /\ Body(base[e])' = Body(base[e])
  BY <1>1 DEF DeviceInv, Rows, Grows, Untouched, Body
<1>4. Rows(e)'
  BY <1>1, <1>3 DEF DeviceInv, Rows, Grows, Untouched
<1>5. Carried(e)'
  BY <1>2 DEF DeviceInv, Carried, Pulling, Pushing, Grows, Untouched
<1>6. PushSound(e)'
  BY <1>2, <1>3 DEF DeviceInv, PushSound, Grows, Untouched
<1>7. PullSound(e)'
  BY DEF DeviceInv, PullSound, Doomed, Grows, Untouched
<1> QED BY <1>4, <1>5, <1>6, <1>7 DEF DeviceInv

-----------------------------------------------------------------------------
(* The device that takes the step *)

LEMMA IdleFields == Idle.pc = "idle" /\ Idle.rev = 0 /\ Idle.decided = FALSE
  BY DEF Idle

\* Between operations only the rows have something to say.
LEMMA IdleSound ==
  ASSUME NEW d \in Devices, Rows(d)', op'[d] = Idle
  PROVE  DeviceInv(d)'
  BY IdleFields
     DEF DeviceInv, Carried, PushSound, PullSound, Pushing, Pulling

\* Rows a step leaves alone stay sound.
LEMMA SameRows ==
  ASSUME TypeOK, Grows, NEW d \in Devices, Rows(d),
         UNCHANGED <<held, text, linked, base, last>>
  PROVE  Rows(d)'
<1>1. d \in linked =>
        base[d] \in 1 .. HeadRev /\ Body(base[d])' = Body(base[d])
  BY DEF Rows, Grows, Body
<1> QED BY <1>1 DEF Rows, Grows

\* A recorded link names a revision whose words are here or discarded.
LEMMA LinkSound ==
  ASSUME NEW d \in Devices, NEW r, NEW h, TypeOK, PutLink(d, r, h),
         d \in held', r \in 1 .. HeadRev', h \subseteq Safe',
         Body(r)' \ text'[d] \subseteq discarded'
  PROVE  Rows(d)'
<1>1. base'[d] = r /\ last'[d] = h
  BY DEF PutLink, TypeOK
<1> QED BY <1>1 DEF Rows

LEMMA StoredHolds ==
  ASSUME TypeOK, NEW r \in 0 .. HeadRev
  PROVE  Body(r) \subseteq Stored /\ Body(r) \subseteq Safe
<1>1. Body(r) \in SUBSET Words
  BY BodyTyped
<1>2. CASE r = 0
  BY <1>2 DEF Body
<1>3. CASE r # 0
  <2>1. HeadRev \in Nat
    BY DEF TypeOK, HeadRev
  <2>2. r \in 1 .. HeadRev
    BY <1>3, <2>1
  <2> QED BY <1>1, <2>2 DEF Stored, Safe
<1> QED BY <1>2, <1>3

LEMMA WriteKeeps ==
  ASSUME TypeOK, Grows, NEW d \in Devices, DeviceInv(d), NEW w \in Words,
         Write(d, w)
  PROVE  DeviceInv(d)'
<1>1. /\ text'[d] = text[d] \cup {w} /\ op' = op /\ d \in held
      /\ UNCHANGED <<hist, discarded, held, linked, base, last, today>>
  BY DEF Write, TypeOK, vault, shelf
<1>2. HeadRev' = HeadRev /\ \A r : Body(r)' = Body(r)
  BY <1>1 DEF HeadRev, Body
<1>3. Stored' = Stored /\ Safe \subseteq Safe'
  BY <1>1, <1>2 DEF Stored, Grows
<1>4. Exposed(d) => w \in Safe'
  BY DEF Write, Safe
<1>5. Rows(d)'
  BY <1>1, <1>2, <1>3 DEF DeviceInv, Rows
<1>6. Carried(d)'
  BY <1>1, <1>2, <1>3 DEF DeviceInv, Carried, Pulling, Pushing
<1>7. PushSound(d)'
  BY <1>1, <1>2 DEF DeviceInv, PushSound
<1>8. PullSound(d)'
  BY <1>1, <1>3, <1>4 DEF DeviceInv, PullSound, Doomed, Exposed
<1> QED BY <1>5, <1>6, <1>7, <1>8 DEF DeviceInv

LEMMA DeleteRowKeeps ==
  ASSUME TypeOK, Grows, NEW d \in Devices, DeviceInv(d), DeleteRow(d)
  PROVE  DeviceInv(d)'
<1>1. /\ text'[d] = {} /\ d \notin held' /\ d \notin linked'
      /\ op' = op /\ hist' = hist
  BY DEF DeleteRow, TypeOK, vault
<1>2. HeadRev' = HeadRev /\ \A r : Body(r)' = Body(r)
  BY <1>1 DEF HeadRev, Body
<1>3. discarded' = discarded
  BY DEF DeleteRow, vault
<1>4. Pushing(d) => op[d].words \subseteq Safe'
  <2>1. text[d] \subseteq Safe'
    <3>1. forfeited' = forfeited \cup Unsent(d)
      BY DEF DeleteRow
    <3>2. d \in linked => last[d] \subseteq Safe'
      BY DEF DeviceInv, Rows, Grows
    <3> QED BY <3>1, <3>2 DEF Unsent, Safe
  <2>2. Pushing(d) => op[d].words \subseteq text[d] \cup Safe
    BY DEF DeviceInv, Carried
  <2> QED BY <2>1, <2>2 DEF Grows
<1>5. Carried(d)'
  BY <1>1, <1>2, <1>4 DEF DeviceInv, Carried, Pulling, Pushing, Grows
<1> QED BY <1>1, <1>2, <1>3, <1>5
        DEF DeviceInv, Rows, PushSound, PullSound, Grows

\* A push starts out with what the work holds.
LEMMA ExportSound ==
  ASSUME TypeOK, Grows, NEW d \in Devices, DeviceInv(d),
         NEW overwrite \in BOOLEAN,
         op' = [op EXCEPT ![d] = Exported(d, overwrite)],
         UNCHANGED <<hist, discarded, held, text, linked, base, last>>
  PROVE  DeviceInv(d)'
<1> DEFINE o == Exported(d, overwrite)
<1>1. /\ o.pc = "resolve" /\ o.words = text[d] /\ o.auto = FALSE
  BY DEF Exported, Idle
<1>2. op'[d] = o
  BY DEF TypeOK
<1>3. HeadRev' = HeadRev /\ \A r : Body(r)' = Body(r)
  BY DEF HeadRev, Body
<1>4. Rows(d)'
  BY SameRows DEF DeviceInv
<1> HIDE DEF o
<1>5. Carried(d)' /\ PullSound(d)'
  BY <1>1, <1>2 DEF Carried, PullSound, Pulling, Pushing
<1>6. PushSound(d)'
  BY <1>1, <1>2, <1>3 DEF PushSound, DeviceInv, Rows
<1> QED BY <1>4, <1>5, <1>6 DEF DeviceInv

\* A pull starts out with a revision of the vault.
LEMMA FetchSound ==
  ASSUME TypeOK, Grows, NEW d \in Devices, DeviceInv(d),
         NEW auto \in BOOLEAN, NEW force \in BOOLEAN, ~(auto /\ force),
         NEW o \in Fetched(auto, force), op' = [op EXCEPT ![d] = o],
         UNCHANGED <<hist, discarded, held, text, linked, base, last>>
  PROVE  DeviceInv(d)'
<1>1. PICK r \in 1 .. HeadRev :
        o = [Idle EXCEPT !.pc = "check", !.auto = auto, !.decided = force,
               !.words = Body(r), !.rev = HeadRev, !.atHead = (r = HeadRev)]
  BY DEF Fetched
<1>2. /\ o.pc = "check" /\ o.auto = auto /\ o.decided = force
      /\ o.words = Body(r) /\ o.rev = HeadRev /\ o.atHead = (r = HeadRev)
  BY <1>1 DEF Idle
<1>3. op'[d] = o
  BY DEF TypeOK
<1>4. HeadRev \in Nat /\ HeadRev >= 1 /\ Body(r) \subseteq Stored
  <2>1. HeadRev \in Nat
    BY DEF TypeOK, HeadRev
  <2> QED BY <2>1, StoredHolds
<1>5. HeadRev' = HeadRev /\ (\A i : Body(i)' = Body(i)) /\ Stored' = Stored
  BY DEF HeadRev, Body, Stored
<1>6. Rows(d)'
  BY SameRows DEF DeviceInv
<1>7. Carried(d)'
  BY <1>2, <1>3, <1>4, <1>5 DEF Carried, Pulling, Pushing
<1>8. PushSound(d)' /\ PullSound(d)'
  BY <1>2, <1>3 DEF PushSound, PullSound
<1> QED BY <1>6, <1>7, <1>8 DEF DeviceInv

LEMMA WriterKeeps ==
  ASSUME TypeOK, Grows, NEW d \in Devices, DeviceInv(d), Writer(d)
  PROVE  DeviceInv(d)'
<1>1. ASSUME NEW w \in Words, Write(d, w) PROVE DeviceInv(d)'
  BY <1>1, WriteKeeps
<1>2. CASE QueueDeletion(d)
  BY <1>2, UntouchedKeeps
     DEF QueueDeletion, Untouched, vault, library, shelf
<1>3. CASE DeleteRow(d)
  BY <1>3, DeleteRowKeeps
<1>4. ASSUME NEW choice \in BOOLEAN, BeginPush(d, choice)
      PROVE  DeviceInv(d)'
  BY <1>4, ExportSound DEF BeginPush, Begin, vault, library
<1>5. ASSUME NEW choice \in BOOLEAN, BeginPull(d, choice)
      PROVE  DeviceInv(d)'
  <2>1. PICK o \in Fetched(FALSE, choice) : op' = [op EXCEPT ![d] = o]
    BY <1>5 DEF BeginPull, Begin
  <2>2. UNCHANGED <<hist, discarded, held, text, linked, base, last>>
    BY <1>5 DEF BeginPull, vault, library
  <2> QED BY <2>1, <2>2, FetchSound
<1> QED BY <1>1, <1>2, <1>3, <1>4, <1>5 DEF Writer

LEMMA PushResolveKeeps ==
  ASSUME TypeOK, Grows, NEW d \in Devices, DeviceInv(d), PushResolve(d)
  PROVE  DeviceInv(d)'
<1> DEFINE onto == IF op[d].decided THEN HeadRev ELSE Base(d)
           next(p) == [op[d] EXCEPT !.pc = p, !.rev = HeadRev]
<1>1. /\ op[d].pc = "resolve" /\ op[d] \in Operation
      /\ UNCHANGED <<hist, discarded, held, text, linked, base, last>>
  BY DEF PushResolve, vault, library, TypeOK
<1>2. HeadRev' = HeadRev /\ HeadRev \in Nat /\ \A r : Body(r)' = Body(r)
  BY <1>1 DEF HeadRev, Body, TypeOK
<1>3. \/ op'[d] = Idle
      \/ HeadRev # onto /\ op'[d] = next("match")
      \/ HeadRev = onto /\ op'[d] = next("commit")
  BY DEF PushResolve, TypeOK
<1>4. Rows(d) /\ Rows(d)'
  BY <1>1, SameRows DEF DeviceInv
<1>5. CASE op'[d] = Idle
  BY <1>4, <1>5, IdleSound
<1>6. \A p \in {"match", "commit"} :
        /\ next(p).pc = p /\ next(p).rev = HeadRev
        /\ next(p).words = op[d].words
        /\ next(p).decided = op[d].decided /\ next(p).auto = op[d].auto
  BY <1>1 DEF Operation
<1> HIDE DEF next
<1>7. CASE HeadRev # onto /\ op'[d] = next("match")
  <2>1. HeadRev >= 1
    BY <1>2, <1>4, <1>7 DEF Base, Rows
  <2>2. Carried(d)'
    BY <1>1, <1>2, <1>6, <1>7 DEF DeviceInv, Carried, Pulling, Pushing, Grows
  <2> QED BY <1>1, <1>2, <1>4, <1>6, <1>7, <2>1, <2>2
          DEF DeviceInv, PushSound, PullSound
<1>8. CASE HeadRev = onto /\ op'[d] = next("commit")
  <2>1. ASSUME ~op[d].decided
        PROVE  Body(HeadRev) \ op[d].words \subseteq discarded
    <3>1. CASE d \in linked
      BY <1>1, <1>8, <2>1, <3>1 DEF Base, DeviceInv, PushSound
    <3>2. CASE d \notin linked
      BY <1>8, <2>1, <3>2 DEF Base, Body
    <3> QED BY <3>1, <3>2
  <2>2. Carried(d)'
    BY <1>1, <1>2, <1>6, <1>8 DEF DeviceInv, Carried, Pulling, Pushing, Grows
  <2> QED BY <1>1, <1>2, <1>4, <1>6, <1>8, <2>1, <2>2
          DEF DeviceInv, PushSound, PullSound
<1> QED BY <1>3, <1>5, <1>7, <1>8

LEMMA PushMatchKeeps ==
  ASSUME TypeOK, NoLostUpdate, Grows, NEW d \in Devices, DeviceInv(d),
         PushMatch(d)
  PROVE  DeviceInv(d)'
<1>1. /\ op[d].pc = "match" /\ op'[d] = Idle
      /\ UNCHANGED <<hist, discarded, held, text>>
  BY DEF PushMatch, Finish, vault, TypeOK
<1>2. HeadRev' = HeadRev /\ HeadRev \in Nat /\ \A r : Body(r)' = Body(r)
  BY <1>1 DEF HeadRev, Body, TypeOK
<1>3. CASE UNCHANGED <<linked, base, last>>
  BY <1>1, <1>3, SameRows, IdleSound DEF DeviceInv
<1>4. ASSUME NEW r \in {op[d].rev, HeadRev}, Alive(r),
             Body(r) = op[d].words, d \in held,
             PutLink(d, op[d].rev, op[d].words)
      PROVE  DeviceInv(d)'
  <2>1. /\ op[d].rev \in 1 .. HeadRev /\ r \in 1 .. HeadRev
        /\ op[d].rev <= r
    BY <1>1, <1>2, OperationTyped DEF DeviceInv, PushSound
  <2>2. Body(r) \subseteq Safe'
    BY <1>2, <2>1, StoredHolds DEF Grows
  <2>3. op[d].words \subseteq text[d]
    BY <1>1, <1>4 DEF DeviceInv, Carried, Pushing
  <2>4. Body(op[d].rev) \ Body(r) \subseteq discarded
    BY <1>2, <2>1 DEF NoLostUpdate, HeadRev, Body
  <2>5. Rows(d)'
    BY <1>1, <1>2, <1>4, <2>1, <2>2, <2>3, <2>4, LinkSound
  <2> QED BY <1>1, <2>5, IdleSound
<1> QED BY <1>3, <1>4 DEF PushMatch

LEMMA PushCommitKeeps ==
  ASSUME TypeOK, Grows, NEW d \in Devices, DeviceInv(d), PushCommit(d)
  PROVE  DeviceInv(d)'
<1> DEFINE new == HeadRev + 1
           recording == [op[d] EXCEPT !.pc = "record", !.rev = new]
<1>1. /\ op[d].pc = "commit" /\ op[d] \in Operation
      /\ UNCHANGED <<held, text, linked, base, last>>
  BY DEF PushCommit, library, TypeOK
<1>2. /\ HeadRev' = new /\ new \in Nat /\ new >= 1
      /\ hist'[new].words = op[d].words
  <2>1. op[d].words \in SUBSET Words /\ HeadRev \in Nat
    BY OperationTyped
  <2>2. Commit(d, TRUE, op[d].words) /\ TRUE \in BOOLEAN
    BY DEF PushCommit
  <2>3. /\ HeadRev' = HeadRev + 1
        /\ hist'[HeadRev + 1] = [alive |-> TRUE, words |-> op[d].words, by |-> d]
    BY <2>1, <2>2, CommitTyped
  <2> QED BY <2>1, <2>3
<1>3. Rows(d)'
  BY <1>1, SameRows DEF DeviceInv
<1>4. op'[d] = Idle \/ op'[d] = recording
  BY DEF PushCommit, TypeOK
<1> HIDE DEF new
<1>5. CASE op'[d] = Idle
  BY <1>3, <1>5, IdleSound
<1>6. CASE op'[d] = recording
  <2>1. /\ recording.pc = "record" /\ recording.rev = new
        /\ recording.words = op[d].words
        /\ recording.decided = op[d].decided /\ recording.auto = op[d].auto
    BY <1>1 DEF Operation
  <2> HIDE DEF recording
  <2>2. /\ op'[d].pc = "record" /\ op'[d].rev = new
        /\ op'[d].words = op[d].words
        /\ op'[d].decided = op[d].decided /\ op'[d].auto = op[d].auto
    BY <1>6, <2>1
  <2>3. Carried(d)' /\ PullSound(d)'
    BY <1>1, <2>2 DEF DeviceInv, Carried, PullSound, Pulling, Pushing, Grows
  <2>4. PushSound(d)'
    BY <1>2, <2>2 DEF PushSound, Body
  <2> QED BY <1>3, <2>3, <2>4 DEF DeviceInv
<1> QED BY <1>4, <1>5, <1>6

LEMMA PushRecordKeeps ==
  ASSUME TypeOK, Grows, NEW d \in Devices, DeviceInv(d), PushRecord(d)
  PROVE  DeviceInv(d)'
<1>1. /\ op[d].pc = "record" /\ op'[d] = Idle
      /\ UNCHANGED <<hist, discarded, held, text>>
  BY DEF PushRecord, Finish, vault, TypeOK
<1>2. HeadRev' = HeadRev /\ HeadRev \in Nat /\ \A r : Body(r)' = Body(r)
  BY <1>1 DEF HeadRev, Body, TypeOK
<1>3. CASE d \notin held
  <2>1. Rows(d)'
    BY <1>1, <1>3, SameRows DEF PushRecord, DeviceInv
  <2> QED BY <1>1, <2>1, IdleSound
<1>4. CASE d \in held
  <2>1. /\ op[d].rev \in 1 .. HeadRev /\ op[d].words = Body(op[d].rev)
        /\ op[d].words \subseteq text[d]
    BY <1>1, <1>2, <1>4, OperationTyped
       DEF DeviceInv, PushSound, Carried, Pushing
  <2>2. op[d].words \subseteq Safe'
    BY <1>2, <2>1, StoredHolds DEF Grows
  <2>3. PutLink(d, op[d].rev, op[d].words)
    BY <1>4 DEF PushRecord
  <2>4. Rows(d)'
    BY <1>1, <1>2, <1>4, <2>1, <2>2, <2>3, LinkSound
  <2> QED BY <1>1, <2>4, IdleSound
<1> QED BY <1>3, <1>4

LEMMA PushKeeps ==
  ASSUME TypeOK, NoLostUpdate, Grows, NEW d \in Devices, DeviceInv(d), Push(d)
  PROVE  DeviceInv(d)'
<1>1. CASE PushRefused(d)
  <2>1. op'[d] = Idle /\ Rows(d)'
    BY <1>1, SameRows DEF PushRefused, library, TypeOK, DeviceInv
  <2> QED BY <2>1, IdleSound
<1> QED BY <1>1, PushResolveKeeps, PushMatchKeeps, PushCommitKeeps,
        PushRecordKeeps DEF Push

LEMMA PullOpenKeeps ==
  ASSUME TypeOK, Grows, NEW d \in Devices, DeviceInv(d), PullOpen(d)
  PROVE  DeviceInv(d)'
<1>1. UNCHANGED <<hist, discarded, held, text, linked, base, last>>
  BY DEF PullOpen, vault, library
<1>2. \/ \E o \in Fetched(TRUE, FALSE) : op' = [op EXCEPT ![d] = o]
      \/ op' = [op EXCEPT ![d] = Idle]
  BY DEF PullOpen
<1>3. CASE op' = [op EXCEPT ![d] = Idle]
  BY <1>1, <1>3, SameRows, IdleSound DEF TypeOK, DeviceInv
<1>4. ASSUME NEW o \in Fetched(TRUE, FALSE), op' = [op EXCEPT ![d] = o]
      PROVE  DeviceInv(d)'
  BY <1>1, <1>4, FetchSound
<1> QED BY <1>2, <1>3, <1>4

LEMMA PullCheckKeeps ==
  ASSUME TypeOK, Grows, NEW d \in Devices, DeviceInv(d), PullCheck(d)
  PROVE  DeviceInv(d)'
<1> DEFINE next(p) == [op[d] EXCEPT !.pc = p]
           merging == [op[d] EXCEPT !.pc = "snapshot", !.merge = TRUE]
<1>1. /\ op[d].pc = "check" /\ op[d] \in Operation
      /\ UNCHANGED <<hist, discarded, held, text, linked, base, last, today>>
  BY DEF PullCheck, vault, library, shelf, TypeOK
<1>2. HeadRev' = HeadRev /\ (\A r : Body(r)' = Body(r)) /\ Stored' = Stored
  BY <1>1 DEF HeadRev, Body, Stored
<1>3. Rows(d) /\ Rows(d)'
  BY <1>1, SameRows DEF DeviceInv
<1>4. \/ d \notin held /\ op'[d] = next("apply")
      \/ d \in held /\ Acceptable(d) /\ op'[d] = next("snapshot")
      \/ d \in held /\ OnlyNewlyCarried(d) /\ op'[d] = merging
      \/ op'[d] = Idle
  BY DEF PullCheck, TypeOK
<1>5. \A p \in {"apply", "snapshot"} :
        /\ next(p).pc = p /\ next(p).rev = op[d].rev
        /\ next(p).words = op[d].words /\ next(p).atHead = op[d].atHead
        /\ next(p).decided = op[d].decided /\ next(p).auto = op[d].auto
  BY <1>1 DEF Operation
<1>6. /\ merging.pc = "snapshot" /\ merging.rev = op[d].rev
      /\ merging.words = op[d].words /\ merging.atHead = op[d].atHead
      /\ merging.decided = op[d].decided /\ merging.auto = op[d].auto
      /\ merging.merge = TRUE
  BY <1>1 DEF Operation
<1> HIDE DEF next, merging
<1>7. CASE d \notin held /\ op'[d] = next("apply")
  BY <1>1, <1>2, <1>3, <1>5, <1>7
     DEF DeviceInv, Carried, PushSound, PullSound, Pulling, Pushing
<1>8. CASE d \in held /\ Acceptable(d) /\ op'[d] = next("snapshot")
  <2>1. op[d].auto => text[d] \subseteq Safe'
    <3>1. op[d].words \subseteq Safe'
      BY <1>1, <1>2 DEF DeviceInv, Carried, Pulling, Safe
    <3>2. d \in linked => last[d] \subseteq Safe'
      BY <1>3 DEF Rows, Grows
    <3> QED BY <1>8, <3>1, <3>2
            DEF DeviceInv, Carried, Acceptable, Changed
  <2>2. op'[d].auto => Doomed(d)' \subseteq Safe'
    BY <1>1, <1>5, <1>8, <2>1 DEF Doomed
  <2>3. Carried(d)' /\ PushSound(d)'
    BY <1>1, <1>2, <1>5, <1>8
       DEF DeviceInv, Carried, PushSound, Pulling, Pushing
  <2>4. PullSound(d)'
    BY <1>5, <1>8, <2>2 DEF PullSound
  <2> QED BY <1>3, <2>3, <2>4 DEF DeviceInv
<1>9. CASE d \in held /\ OnlyNewlyCarried(d) /\ op'[d] = merging
  <2>1. Doomed(d)' \subseteq Safe'
    BY <1>1, <1>3, <1>6, <1>9 DEF Doomed, OnlyNewlyCarried, Rows, Grows
  <2>2. Carried(d)' /\ PushSound(d)'
    BY <1>1, <1>2, <1>6, <1>9
       DEF DeviceInv, Carried, PushSound, Pulling, Pushing
  <2>3. PullSound(d)'
    BY <1>6, <1>9, <2>1 DEF PullSound
  <2> QED BY <1>3, <2>2, <2>3 DEF DeviceInv
<1>10. CASE op'[d] = Idle
  BY <1>3, <1>10, IdleSound
<1> QED BY <1>4, <1>7, <1>8, <1>9, <1>10

LEMMA PullSnapshotKeeps ==
  ASSUME TypeOK, Grows, NEW d \in Devices, DeviceInv(d), PullSnapshot(d)
  PROVE  DeviceInv(d)'
<1> DEFINE next == [op[d] EXCEPT !.pc = "apply"]
<1>1. /\ op[d].pc = "snapshot" /\ op[d] \in Operation /\ op'[d] = next
      /\ UNCHANGED <<hist, discarded, held, text, linked, base, last>>
  BY DEF PullSnapshot, Goto, vault, library, TypeOK
<1>2. HeadRev' = HeadRev /\ (\A r : Body(r)' = Body(r)) /\ Stored' = Stored
  BY <1>1 DEF HeadRev, Body, Stored
<1>3. Rows(d)'
  BY <1>1, SameRows DEF DeviceInv
<1>4. /\ next.pc = "apply" /\ next.rev = op[d].rev
      /\ next.words = op[d].words /\ next.atHead = op[d].atHead
      /\ next.decided = op[d].decided /\ next.auto = op[d].auto
      /\ next.merge = op[d].merge
  BY <1>1 DEF Operation
<1> HIDE DEF next
<1>5. d \in held => Doomed(d)' \subseteq Safe'
  <2>1. Doomed(d)' = Doomed(d) /\ Doomed(d) \subseteq text[d]
    BY <1>1, <1>4 DEF Doomed
  <2>2. CASE op[d].auto /\ today[d]
    BY <1>1, <2>1, <2>2 DEF DeviceInv, PullSound, Grows
  <2>3. CASE ~(op[d].auto /\ today[d])
    <3>1. text[d] \subseteq kept'[d] /\ text[d] \subseteq Words
      BY <2>3 DEF PullSnapshot, TypeOK
    <3>2. text[d] \subseteq Shelved'
      BY <3>1 DEF Shelved
    <3> QED BY <2>1, <3>2 DEF Safe
  <2> QED BY <2>2, <2>3
<1>6. Carried(d)' /\ PushSound(d)'
  BY <1>1, <1>2, <1>4 DEF DeviceInv, Carried, PushSound, Pulling, Pushing
<1>7. PullSound(d)'
  BY <1>1, <1>4, <1>5 DEF PullSound
<1> QED BY <1>3, <1>6, <1>7 DEF DeviceInv

LEMMA PullApplyKeeps ==
  ASSUME TypeOK, Grows, NEW d \in Devices, DeviceInv(d), PullApply(d)
  PROVE  DeviceInv(d)'
<1> DEFINE new == IF op[d].merge
                    THEN op[d].words \cup (text[d] \cap Conversation)
                    ELSE op[d].words
           next == [op[d] EXCEPT !.pc = "rehash"]
<1>1. /\ op[d].pc = "apply" /\ op[d] \in Operation
      /\ hist' = hist /\ d \in held' /\ text'[d] = new
      /\ op[d].words \subseteq new
  BY DEF PullApply, TypeOK
<1>2. /\ HeadRev' = HeadRev /\ HeadRev \in Nat /\ Stored' = Stored
      /\ \A r : Body(r)' = Body(r)
  BY <1>1 DEF HeadRev, Body, Stored, TypeOK
<1>3. /\ op[d].rev \in 1 .. HeadRev /\ op[d].words \subseteq Stored
      /\ op[d].atHead => op[d].words = Body(op[d].rev)
  BY <1>1, <1>2, OperationTyped DEF DeviceInv, Carried, Pulling
<1>4. op[d].words \subseteq Safe'
  BY <1>2, <1>3 DEF Safe
<1>5. CASE op[d].atHead
  <2>1. PutLink(d, op[d].rev, op[d].words) /\ op'[d] = next
    BY <1>5 DEF PullApply, TypeOK
  <2>2. Rows(d)'
    BY <1>1, <1>2, <1>3, <1>4, <1>5, <2>1, LinkSound
  <2>3. /\ next.pc = "rehash" /\ next.rev = op[d].rev
        /\ next.words = op[d].words /\ next.atHead = op[d].atHead
        /\ next.decided = op[d].decided /\ next.auto = op[d].auto
        /\ next.merge = op[d].merge
    BY <1>1 DEF Operation
  <2> HIDE DEF next
  <2>4. Carried(d)' /\ PushSound(d)'
    BY <1>1, <1>2, <2>1, <2>3
       DEF DeviceInv, Carried, PushSound, Pulling, Pushing
  <2>5. d \in linked' /\ base'[d] = op[d].rev
    BY <2>1 DEF PutLink, TypeOK
  <2>6. PullSound(d)'
    BY <1>1, <1>4, <1>5, <2>1, <2>3, <2>5 DEF PullSound
  <2> QED BY <2>2, <2>4, <2>6 DEF DeviceInv
<1>6. CASE ~op[d].atHead
  <2>1. /\ op'[d] = Idle
        /\ discarded' = discarded \cup (Body(op[d].rev) \ new)
    BY <1>6 DEF PullApply, TypeOK
  <2>2. PICK r \in op[d].rev .. HeadRev : PutLink(d, op[d].rev, Body(r))
    BY <1>6 DEF PullApply
  <2>3. Body(r) \subseteq Safe'
    BY <1>2, <1>3, <2>2, StoredHolds DEF Grows
  <2>4. Rows(d)'
    BY <1>1, <1>2, <1>3, <2>1, <2>2, <2>3, LinkSound
  <2> QED BY <2>1, <2>4, IdleSound
<1> QED BY <1>5, <1>6

LEMMA PullRehashKeeps ==
  ASSUME TypeOK, Grows, NEW d \in Devices, DeviceInv(d), PullRehash(d)
  PROVE  DeviceInv(d)'
<1>1. /\ op[d].pc = "rehash" /\ op'[d] = Idle
      /\ UNCHANGED <<hist, discarded, held, text>>
  BY DEF PullRehash, Finish, vault, TypeOK
<1>2. HeadRev' = HeadRev /\ HeadRev \in Nat /\ \A r : Body(r)' = Body(r)
  BY <1>1 DEF HeadRev, Body, TypeOK
<1>3. CASE d \notin held
  <2>1. Rows(d)'
    BY <1>1, <1>3, SameRows DEF PullRehash, DeviceInv
  <2> QED BY <1>1, <2>1, IdleSound
<1>4. CASE d \in held
  <2> DEFINE hash == IF op[d].merge THEN op[d].words ELSE text[d]
  <2>1. op[d].rev \in 1 .. HeadRev /\ op[d].words \subseteq Stored
    BY <1>1, <1>2, OperationTyped DEF DeviceInv, Carried, Pulling
  <2>2. hash \subseteq Safe'
    BY <1>1, <1>4, <2>1 DEF DeviceInv, PullSound, Grows, Safe
  <2>3. Body(op[d].rev) \ text[d] \subseteq discarded
    BY <1>1, <1>4 DEF DeviceInv, PullSound, Rows
  <2>4. PutLink(d, op[d].rev, hash)
    BY <1>4 DEF PullRehash
  <2> HIDE DEF hash
  <2>5. Rows(d)'
    BY <1>1, <1>2, <1>4, <2>1, <2>2, <2>3, <2>4, LinkSound
  <2> QED BY <1>1, <2>5, IdleSound
<1> QED BY <1>3, <1>4

LEMMA PullKeeps ==
  ASSUME TypeOK, Grows, NEW d \in Devices, DeviceInv(d), Pull(d)
  PROVE  DeviceInv(d)'
  BY PullOpenKeeps, PullCheckKeeps, PullSnapshotKeeps, PullApplyKeeps,
     PullRehashKeeps DEF Pull

\* A step that stands before any reading or writing carries nothing yet.
LEMMA BareSound ==
  ASSUME NEW d \in Devices, Rows(d)',
         op'[d].pc \in {"open", "marker", "scan", "decide"},
         op'[d].decided => ~op'[d].auto
  PROVE  DeviceInv(d)'
  BY DEF DeviceInv, Carried, PushSound, PullSound, Pulling, Pushing

LEMMA MarkerKeeps ==
  ASSUME TypeOK, Grows, NEW d \in Devices, DeviceInv(d), Marker(d)
  PROVE  DeviceInv(d)'
<1> DEFINE scanning == [op[d] EXCEPT !.pc = "scan"]
           begun == [Idle EXCEPT !.pc = "marker", !.auto = TRUE, !.rev = HeadRev]
<1>1. op[d] \in Operation /\ UNCHANGED <<held, text, linked, base, last>>
  BY DEF Marker, BeginMarker, MarkerCommit, MarkerRefused, library, TypeOK
<1>2. Rows(d)'
  BY <1>1, SameRows DEF DeviceInv
<1>3. op'[d] = scanning \/ op'[d] = begun \/ op'[d] = Idle
  BY DEF Marker, BeginMarker, MarkerCommit, MarkerRefused, Begin, TypeOK
<1>4. /\ scanning.pc = "scan" /\ scanning.decided = op[d].decided
      /\ scanning.auto = op[d].auto
  BY <1>1 DEF Operation
<1>5. begun.pc = "marker" /\ begun.decided = FALSE
  BY DEF Idle
<1> HIDE DEF scanning, begun
<1> QED BY <1>2, <1>3, <1>4, <1>5, BareSound, IdleSound DEF DeviceInv, Carried

\* The heads a run may have read come after the one it listed, and have what
\* that one has, unless it was discarded.
LEMMA SeenSound ==
  ASSUME TypeOK, NoLostUpdate, NEW d \in Devices, NEW r \in Seen(d)
  PROVE  /\ op[d].rev \in 1 .. HeadRev /\ r \in 1 .. HeadRev
         /\ Body(op[d].rev) \ Body(r) \subseteq discarded
<1>1. /\ op[d].rev \in 1 .. HeadRev /\ r \in op[d].rev .. HeadRev
      /\ r \in 1 .. HeadRev
  BY OperationTyped DEF Seen, TypeOK, HeadRev
<1>2. DOMAIN hist = 1 .. HeadRev
  BY DEF TypeOK, HeadRev
<1> QED BY <1>1, <1>2 DEF NoLostUpdate, Body

LEMMA DecideMatchKeeps ==
  ASSUME TypeOK, NoLostUpdate, Grows, NEW d \in Devices, DeviceInv(d),
         DecideMatch(d)
  PROVE  DeviceInv(d)'
<1>1. /\ op'[d] = Idle /\ d \in held'
      /\ UNCHANGED <<hist, discarded, text>>
      /\ PutLink(d, op[d].rev, text[d])
  BY DEF DecideMatch, Finish, vault, TypeOK
<1>2. PICK r \in Seen(d) : text[d] = Body(r)
  BY DEF DecideMatch, Matches
<1>3. HeadRev' = HeadRev /\ \A i : Body(i)' = Body(i)
  BY <1>1 DEF HeadRev, Body
<1>4. /\ op[d].rev \in 1 .. HeadRev /\ r \in 0 .. HeadRev
      /\ Body(op[d].rev) \ text[d] \subseteq discarded
  BY <1>2, SeenSound
<1>5. text[d] \subseteq Safe'
  BY <1>2, <1>4, StoredHolds DEF Grows
<1>6. Rows(d)'
  BY <1>1, <1>3, <1>4, <1>5, LinkSound
<1> QED BY <1>1, <1>6, IdleSound

LEMMA DecideArchiveKeeps ==
  ASSUME TypeOK, MarkersEmpty, NoLostUpdate, Grows, NEW d \in Devices,
         DeviceInv(d), DecideArchive(d)
  PROVE  DeviceInv(d)'
<1>1. /\ op'[d] = Idle /\ d \in held'
      /\ UNCHANGED <<hist, discarded, text>>
      /\ PutLink(d, op[d].rev, text[d])
  BY DEF DecideArchive, Finish, vault, TypeOK
<1>2. PICK r \in Seen(d) : ~Alive(r)
  BY DEF DecideArchive, IsMarker
<1>3. HeadRev' = HeadRev /\ \A i : Body(i)' = Body(i)
  BY <1>1 DEF HeadRev, Body
<1>4. /\ op[d].rev \in 1 .. HeadRev /\ r \in 1 .. HeadRev
      /\ Body(op[d].rev) \ Body(r) \subseteq discarded
  BY SeenSound
<1>5. Body(r) = {}
  BY <1>2, <1>4 DEF MarkersEmpty
<1>6. text[d] \subseteq Safe'
  <2>1. Unsent(d) \subseteq Safe'
    BY DEF DecideArchive, Safe
  <2>2. d \in linked => last[d] \subseteq Safe'
    BY DEF DeviceInv, Rows, Grows
  <2> QED BY <2>1, <2>2 DEF Unsent
<1>7. Rows(d)'
  BY <1>1, <1>3, <1>4, <1>5, <1>6, LinkSound
<1> QED BY <1>1, <1>7, IdleSound

LEMMA SyncKeeps ==
  ASSUME TypeOK, MarkersEmpty, NoLostUpdate, Grows, NEW d \in Devices,
         DeviceInv(d), Sync(d)
  PROVE  DeviceInv(d)'
<1>1. op[d] \in Operation
  BY DEF TypeOK
<1>2. CASE Scan(d)
  <2> DEFINE decide == [Idle EXCEPT !.pc = "decide", !.auto = TRUE,
                                    !.rev = HeadRev]
             open == [Idle EXCEPT !.pc = "open", !.auto = TRUE]
  <2>1. op'[d] = Idle \/ op'[d] = decide \/ op'[d] = open
    BY <1>2 DEF Scan, TypeOK
  <2>2. /\ decide.pc = "decide" /\ decide.decided = FALSE
        /\ open.pc = "open" /\ open.decided = FALSE
    BY DEF Idle
  <2> HIDE DEF decide, open
  <2>3. Rows(d)'
    BY <1>2, SameRows DEF Scan, library, DeviceInv
  <2> QED BY <2>1, <2>2, <2>3, BareSound, IdleSound
<1>3. CASE DecidePush(d)
  BY <1>3, ExportSound DEF DecidePush, vault, library
<1>4. CASE DecidePull(d) \/ DecideBack(d)
  <2> DEFINE open == [op[d] EXCEPT !.pc = "open", !.rev = 0]
  <2>1. op'[d] = open
    BY <1>4 DEF DecidePull, DecideBack, TypeOK
  <2>2. /\ open.pc = "open" /\ open.decided = op[d].decided
        /\ open.auto = op[d].auto
    BY <1>1 DEF Operation
  <2> HIDE DEF open
  <2>3. Rows(d)'
    BY <1>4, SameRows DEF DecidePull, DecideBack, library, DeviceInv
  <2> QED BY <2>1, <2>2, <2>3, BareSound DEF DeviceInv, Carried
<1>5. CASE DecideNothing(d)
  <2>1. op'[d] = Idle /\ Rows(d)'
    BY <1>5, SameRows DEF DecideNothing, Finish, library, DeviceInv, TypeOK
  <2> QED BY <2>1, IdleSound
<1> QED BY <1>2, <1>3, <1>4, <1>5, DecideMatchKeeps, DecideArchiveKeeps
        DEF Sync, Settle

LEMMA StepKeepsOwn ==
  ASSUME TypeOK, MarkersEmpty, NoLostUpdate, Grows, NEW d \in Devices,
         DeviceInv(d), Step(d)
  PROVE  DeviceInv(d)'
<1>1. CASE NextDay(d)
  BY <1>1, UntouchedKeeps DEF NextDay, Untouched, vault, library, TypeOK
<1>2. CASE DeleteFails(d)
  BY <1>2, UntouchedKeeps DEF DeleteFails, Untouched, vault, library, shelf
<1>3. CASE Abort(d)
  <2>1. op'[d] = Idle /\ Rows(d)'
    BY <1>3, SameRows DEF Abort, library, DeviceInv, TypeOK
  <2> QED BY <2>1, IdleSound
<1> QED BY <1>1, <1>2, <1>3, WriterKeeps, PushKeeps, PullKeeps, MarkerKeeps,
        SyncKeeps DEF Step

-----------------------------------------------------------------------------
(* The vault *)

\* A commit puts one revision on top, marked empty or whole.
LEMMA VaultKeeps ==
  ASSUME TypeOK, MarkersEmpty, NoLostUpdate, NEW d \in Devices, DeviceInv(d),
         NEW alive \in BOOLEAN, NEW words \in SUBSET Words,
         Commit(d, alive, words), ~alive => words = {},
         discarded \subseteq discarded',
         Body(HeadRev) \ words \subseteq discarded'
  PROVE  MarkersEmpty' /\ NoLostUpdate'
<1>1. /\ HeadRev \in Nat /\ HeadRev' = HeadRev + 1
      /\ \A r \in 1 .. HeadRev : hist'[r] = hist[r]
      /\ hist'[HeadRev + 1] = [alive |-> alive, words |-> words, by |-> d]
  BY CommitTyped, OperationTyped
<1>2. MarkersEmpty'
  BY <1>1 DEF MarkersEmpty, Alive, Body
<1>3. DOMAIN hist = 1 .. HeadRev /\ DOMAIN hist' = 1 .. HeadRev + 1
  BY <1>1, CommitTyped DEF TypeOK, HeadRev
<1>4. ASSUME NEW i \in 1 .. HeadRev + 1, NEW j \in i .. HeadRev + 1
      PROVE  hist'[i].words \ hist'[j].words \subseteq discarded'
  <2>1. CASE j \in 1 .. HeadRev
    BY <1>1, <1>3, <2>1 DEF NoLostUpdate
  <2>2. CASE i = HeadRev + 1 /\ j = HeadRev + 1
    BY <2>2
  <2>3. CASE i \in 1 .. HeadRev /\ j = HeadRev + 1
    <3>1. hist[i].words \ hist[HeadRev].words \subseteq discarded
      BY <1>1, <1>3, <2>3 DEF NoLostUpdate
    <3>2. Body(HeadRev) = hist[HeadRev].words
      BY <1>1, <2>3 DEF Body
    <3> QED BY <1>1, <2>3, <3>1, <3>2
  <2> QED BY <1>1, <2>1, <2>2, <2>3
<1>5. NoLostUpdate'
  BY <1>1, <1>3, <1>4 DEF NoLostUpdate
<1> QED BY <1>2, <1>5

LEMMA StepKeepsVault ==
  ASSUME TypeOK, MarkersEmpty, NoLostUpdate, NEW d \in Devices, DeviceInv(d),
         Step(d)
  PROVE  MarkersEmpty' /\ NoLostUpdate'
<1>1. ASSUME hist' = hist, discarded \subseteq discarded'
      PROVE  MarkersEmpty' /\ NoLostUpdate'
  BY <1>1 DEF MarkersEmpty, NoLostUpdate, Alive, Body, HeadRev
<1>2. CASE PushCommit(d)
  <2>1. /\ Commit(d, TRUE, op[d].words) /\ TRUE \in BOOLEAN
        /\ op[d].words \in SUBSET Words
    BY <1>2, OperationTyped DEF PushCommit
  <2>2. /\ discarded \subseteq discarded'
        /\ Body(HeadRev) \ op[d].words \subseteq discarded'
    BY <1>2 DEF PushCommit, DeviceInv, PushSound
  <2> QED BY <2>1, <2>2, VaultKeeps
<1>3. CASE MarkerCommit(d)
  <2>1. /\ Commit(d, FALSE, {}) /\ FALSE \in BOOLEAN /\ {} \in SUBSET Words
        /\ discarded' = discarded \cup Body(HeadRev)
    BY <1>3 DEF MarkerCommit
  <2>2. /\ discarded \subseteq discarded'
        /\ Body(HeadRev) \ {} \subseteq discarded'
    BY <2>1
  <2> QED BY <2>1, <2>2, VaultKeeps
<1>4. CASE Writer(d)
  BY <1>1, <1>4 DEF Writer, Write, QueueDeletion, DeleteRow, BeginPush,
     BeginPull, vault
<1>5. CASE Push(d) /\ ~PushCommit(d)
  BY <1>1, <1>5 DEF Push, PushResolve, PushMatch, PushRefused, PushRecord, vault
<1>6. CASE Pull(d)
  BY <1>1, <1>6 DEF Pull, PullOpen, PullCheck, PullSnapshot, PullApply,
     PullRehash, vault
<1>7. CASE Marker(d) /\ ~MarkerCommit(d)
  BY <1>1, <1>7 DEF Marker, BeginMarker, MarkerRefused, vault
<1>8. CASE Sync(d)
  BY <1>1, <1>8 DEF Sync, Settle, Scan, DecidePush, DecidePull, DecideMatch,
     DecideArchive, DecideBack, DecideNothing, vault
<1>9. CASE NextDay(d) \/ DeleteFails(d) \/ Abort(d)
  BY <1>1, <1>9 DEF NextDay, DeleteFails, Abort, vault
<1> QED BY <1>2, <1>3, <1>4, <1>5, <1>6, <1>7, <1>8, <1>9 DEF Step

-----------------------------------------------------------------------------
(* The words *)

\* A step that leaves the text, or only moves words to where they are safe.
LEMMA WordsKept ==
  ASSUME TypeOK, NoWordLost, Grows, TypeOK', NEW d \in Devices,
         \A e \in Devices \ {d} : text'[e] = text[e],
         \A w \in text[d] : w \in text'[d] \cup Safe',
         \A w \in written' \ written : w \in text'[d]
  PROVE  NoWordLost'
<1>1. ASSUME NEW w \in written' PROVE w \in OnScreen' \cup Safe'
  <2>1. CASE w \notin written
    <3>1. w \in text'[d] /\ w \in Words
      BY <1>1, <2>1 DEF TypeOK
    <3> QED BY <3>1 DEF OnScreen
  <2>2. CASE w \in Safe
    BY <2>2 DEF Grows
  <2>3. CASE w \in OnScreen
    <3>1. PICK e \in Devices : w \in text[e]
      BY <2>3 DEF OnScreen
    <3>2. w \in text'[e] \cup Safe' /\ w \in Words
      BY <2>3, <3>1 DEF OnScreen
    <3> QED BY <3>2 DEF OnScreen
  <2> QED BY <2>1, <2>2, <2>3 DEF NoWordLost, Safe
<1> QED BY <1>1 DEF NoWordLost, Safe

LEMMA StepKeepsWords ==
  ASSUME TypeOK, TypeOK', NoWordLost, Grows, NEW d \in Devices, DeviceInv(d),
         Step(d)
  PROVE  NoWordLost'
<1>1. ASSUME UNCHANGED <<text, written>> PROVE NoWordLost'
  BY <1>1, WordsKept
<1>2. ASSUME NEW w \in Words, Write(d, w) PROVE NoWordLost'
  <2>1. /\ text' = [text EXCEPT ![d] = @ \cup {w}]
        /\ written' = written \cup {w}
    BY <1>2 DEF Write
  <2>2. /\ text'[d] = text[d] \cup {w}
        /\ \A e \in Devices \ {d} : text'[e] = text[e]
    BY <2>1 DEF TypeOK
  <2> QED BY <2>1, <2>2, WordsKept
<1>3. CASE DeleteRow(d)
  <2>1. /\ \A e \in Devices \ {d} : text'[e] = text[e]
        /\ written' = written /\ forfeited' = forfeited \cup Unsent(d)
    BY <1>3 DEF DeleteRow, TypeOK
  <2>2. \A w \in text[d] : w \in Safe'
    <3>1. d \in linked => last[d] \subseteq Safe'
      BY DEF DeviceInv, Rows, Grows
    <3> QED BY <2>1, <3>1 DEF Unsent, Safe
  <2> QED BY <2>1, <2>2, WordsKept
<1>4. CASE PullApply(d)
  <2> DEFINE new == IF op[d].merge
                      THEN op[d].words \cup (text[d] \cap Conversation)
                      ELSE op[d].words
  <2>1. /\ \A e \in Devices \ {d} : text'[e] = text[e]
        /\ text'[d] = new /\ written' = written /\ op[d].pc = "apply"
    BY <1>4 DEF PullApply, ghosts, TypeOK
  <2>2. \A w \in text[d] : w \in text'[d] \cup Safe'
    BY <2>1 DEF DeviceInv, Rows, PullSound, Doomed, Grows
  <2> QED BY <2>1, <2>2, WordsKept
<1>5. CASE Writer(d) /\ ~DeleteRow(d) /\ ~\E w \in Words : Write(d, w)
  BY <1>1, <1>5 DEF Writer, QueueDeletion, BeginPush, BeginPull, library, ghosts
<1>6. CASE Push(d)
  BY <1>1, <1>6 DEF Push, PushResolve, PushMatch, PushCommit, PushRefused,
     PushRecord, library, ghosts
<1>7. CASE Pull(d) /\ ~PullApply(d)
  BY <1>1, <1>7 DEF Pull, PullOpen, PullCheck, PullSnapshot, PullRehash,
     library, ghosts
<1>8. CASE Marker(d)
  BY <1>1, <1>8 DEF Marker, BeginMarker, MarkerCommit, MarkerRefused,
     library, ghosts
<1>9. CASE Sync(d)
  BY <1>1, <1>9 DEF Sync, Settle, Scan, DecidePush, DecidePull, DecideMatch,
     DecideArchive, DecideBack, DecideNothing, library, ghosts
<1>10. CASE NextDay(d) \/ DeleteFails(d) \/ Abort(d)
  BY <1>1, <1>10 DEF NextDay, DeleteFails, Abort, library, ghosts
<1> QED BY <1>2, <1>3, <1>4, <1>5, <1>6, <1>7, <1>8, <1>9, <1>10 DEF Step

-----------------------------------------------------------------------------
LEMMA InitInv == Init => Inv
<1> SUFFICES ASSUME Init PROVE Inv
  OBVIOUS
<1>1. TypeOK
  BY InitTyped
<1>2. HeadRev = 0 /\ DOMAIN hist = {}
  BY DEF Init, HeadRev
<1>3. MarkersEmpty /\ NoLostUpdate
  BY <1>2 DEF MarkersEmpty, NoLostUpdate
<1>4. NoWordLost
  BY DEF Init, NoWordLost, OnScreen
<1>5. ASSUME NEW d \in Devices PROVE DeviceInv(d)
  <2>1. op[d] = Idle /\ d \notin linked /\ (d \notin held => text[d] = {})
    BY DEF Init
  <2>2. Rows(d)
    BY <2>1 DEF Rows
  <2> QED BY <2>1, <2>2, IdleFields
          DEF DeviceInv, Carried, PushSound, PullSound, Pushing, Pulling
<1> QED BY <1>1, <1>3, <1>4, <1>5 DEF Inv

LEMMA NextInv == Inv /\ [Next]_vars => Inv'
<1> SUFFICES ASSUME Inv, [Next]_vars PROVE Inv'
  OBVIOUS
<1>1. TypeOK'
  BY NextTyped DEF Inv
<1>2. CASE UNCHANGED vars
  <2>1. Grows /\ \A e \in Devices : Untouched(e)
    BY <1>2, SameHistGrows
       DEF Inv, Untouched, vars, vault, library, queue, shelf, ghosts
  <2>2. \A e \in Devices : DeviceInv(e)'
    BY <2>1, UntouchedKeeps DEF Inv
  <2>3. MarkersEmpty' /\ NoLostUpdate' /\ NoWordLost'
    BY <1>2 DEF Inv, MarkersEmpty, NoLostUpdate, NoWordLost, Stored, Shelved,
       OnScreen, Alive, Body, HeadRev, vars, vault, library, shelf, ghosts
  <2> QED BY <1>1, <2>2, <2>3 DEF Inv
<1>3. ASSUME NEW d \in Devices, Step(d) PROVE Inv'
  <2>1. Grows
    BY <1>3, StepGrows DEF Inv
  <2>2. ASSUME NEW e \in Devices PROVE DeviceInv(e)'
    <3>1. CASE e = d
      BY <1>3, <2>1, <3>1, StepKeepsOwn DEF Inv
    <3>2. CASE e # d
      BY <1>3, <2>1, <3>2, StepLeavesOthers, UntouchedKeeps DEF Inv
    <3> QED BY <3>1, <3>2
  <2>3. MarkersEmpty' /\ NoLostUpdate'
    BY <1>3, StepKeepsVault DEF Inv
  <2>4. NoWordLost'
    BY <1>1, <1>3, <2>1, StepKeepsWords DEF Inv
  <2> QED BY <1>1, <2>2, <2>3, <2>4 DEF Inv
<1> QED BY <1>2, <1>3 DEF Next

\* The inductive invariant, on which the theorems below rest: what a device's rows and
\* its operation, cut anywhere, know of the vault (service.go, auto.go).
THEOREM Invariant == Spec => []Inv
  BY InitInv, NextInv, PTL DEF Spec

\* No word of the manuscript is ever out of reach, for any number of devices,
\* any text and any number of faults.
THEOREM WordsSurvive == Spec => []NoWordLost
<1>1. Inv => NoWordLost
  BY DEF Inv
<1> QED BY <1>1, Invariant, PTL

\* No device's push undoes a revision it has not seen.
THEOREM UpdatesSurvive == Spec => []NoLostUpdate
<1>1. Inv => NoLostUpdate
  BY DEF Inv
<1> QED BY <1>1, Invariant, PTL

-----------------------------------------------------------------------------
(* The words are only moved: Vault implements WordCopies. *)

LEMMA SafeSame == ASSUME UNCHANGED <<hist, kept, forfeited>> PROVE Safe' = Safe
  BY DEF Safe, Stored, Shelved, HeadRev, Body

\* A commit makes the words of the text it carries safe, and no others.
LEMMA CommitMakesSafe ==
  ASSUME TypeOK, NEW d \in Devices, NEW alive \in BOOLEAN,
         NEW words \in SUBSET Words, Commit(d, alive, words),
         UNCHANGED <<kept, forfeited>>
  PROVE  Safe' \subseteq Safe \cup words
<1>1. /\ HeadRev \in Nat /\ HeadRev' = HeadRev + 1
      /\ \A r \in 1 .. HeadRev : hist'[r] = hist[r]
      /\ hist'[HeadRev + 1] = [alive |-> alive, words |-> words, by |-> d]
  BY CommitTyped, OperationTyped
<1>2. Stored' \subseteq Stored \cup words
  <2>1. ASSUME NEW r \in 1 .. HeadRev' PROVE Body(r)' \subseteq Stored \cup words
    <3>1. CASE r \in 1 .. HeadRev
      <4>1. Body(r)' = Body(r)
        BY <1>1, <3>1 DEF Body
      <4>2. Body(r) \subseteq Words
        BY <3>1, BodyTyped, <1>1
      <4> QED BY <3>1, <4>1, <4>2 DEF Stored
    <3>2. CASE r = HeadRev + 1
      BY <1>1, <3>2 DEF Body
    <3> QED BY <1>1, <3>1, <3>2
  <2> QED BY <2>1 DEF Stored
<1>3. Shelved' = Shelved
  BY DEF Shelved
<1> QED BY <1>2, <1>3 DEF Safe

\* What a step does to the text of its device and to the safe words.
Moves(d) ==
  /\ text[d] \subseteq text'[d] \cup Safe'
  /\ text'[d] \subseteq text[d] \cup Safe
  /\ Safe' \subseteq Safe \cup text[d]

LEMMA StepMoves ==
  ASSUME Inv, NEW d \in Devices, Step(d)
  PROVE  Moves(d) \/ \E w \in Words : /\ text' = [text EXCEPT ![d] = @ \cup {w}]
                                      /\ Safe' \subseteq Safe \cup {w}
<1>0. TypeOK /\ DeviceInv(d)
  BY DEF Inv
<1>1. ASSUME UNCHANGED <<text, hist, kept, forfeited>> PROVE Moves(d)
  BY <1>1, SafeSame DEF Moves
<1>2. ASSUME text' = text, Safe' \subseteq Safe \cup text[d] PROVE Moves(d)
  BY <1>2 DEF Moves
<1>3. ASSUME NEW w \in Words, Write(d, w)
      PROVE  text' = [text EXCEPT ![d] = @ \cup {w}] /\ Safe' \subseteq Safe \cup {w}
  <2>1. /\ text' = [text EXCEPT ![d] = @ \cup {w}] /\ forfeited' \subseteq forfeited \cup {w}
        /\ hist' = hist /\ kept' = kept
    BY <1>3 DEF Write, vault, shelf
  <2> QED BY <2>1 DEF Safe, Stored, Shelved, HeadRev, Body
<1>4. CASE DeleteRow(d)
  <2>1. /\ text'[d] = {} /\ hist' = hist /\ kept' = kept
        /\ forfeited' = forfeited \cup Unsent(d) /\ Unsent(d) \subseteq text[d]
    BY <1>0, <1>4 DEF DeleteRow, TypeOK, vault, shelf, Unsent
  <2>2. Stored' = Stored /\ Shelved' = Shelved
    BY <2>1 DEF Stored, Shelved, HeadRev, Body
  <2>3. d \in linked => last[d] \subseteq Safe
    BY <1>0 DEF DeviceInv, Rows
  <2>4. text[d] \subseteq Safe'
    BY <2>1, <2>2, <2>3 DEF Unsent, Safe
  <2> QED BY <2>1, <2>2, <2>4 DEF Moves, Safe
<1>5. CASE PushCommit(d)
  <2>1. /\ Commit(d, TRUE, op[d].words) /\ TRUE \in BOOLEAN /\ op[d].words \in SUBSET Words
        /\ kept' = kept /\ forfeited' = forfeited /\ text' = text
    BY <1>0, <1>5, OperationTyped DEF PushCommit, shelf, ghosts, library
  <2>2. op[d].words \subseteq text[d] \cup Safe
    BY <1>0, <1>5 DEF PushCommit, DeviceInv, Carried, Pushing
  <2>3. Safe' \subseteq Safe \cup op[d].words
    BY <1>0, <2>1, CommitMakesSafe
  <2> QED BY <1>2, <2>1, <2>2, <2>3
<1>6. CASE MarkerCommit(d)
  <2>1. /\ Commit(d, FALSE, {}) /\ FALSE \in BOOLEAN /\ {} \in SUBSET Words
        /\ kept' = kept /\ forfeited' = forfeited /\ text' = text
    BY <1>6 DEF MarkerCommit, shelf, ghosts, library
  <2>2. Safe' \subseteq Safe \cup {}
    BY <1>0, <2>1, CommitMakesSafe
  <2> QED BY <1>2, <2>1, <2>2
<1>7. CASE PullSnapshot(d)
  <2>1. /\ text' = text /\ hist' = hist /\ forfeited' = forfeited
        /\ \A e \in Devices : kept'[e] \subseteq kept[e] \cup text[d]
    BY <1>0, <1>7 DEF PullSnapshot, vault, library, ghosts, shelf, TypeOK
  <2>2. Shelved' \subseteq Shelved \cup text[d] /\ Stored' = Stored
    BY <2>1 DEF Shelved, Stored, HeadRev, Body
  <2> QED BY <1>2, <2>1, <2>2 DEF Safe
<1>8. CASE PullApply(d)
  <2> DEFINE new == IF op[d].merge
                      THEN op[d].words \cup (text[d] \cap Conversation)
                      ELSE op[d].words
  <2>1. /\ text'[d] = new /\ op[d].pc = "apply"
        /\ hist' = hist /\ kept' = kept /\ forfeited' = forfeited
    BY <1>0, <1>8 DEF PullApply, shelf, ghosts, TypeOK
  <2>2. Safe' = Safe
    BY <2>1, SafeSame
  <2>3. text[d] \subseteq text'[d] \cup Safe
    BY <1>0, <2>1 DEF DeviceInv, Rows, PullSound, Doomed
  <2>4. op[d].words \subseteq Safe
    BY <1>0, <2>1 DEF DeviceInv, Carried, Pulling, Safe
  <2> QED BY <2>1, <2>2, <2>3, <2>4 DEF Moves
<1>9. CASE DecideArchive(d)
  <2>1. /\ text' = text /\ hist' = hist /\ kept' = kept
        /\ forfeited' = forfeited \cup Unsent(d) /\ Unsent(d) \subseteq text[d]
    BY <1>9 DEF DecideArchive, vault, shelf, Unsent
  <2>2. Stored' = Stored /\ Shelved' = Shelved
    BY <2>1 DEF Stored, Shelved, HeadRev, Body
  <2> QED BY <1>2, <2>1, <2>2 DEF Safe
<1>10. CASE Writer(d) /\ ~DeleteRow(d) /\ ~\E w \in Words : Write(d, w)
  BY <1>1, <1>10 DEF Writer, QueueDeletion, BeginPush, BeginPull, vault, library,
     shelf, ghosts
<1>11. CASE Push(d) /\ ~PushCommit(d)
  BY <1>1, <1>11 DEF Push, PushResolve, PushMatch, PushRefused, PushRecord,
     vault, library, shelf, ghosts
<1>12. CASE Pull(d) /\ ~PullApply(d) /\ ~PullSnapshot(d)
  BY <1>1, <1>12 DEF Pull, PullOpen, PullCheck, PullRehash, vault, library,
     shelf, ghosts
<1>13. CASE Marker(d) /\ ~MarkerCommit(d)
  BY <1>1, <1>13 DEF Marker, BeginMarker, MarkerRefused, vault, library,
     shelf, ghosts
<1>14. CASE Sync(d) /\ ~DecideArchive(d)
  BY <1>1, <1>14 DEF Sync, Settle, Scan, DecidePush, DecidePull, DecideMatch,
     DecideBack, DecideNothing, vault, library, shelf, ghosts
<1>15. CASE NextDay(d) \/ DeleteFails(d) \/ Abort(d)
  BY <1>1, <1>15 DEF NextDay, DeleteFails, Abort, vault, library, shelf, ghosts
<1> QED BY <1>3, <1>4, <1>5, <1>6, <1>7, <1>8, <1>9, <1>10, <1>11, <1>12, <1>13,
        <1>14, <1>15 DEF Step, Writer, Push, Pull, Marker, Sync, Settle

\* Whatever is pushed, pulled, merged, archived or deleted, on any number of
\* devices, cut off at any step: the words of the work are only moved, and none
\* leaves a device before it is safe (WordCopies).
THEOREM OnlyMoved == Spec => MovesWords
<1>1. Init => Copies!Init
  <2> SUFFICES ASSUME Init PROVE Copies!Init
    OBVIOUS
  <2>1. hist = <<>> /\ HeadRev = 0
    BY DEF Init, HeadRev
  <2>2. Stored = {} /\ Shelved = {} /\ forfeited = {}
    BY <2>1 DEF Init, Stored, Shelved
  <2>3. PICK d \in Devices, w \in Words :
          text = [e \in Devices |-> IF e = d THEN {w} ELSE {}]
    BY DEF Init
  <2> QED BY <2>2, <2>3 DEF Copies!Init, Safe
<1>2. Inv /\ [Next]_vars => [Copies!Next]_<<text, Safe>>
  <2> SUFFICES ASSUME Inv, [Next]_vars PROVE [Copies!Next]_<<text, Safe>>
    OBVIOUS
  <2>1. CASE UNCHANGED vars
    BY <2>1, SafeSame DEF vars, vault, library, shelf, ghosts
  <2>2. ASSUME NEW d \in Devices, Step(d) PROVE Copies!Next
    <3>1. Safe \subseteq Safe'
      BY <2>2, StepGrows DEF Inv, Grows
    <3>2. CASE Moves(d)
      <4>1. \A e \in Devices \ {d} : text'[e] = text[e]
        BY <2>2, StepLeavesOthers DEF Inv, Untouched
      <4>2. Copies!Move(d)
        BY <3>1, <3>2, <4>1 DEF Moves, Copies!Move
      <4> QED BY <4>2 DEF Copies!Next
    <3>3. ASSUME NEW w \in Words, text' = [text EXCEPT ![d] = @ \cup {w}],
                 Safe' \subseteq Safe \cup {w}
          PROVE  Copies!Next
      <4>1. Copies!Write(d, w)
        BY <3>1, <3>3 DEF Copies!Write
      <4> QED BY <4>1 DEF Copies!Next
    <3> QED BY <2>2, <3>2, <3>3, StepMoves
  <2> QED BY <2>1, <2>2 DEF Next
<1> QED BY <1>1, <1>2, Invariant, PTL DEF Spec, MovesWords, Copies!Spec

-----------------------------------------------------------------------------
(* A link tells the truth, where nobody writes inside a pull. *)

\* A link on a living head has that head's hash, and what the last step of a pull
\* hashes is what the pull brought.
LinkTrue(d) ==
  /\ d \in linked /\ base[d] = HeadRev /\ Alive(HeadRev) => last[d] = Body(HeadRev)
  /\ op[d].pc = "rehash" /\ d \in held /\ ~op[d].merge => text[d] = op[d].words

\* No link put, and the operation not about to hash.
LinkAlone(d) ==
  /\ UNCHANGED <<linked, base, last>>
  /\ op'[d].pc # "rehash" \/ (UNCHANGED <<held, text>> /\ op'[d] = op[d])

LEMMA LinkAloneTrue ==
  ASSUME NEW d \in Devices, LinkTrue(d), LinkAlone(d), hist' = hist PROVE LinkTrue(d)'
  BY DEF LinkTrue, LinkAlone, HeadRev, Alive, Body

\* A link put on revision r, with the hash of a text that is r's, if r is the head.
LEMMA LinkPut ==
  ASSUME TypeOK, NEW d \in Devices, NEW r, NEW h, PutLink(d, r, h), hist' = hist,
         op'[d].pc # "rehash", r = HeadRev /\ Alive(HeadRev) => h = Body(HeadRev)
  PROVE  LinkTrue(d)'
<1>1. base'[d] = r /\ last'[d] = h
  BY DEF PutLink, TypeOK
<1> QED BY <1>1 DEF LinkTrue, HeadRev, Alive, Body

\* The steps of a device that put no link and are not about to hash.
LEMMA OwnLinkAlone ==
  ASSUME TypeOK, NEW d \in Devices,
         \/ QueueDeletion(d) \/ NextDay(d) \/ DeleteFails(d)
         \/ (\E choice \in BOOLEAN : BeginPush(d, choice) \/ BeginPull(d, choice)) \/ Abort(d)
         \/ PushResolve(d) \/ PushRefused(d)
         \/ PullOpen(d) \/ PullCheck(d) \/ PullSnapshot(d)
         \/ Marker(d)
         \/ Scan(d) \/ DecideNothing(d) \/ DecideBack(d)
         \/ DecidePush(d) \/ DecidePull(d)
  PROVE  LinkAlone(d)
<1>0. op[d] \in Operation /\ HeadRev \in Nat
  BY OperationTyped
<1>1. Idle.pc # "rehash"
  BY IdleFields
<1>2. CASE QueueDeletion(d) \/ NextDay(d) \/ DeleteFails(d)
  BY <1>2 DEF QueueDeletion, NextDay, DeleteFails, LinkAlone, vault, library
<1>3. CASE (\E choice \in BOOLEAN : BeginPush(d, choice) \/ BeginPull(d, choice)) \/ Abort(d)
  <2>1. op'[d].pc # "rehash" /\ UNCHANGED <<linked, base, last>>
    <3>1. \A o \in BOOLEAN : Exported(d, o).pc = "resolve"
      BY DEF Exported, Idle
    <3>2. \A b \in BOOLEAN : \A o \in Fetched(FALSE, b) : o.pc = "check"
      BY DEF Fetched, Idle
    <3> QED BY <1>0, <1>1, <1>3, <3>1, <3>2 DEF BeginPush, BeginPull, Begin, Abort, TypeOK, library
  <2> QED BY <2>1 DEF LinkAlone
<1>4. CASE PushResolve(d) \/ PushRefused(d)
  <2>1. op'[d].pc # "rehash" /\ UNCHANGED <<linked, base, last>>
    <3>1. \A p \in {"match", "commit"}, r \in Nat : [op[d] EXCEPT !.pc = p, !.rev = r].pc = p
      BY <1>0 DEF Operation
    <3> QED BY <1>0, <1>1, <1>4, <3>1 DEF PushResolve, PushRefused, TypeOK, library
  <2> QED BY <2>1 DEF LinkAlone
<1>5. CASE PullOpen(d)
  <2>1. op'[d].pc # "rehash" /\ UNCHANGED <<linked, base, last>>
    <3>1. \A o \in Fetched(TRUE, FALSE) : o.pc = "check"
      BY DEF Fetched, Idle
    <3> QED BY <1>0, <1>1, <1>5, <3>1 DEF PullOpen, TypeOK, library
  <2> QED BY <2>1 DEF LinkAlone
<1>6. CASE PullCheck(d)
  <2>1. op'[d].pc # "rehash" /\ UNCHANGED <<linked, base, last>>
    <3>1. \A p \in {"apply", "snapshot"} : [op[d] EXCEPT !.pc = p].pc = p
      BY <1>0 DEF Operation
    <3>2. [op[d] EXCEPT !.pc = "snapshot", !.merge = TRUE].pc = "snapshot"
      BY <1>0 DEF Operation
    <3> QED BY <1>0, <1>1, <1>6, <3>1, <3>2 DEF PullCheck, TypeOK, library
  <2> QED BY <2>1 DEF LinkAlone
<1>7. CASE PullSnapshot(d)
  <2>1. op'[d].pc # "rehash" /\ UNCHANGED <<linked, base, last>>
    BY <1>0, <1>7 DEF PullSnapshot, Goto, TypeOK, library, Operation
  <2> QED BY <2>1 DEF LinkAlone
<1>8. CASE Marker(d)
  <2>1. op'[d].pc # "rehash" /\ UNCHANGED <<linked, base, last>>
    <3>1. \A p \in {"scan"} : [op[d] EXCEPT !.pc = p].pc = p
      BY <1>0 DEF Operation
    <3>2. [Idle EXCEPT !.pc = "marker", !.auto = TRUE, !.rev = HeadRev].pc = "marker"
      BY DEF Idle
    <3> QED BY <1>0, <1>1, <1>8, <3>1, <3>2 DEF Marker, BeginMarker, MarkerCommit, MarkerRefused,
            Begin, TypeOK, library
  <2> QED BY <2>1 DEF LinkAlone
<1>9. CASE Scan(d) \/ DecideNothing(d) \/ DecideBack(d)
  <2>1. op'[d].pc # "rehash" /\ UNCHANGED <<linked, base, last>>
    <3>1. [Idle EXCEPT !.pc = "decide", !.auto = TRUE, !.rev = HeadRev].pc = "decide"
      BY DEF Idle
    <3>2. [Idle EXCEPT !.pc = "open", !.auto = TRUE].pc = "open"
      BY DEF Idle
    <3>3. [op[d] EXCEPT !.pc = "open", !.rev = 0].pc = "open"
      BY <1>0 DEF Operation
    <3>4. Scan(d) => op'[d].pc # "rehash"
      BY <1>0, <1>1, <3>1, <3>2 DEF Scan, TypeOK
    <3>5. DecideBack(d) => op'[d].pc # "rehash"
      <4>1. DecideBack(d) => op'[d] = [op[d] EXCEPT !.pc = "open", !.rev = 0]
        BY <1>0 DEF DecideBack, TypeOK
      <4> QED BY <3>3, <4>1
    <3>6. DecideNothing(d) => op'[d].pc # "rehash"
      BY <1>0, <1>1 DEF DecideNothing, Finish, TypeOK
    <3> QED BY <1>9, <3>4, <3>5, <3>6 DEF Scan, DecideNothing, DecideBack, library
  <2> QED BY <2>1 DEF LinkAlone
<1>10. CASE DecidePush(d) \/ DecidePull(d)
  <2>1. op'[d].pc # "rehash" /\ UNCHANGED <<linked, base, last>>
    <3>1. Exported(d, FALSE).pc = "resolve"
      BY DEF Exported, Idle
    <3>2. [op[d] EXCEPT !.pc = "open", !.rev = 0].pc = "open"
      BY <1>0 DEF Operation
    <3>3. DecidePush(d) => op'[d] = Exported(d, FALSE)
      BY <1>0 DEF DecidePush, TypeOK
    <3>4. DecidePull(d) => op'[d] = [op[d] EXCEPT !.pc = "open", !.rev = 0]
      BY <1>0 DEF DecidePull, TypeOK
    <3> QED BY <1>10, <3>1, <3>2, <3>3, <3>4 DEF DecidePush, DecidePull, library
  <2> QED BY <2>1 DEF LinkAlone
<1> QED BY <1>2, <1>3, <1>4, <1>5, <1>6, <1>7, <1>8, <1>9, <1>10

LEMMA OwnLinkTrue ==
  ASSUME Inv, Racers = {}, NEW d \in Devices, LinkTrue(d), Step(d), hist' = hist
  PROVE  LinkTrue(d)'
<1>0. TypeOK /\ DeviceInv(d) /\ op[d] \in Operation /\ op[d].rev \in 0 .. HeadRev /\ HeadRev \in Nat
  BY OperationTyped DEF Inv
<1>1. Idle.pc # "rehash"
  BY IdleFields
<1>2. CASE LinkAlone(d)
  BY <1>2, LinkAloneTrue
<1>3. CASE \E w \in Words : Write(d, w)
  BY <1>3 DEF Write, Exposed, LinkTrue, HeadRev, Alive, Body, vault
<1>4. CASE DeleteRow(d)
  BY <1>4 DEF DeleteRow, LinkTrue
<1>5. CASE PushMatch(d)
  <2>1. op'[d] = Idle
    BY <1>0, <1>5 DEF PushMatch, Finish, TypeOK
  <2>2. CASE UNCHANGED <<linked, base, last>>
    BY <1>1, <2>1, <2>2, LinkAloneTrue DEF LinkAlone
  <2>3. CASE \E r \in {op[d].rev, HeadRev} :
               Alive(r) /\ Body(r) = op[d].words /\ PutLink(d, op[d].rev, op[d].words)
    BY <1>0, <1>1, <2>1, <2>3, LinkPut
  <2> QED BY <1>5, <2>2, <2>3 DEF PushMatch
<1>6. CASE PushRecord(d)
  <2>1. op'[d] = Idle /\ op[d].words = Body(op[d].rev)
    BY <1>0, <1>6 DEF PushRecord, Finish, TypeOK, DeviceInv, PushSound
  <2>2. CASE UNCHANGED <<linked, base, last>>
    BY <1>1, <2>1, <2>2, LinkAloneTrue DEF LinkAlone
  <2>3. CASE PutLink(d, op[d].rev, op[d].words)
    BY <1>0, <1>1, <2>1, <2>3, LinkPut
  <2> QED BY <1>6, <2>2, <2>3 DEF PushRecord
<1>7. CASE PullApply(d)
  <2>0. op[d].pc = "apply" /\ Pulling(d)
    BY <1>7 DEF PullApply, Pulling
  <2>1. CASE op[d].atHead
    <3> DEFINE o == [op[d] EXCEPT !.pc = "rehash"]
    <3>1. o.pc = "rehash" /\ o.merge = op[d].merge /\ o.words = op[d].words
      BY <1>0 DEF Operation
    <3>2. op'[d] = o
      BY <1>0, <1>7, <2>1 DEF PullApply, TypeOK
    <3> HIDE DEF o
    <3>3. PutLink(d, op[d].rev, op[d].words)
      BY <1>7, <2>1 DEF PullApply
    <3>4. base'[d] = op[d].rev /\ last'[d] = op[d].words
      BY <1>0, <3>3 DEF PutLink, TypeOK
    <3>5. op[d].words = Body(op[d].rev)
      BY <1>0, <2>0, <2>1 DEF DeviceInv, Carried
    <3>6. ~op[d].merge => text'[d] = op[d].words
      BY <1>0, <1>7 DEF PullApply, TypeOK
    <3> QED BY <3>1, <3>2, <3>4, <3>5, <3>6 DEF LinkTrue, HeadRev, Alive, Body
  <2>2. CASE ~op[d].atHead
    <3>1. PICK r \in op[d].rev .. HeadRev : PutLink(d, op[d].rev, Body(r))
      BY <1>7, <2>2 DEF PullApply
    <3>2. op'[d] = Idle
      BY <1>0, <1>7, <2>2 DEF PullApply, TypeOK
    <3>3. op[d].rev = HeadRev => Body(r) = Body(HeadRev)
      BY <1>0, <3>1
    <3> QED BY <1>0, <1>1, <3>1, <3>2, <3>3, LinkPut
  <2> QED BY <2>1, <2>2
<1>8. CASE PullRehash(d)
  <2>1. op'[d] = Idle /\ op[d].pc = "rehash"
    BY <1>0, <1>8 DEF PullRehash, Finish, TypeOK
  <2>2. CASE d \notin held
    <3>1. UNCHANGED <<linked, base, last>>
      BY <1>8, <2>2 DEF PullRehash
    <3> QED BY <1>1, <2>1, <3>1, LinkAloneTrue DEF LinkAlone
  <2>3. CASE d \in held
    <3> DEFINE h == IF op[d].merge THEN op[d].words ELSE text[d]
    <3>1. PutLink(d, op[d].rev, h)
      BY <1>8, <2>3 DEF PullRehash
    <3>2. h = op[d].words
      BY <2>1, <2>3 DEF LinkTrue
    <3>3. op[d].words = Body(op[d].rev)
      BY <1>0, <2>1 DEF DeviceInv, Carried, PullSound, Pulling
    <3> HIDE DEF h
    <3> QED BY <1>0, <1>1, <2>1, <3>1, <3>2, <3>3, LinkPut
  <2> QED BY <2>2, <2>3
<1>9. CASE DecideMatch(d)
  <2>1. op'[d] = Idle /\ PutLink(d, op[d].rev, text[d])
    BY <1>0, <1>9 DEF DecideMatch, Finish, TypeOK
  <2>2. PICK r \in Seen(d) : text[d] = Body(r)
    BY <1>9 DEF DecideMatch, Matches
  <2>3. op[d].rev = HeadRev => r = HeadRev
    BY <1>0, <2>2 DEF Seen
  <2> QED BY <1>0, <1>1, <2>1, <2>2, <2>3, LinkPut
<1>10. CASE DecideArchive(d)
  <2>1. op'[d] = Idle /\ PutLink(d, op[d].rev, text[d])
    BY <1>0, <1>10 DEF DecideArchive, Finish, TypeOK
  <2>2. PICK r \in Seen(d) : ~Alive(r)
    BY <1>10 DEF DecideArchive, IsMarker
  <2>3. op[d].rev = HeadRev => r = HeadRev
    BY <1>0, <2>2 DEF Seen
  <2> QED BY <1>0, <1>1, <2>1, <2>2, <2>3, LinkPut
<1>11. CASE PushCommit(d)
  <2>1. Commit(d, TRUE, op[d].words) /\ op[d].words \in SUBSET Words /\ TRUE \in BOOLEAN
    BY <1>0, <1>11, OperationTyped DEF PushCommit
  <2>2. HeadRev' = HeadRev + 1
    BY <1>0, <2>1, CommitTyped
  <2> QED BY <1>0, <2>2 DEF HeadRev
<1> QED BY <1>0, <1>2, <1>3, <1>4, <1>5, <1>6, <1>7, <1>8, <1>9, <1>10, <1>11, OwnLinkAlone
        DEF Step, Writer, Push, Pull, Sync, Settle

\* A new head leaves no link in step.
LEMMA NewHeadLinkTrue ==
  ASSUME Inv, NEW e \in Devices, PushCommit(e) \/ MarkerCommit(e),
         NEW d \in Devices, LinkTrue(d)
  PROVE  LinkTrue(d)'
<1>0. TypeOK /\ Rows(d) /\ HeadRev \in Nat
  BY OperationTyped DEF Inv, DeviceInv
<1>1. HeadRev' = HeadRev + 1
  <2>1. \E alive \in BOOLEAN, words \in SUBSET Words : Commit(e, alive, words)
    BY <1>0, OperationTyped DEF PushCommit, MarkerCommit
  <2> QED BY <1>0, <2>1, CommitTyped
<1>2. UNCHANGED <<held, text, linked, base, last>>
  BY DEF PushCommit, MarkerCommit, library
<1>3. d \in linked' => base'[d] # HeadRev'
  BY <1>0, <1>1, <1>2 DEF Rows
<1>4. op'[d].pc = "rehash" => op'[d] = op[d]
  <2>1. CASE d # e
    BY <1>0, <2>1 DEF PushCommit, MarkerCommit, TypeOK
  <2>2. CASE d = e
    <3>1. op[d] \in Operation /\ Idle.pc # "rehash"
      BY <1>0, OperationTyped, IdleFields
    <3>2. /\ [op[d] EXCEPT !.pc = "record", !.rev = HeadRev + 1].pc = "record"
          /\ [op[d] EXCEPT !.pc = "scan"].pc = "scan"
      BY <3>1 DEF Operation
    <3>3. op'[d] \in {Idle, [op[d] EXCEPT !.pc = "record", !.rev = HeadRev + 1], [op[d] EXCEPT !.pc = "scan"]}
      BY <1>0, <2>2 DEF PushCommit, MarkerCommit, TypeOK
    <3> QED BY <3>1, <3>2, <3>3
  <2> QED BY <2>1, <2>2
<1> QED BY <1>2, <1>3, <1>4 DEF LinkTrue

\* Where no write falls inside a pull, a work that reads as in step with a living
\* head is that head, word for word (finishPull, recordPushed, matchesHead).
THEOREM LinksTellTheTruth == Racers = {} => (Spec => []InStep)
<1> SUFFICES ASSUME Racers = {} PROVE Spec => []InStep
  OBVIOUS
<1> DEFINE Links == \A d \in Devices : LinkTrue(d)
<1>1. Init => Links
  BY IdleFields DEF Init, LinkTrue
<1>2. Inv /\ Links /\ [Next]_vars => Links'
  <2> SUFFICES ASSUME Inv, Links, [Next]_vars, NEW d \in Devices PROVE LinkTrue(d)'
    OBVIOUS
  <2>1. CASE UNCHANGED vars
    BY <2>1 DEF vars, vault, library, LinkTrue, HeadRev, Alive, Body
  <2>2. ASSUME NEW e \in Devices, Step(e), hist' = hist PROVE LinkTrue(d)'
    <3>1. CASE d = e
      BY <2>2, <3>1, OwnLinkTrue
    <3>2. CASE d # e
      BY <2>2, <3>2, StepLeavesOthers DEF Inv, Untouched, LinkTrue, HeadRev, Alive, Body
    <3> QED BY <3>1, <3>2
  <2>3. ASSUME NEW e \in Devices, Step(e), hist' # hist PROVE LinkTrue(d)'
    <3>1. PushCommit(e) \/ MarkerCommit(e)
      BY <2>3 DEF Step, Writer, Write, QueueDeletion, DeleteRow, BeginPush, BeginPull, Push, PushResolve,
         PushMatch, PushRefused, PushRecord, Pull, PullOpen, PullCheck, PullSnapshot, PullApply,
         PullRehash, Marker, BeginMarker, MarkerRefused, Sync, Settle, Scan, DecidePush, DecidePull,
         DecideMatch, DecideArchive, DecideBack, DecideNothing, NextDay, DeleteFails, Abort, vault
    <3> QED BY <3>1, NewHeadLinkTrue
  <2> QED BY <2>1, <2>2, <2>3 DEF Next
<1>3. Inv /\ Links => InStep
  BY DEF Inv, TypeOK, LinkTrue, InStep
<1> QED BY <1>1, <1>2, <1>3, Invariant, PTL DEF Spec

-----------------------------------------------------------------------------
(* What a link's hash stands for, wherever a write falls. *)

\* What the vault holds, and what was given up.
Sent == Stored \cup forfeited

\* The words a link vouches for are in the vault or were given up, and so are
\* those the last step of a pull hashes.
LinkSent(d) ==
  /\ d \in linked => last[d] \subseteq Sent
  /\ op[d].pc = "rehash" /\ d \in held /\ ~op[d].merge => text[d] \subseteq Sent

LEMMA SentGrows ==
  ASSUME TypeOK, NEW d \in Devices, Step(d)
  PROVE  Sent \subseteq Sent'
<1>1. Stored \subseteq Stored'
  BY StepGrows DEF Grows
<1>2. forfeited \subseteq forfeited'
  BY DEF Step, Writer, Write, QueueDeletion, DeleteRow, BeginPush, BeginPull, Push, PushResolve,
     PushMatch, PushCommit, PushRefused, PushRecord, Pull, PullOpen, PullCheck, PullSnapshot,
     PullApply, PullRehash, Marker, BeginMarker, MarkerCommit, MarkerRefused, Sync, Settle, Scan,
     DecidePush, DecidePull, DecideMatch, DecideArchive, DecideBack, DecideNothing, NextDay,
     DeleteFails, Abort, ghosts
<1> QED BY <1>1, <1>2 DEF Sent

\* A link put with a hash that stands for what was sent.
LEMMA SentPut ==
  ASSUME TypeOK, NEW d \in Devices, NEW r, NEW h, PutLink(d, r, h), h \subseteq Sent',
         op'[d].pc # "rehash"
  PROVE  LinkSent(d)'
<1>1. last'[d] = h
  BY DEF PutLink, TypeOK
<1> QED BY <1>1 DEF LinkSent

LEMMA OwnLinkSent ==
  ASSUME Inv, NEW d \in Devices, LinkSent(d), Step(d)
  PROVE  LinkSent(d)'
<1>0. /\ TypeOK /\ DeviceInv(d) /\ op[d] \in Operation /\ op[d].rev \in 0 .. HeadRev
      /\ HeadRev \in Nat /\ Sent \subseteq Sent'
  BY OperationTyped, SentGrows DEF Inv
<1>1. Idle.pc # "rehash"
  BY IdleFields
<1>2. \A r \in 0 .. HeadRev : Body(r) \subseteq Sent'
  BY <1>0, StoredHolds DEF Sent
<1>3. CASE LinkAlone(d)
  BY <1>0, <1>3 DEF LinkAlone, LinkSent
<1>4. CASE \E w \in Words : Write(d, w)
  <2>1. PICK w \in Words : Write(d, w)
    BY <1>4
  <2>2. UNCHANGED <<held, linked, last, op>> /\ text'[d] = text[d] \cup {w}
    BY <1>0, <2>1 DEF Write, TypeOK
  <2>3. op[d].pc = "rehash" /\ ~op[d].merge => w \in Sent'
    BY <2>1 DEF Write, Exposed, Sent
  <2> QED BY <1>0, <2>2, <2>3 DEF LinkSent
<1>5. CASE DeleteRow(d)
  BY <1>5 DEF DeleteRow, LinkSent
<1>6. CASE PushMatch(d)
  <2>1. op'[d] = Idle
    BY <1>0, <1>6 DEF PushMatch, Finish, TypeOK
  <2>2. CASE UNCHANGED <<linked, base, last>>
    BY <1>0, <1>1, <2>1, <2>2 DEF LinkSent
  <2>3. CASE \E r \in {op[d].rev, HeadRev} :
               Alive(r) /\ Body(r) = op[d].words /\ PutLink(d, op[d].rev, op[d].words)
    <3>1. op[d].words \subseteq Sent'
      BY <1>0, <1>2, <2>3
    <3> QED BY <1>0, <1>1, <2>1, <2>3, <3>1, SentPut
  <2> QED BY <1>6, <2>2, <2>3 DEF PushMatch
<1>7. CASE PushRecord(d)
  <2>1. op'[d] = Idle /\ op[d].words = Body(op[d].rev)
    BY <1>0, <1>7 DEF PushRecord, Finish, TypeOK, DeviceInv, PushSound
  <2>2. CASE UNCHANGED <<linked, base, last>>
    BY <1>0, <1>1, <2>1, <2>2 DEF LinkSent
  <2>3. CASE PutLink(d, op[d].rev, op[d].words)
    BY <1>0, <1>1, <1>2, <2>1, <2>3, SentPut
  <2> QED BY <1>7, <2>2, <2>3 DEF PushRecord
<1>8. CASE PullApply(d)
  <2>0. op[d].pc = "apply" /\ Pulling(d)
    BY <1>8 DEF PullApply, Pulling
  <2>1. op[d].words \subseteq Sent'
    BY <1>0, <2>0 DEF DeviceInv, Carried, Sent
  <2>2. CASE op[d].atHead
    <3> DEFINE o == [op[d] EXCEPT !.pc = "rehash"]
    <3>1. o.pc = "rehash" /\ o.merge = op[d].merge
      BY <1>0 DEF Operation
    <3>2. op'[d] = o
      BY <1>0, <1>8, <2>2 DEF PullApply, TypeOK
    <3> HIDE DEF o
    <3>3. last'[d] = op[d].words
      BY <1>0, <1>8, <2>2 DEF PullApply, PutLink, TypeOK
    <3>4. ~op[d].merge => text'[d] = op[d].words
      BY <1>0, <1>8 DEF PullApply, TypeOK
    <3> QED BY <2>1, <3>1, <3>2, <3>3, <3>4 DEF LinkSent
  <2>3. CASE ~op[d].atHead
    <3>1. PICK r \in op[d].rev .. HeadRev : PutLink(d, op[d].rev, Body(r))
      BY <1>8, <2>3 DEF PullApply
    <3>2. op'[d] = Idle
      BY <1>0, <1>8, <2>3 DEF PullApply, TypeOK
    <3>3. Body(r) \subseteq Sent'
      BY <1>0, <1>2, <3>1
    <3> QED BY <1>0, <1>1, <3>1, <3>2, <3>3, SentPut
  <2> QED BY <2>2, <2>3
<1>9. CASE PullRehash(d)
  <2>1. op'[d] = Idle /\ op[d].pc = "rehash" /\ Pulling(d)
    BY <1>0, <1>9 DEF PullRehash, Finish, TypeOK, Pulling
  <2>2. CASE d \notin held
    <3>1. UNCHANGED <<linked, base, last>>
      BY <1>9, <2>2 DEF PullRehash
    <3> QED BY <1>0, <1>1, <2>1, <3>1 DEF LinkSent
  <2>3. CASE d \in held
    <3> DEFINE h == IF op[d].merge THEN op[d].words ELSE text[d]
    <3>1. PutLink(d, op[d].rev, h)
      BY <1>9, <2>3 DEF PullRehash
    <3>2. h \subseteq Sent'
      BY <1>0, <2>1, <2>3 DEF LinkSent, DeviceInv, Carried, Sent
    <3> HIDE DEF h
    <3> QED BY <1>0, <1>1, <2>1, <3>1, <3>2, SentPut
  <2> QED BY <2>2, <2>3
<1>10. CASE DecideMatch(d)
  <2>1. op'[d] = Idle /\ PutLink(d, op[d].rev, text[d])
    BY <1>0, <1>10 DEF DecideMatch, Finish, TypeOK
  <2>2. PICK r \in Seen(d) : text[d] = Body(r)
    BY <1>10 DEF DecideMatch, Matches
  <2>3. r \in 0 .. HeadRev
    BY <1>0, <2>2 DEF Seen
  <2> QED BY <1>0, <1>1, <1>2, <2>1, <2>2, <2>3, SentPut
<1>11. CASE DecideArchive(d)
  <2>1. op'[d] = Idle /\ PutLink(d, op[d].rev, text[d])
    BY <1>0, <1>11 DEF DecideArchive, Finish, TypeOK
  <2>2. forfeited' = forfeited \cup Unsent(d)
    BY <1>11 DEF DecideArchive
  <2>3. text[d] \subseteq Sent'
    BY <1>0, <2>2 DEF LinkSent, Unsent, Sent
  <2> QED BY <1>0, <1>1, <2>1, <2>3, SentPut
<1>12. CASE PushCommit(d)
  <2>1. UNCHANGED <<held, text, linked, base, last>>
    BY <1>12 DEF PushCommit, library
  <2>2. op'[d].pc # "rehash"
    <3>1. [op[d] EXCEPT !.pc = "record", !.rev = HeadRev + 1].pc = "record"
      BY <1>0 DEF Operation
    <3> QED BY <1>0, <1>1, <1>12, <3>1 DEF PushCommit, TypeOK
  <2> QED BY <1>0, <2>1, <2>2 DEF LinkSent
<1> QED BY <1>0, <1>3, <1>4, <1>5, <1>6, <1>7, <1>8, <1>9, <1>10, <1>11, <1>12, OwnLinkAlone
        DEF Step, Writer, Push, Pull, Sync, Settle

\* What a check lets pass without the writer's word, the vault has.
Spared(d) ==
  /\ op[d].pc = "check" /\ op[d]'.pc = "snapshot" /\ d \in held
  /\ ~op[d].decided /\ ~op[d]'.merge
  => text[d] \subseteq Sent

LEMMA CheckSpares ==
  ASSUME Inv, NEW d \in Devices, LinkSent(d), PullCheck(d)
  PROVE  Spared(d)
<1>0. TypeOK /\ DeviceInv(d) /\ op[d] \in Operation
  BY OperationTyped DEF Inv
<1> SUFFICES ASSUME op[d].pc = "check", op'[d].pc = "snapshot", d \in held,
                    ~op[d].decided, ~op'[d].merge
             PROVE  text[d] \subseteq Sent
  BY DEF Spared
<1>1. Acceptable(d)
  <2>1. [op[d] EXCEPT !.pc = "snapshot", !.merge = TRUE].merge = TRUE
    BY <1>0 DEF Operation
  <2>2. Idle.pc # "snapshot"
    BY IdleFields
  <2> QED BY <1>0, <2>1, <2>2 DEF PullCheck, TypeOK
<1>2. op[d].words \subseteq Sent
  BY <1>0 DEF DeviceInv, Carried, Pulling, Sent
<1> QED BY <1>1, <1>2 DEF Acceptable, Changed, LinkSent

LEMMA OthersSpare ==
  ASSUME TypeOK, NEW d \in Devices, Step(d), ~PullCheck(d)
  PROVE  Spared(d)
<1>1. Idle.pc = "idle"
  BY IdleFields
<1>2. op[d].pc = "check" => op'[d] = op[d] \/ op'[d] = Idle
  <2>1. CASE Writer(d)
    BY <1>1, <2>1 DEF Writer, Write, QueueDeletion, DeleteRow, BeginPush, BeginPull, Begin
  <2>2. CASE Push(d) \/ Marker(d)
    BY <1>1, <2>2 DEF Push, PushResolve, PushMatch, PushCommit, PushRefused, PushRecord, Marker,
       BeginMarker, MarkerCommit, MarkerRefused, Begin, Finish
  <2>3. CASE Pull(d) \/ Sync(d)
    BY <1>1, <2>3 DEF Pull, PullOpen, PullSnapshot, PullApply, PullRehash, Sync, Settle, Scan,
       DecidePush, DecidePull, DecideMatch, DecideArchive, DecideBack, DecideNothing, Goto, Finish
  <2>4. CASE NextDay(d) \/ DeleteFails(d) \/ Abort(d)
    BY <2>4 DEF NextDay, DeleteFails, Abort, TypeOK
  <2> QED BY <2>1, <2>2, <2>3, <2>4 DEF Step
<1> QED BY <1>1, <1>2 DEF Spared

\* Without the writer's word a pull replaces nothing but text the vault has or that
\* was given up, wherever writes, deletions and stops fall (refuseIfChanged).
THEOREM PullsSpare == Spec => PullSparesUnsent
<1> DEFINE Links == \A d \in Devices : LinkSent(d)
<1>1. Init => Links
  BY IdleFields DEF Init, LinkSent
<1>2. Inv /\ Links /\ [Next]_vars => Links'
  <2> SUFFICES ASSUME Inv, Links, [Next]_vars, NEW d \in Devices PROVE LinkSent(d)'
    OBVIOUS
  <2>1. CASE UNCHANGED vars
    BY <2>1 DEF vars, vault, library, ghosts, LinkSent, Sent, Stored, HeadRev, Body
  <2>2. ASSUME NEW e \in Devices, Step(e) PROVE LinkSent(d)'
    <3>1. CASE d = e
      BY <2>2, <3>1, OwnLinkSent
    <3>2. CASE d # e
      BY <2>2, <3>2, StepLeavesOthers, SentGrows DEF Inv, Untouched, LinkSent
    <3> QED BY <3>1, <3>2
  <2> QED BY <2>1, <2>2 DEF Next
<1>3. Inv /\ Links /\ [Next]_vars =>
        [\A d \in Devices :
           /\ op[d].pc = "check" /\ op[d]'.pc = "snapshot" /\ d \in held
           /\ ~op[d].decided /\ ~op[d]'.merge
           => text[d] \subseteq Stored \cup forfeited]_vars
  <2> SUFFICES ASSUME Inv, Links, NEW e \in Devices, Step(e), NEW d \in Devices PROVE Spared(d)
    BY DEF Next, Spared, Sent
  <2>1. CASE d # e
    BY <2>1, StepLeavesOthers DEF Inv, Untouched, Spared
  <2>2. CASE d = e
    BY <2>2, CheckSpares, OthersSpare DEF Inv
  <2> QED BY <2>1, <2>2
<1> QED BY <1>1, <1>2, <1>3, Invariant, PTL DEF Spec, PullSparesUnsent

=============================================================================
