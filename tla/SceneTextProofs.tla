--------------------------- MODULE SceneTextProofs ---------------------------
(***************************************************************************)
(* What holds of a scene for any words, requests and queues: its types,    *)
(* that a summary shown as fresh is one, and that no word is lost; and of  *)
(* what is merged as scenes are, the library item, for any devices, parts  *)
(* and texts (MCItem).                                                     *)
(***************************************************************************)
EXTENDS SceneText, MCItem, FiniteSetTheorems, TLAPS

\* Nobody holds a version the scene has not had yet.
NoneAhead ==
    /\ editor.base <= ver /\ late.base <= ver
    /\ \A i \in DOMAIN saves : saves[i].doc.base <= ver
    /\ sum.for <= ver
    /\ \A s \in Summarizers : reading[s].ver <= ver
    /\ \A c \in Calls : call[c].ver <= ver

\* What was read at the version of the moment is the text of the moment.
ReadsTrue ==
    /\ \A s \in Summarizers :
          reading[s] # NoRead /\ reading[s].ver = ver => reading[s].text = text
    /\ sum.body # NoBody /\ sum.for = ver /\ ~sum.written => sum.body.of = text
    /\ reload # NoRead /\ reload.ver = ver => reload.text = text

\* A document made from the version of the moment has all its words, ...
DocsHold ==
    /\ editor.base = ver => text \subseteq editor.text
    /\ late # NoDoc /\ late.base = ver => text \subseteq late.text
    /\ \A i \in DOMAIN saves :
          saves[i].doc.base = ver => text \subseteq saves[i].doc.text

\* ... and all the words of the documents made from it before, on that mount.
DocsGrow ==
    /\ \A i, j \in DOMAIN saves :
          /\ i < j /\ saves[i].doc.shown /\ saves[j].doc.shown
          /\ saves[i].doc.base = saves[j].doc.base
          => saves[i].doc.text \subseteq saves[j].doc.text
    /\ \A i \in DOMAIN saves :
          /\ saves[i].doc.shown
          => /\ late.shown /\ late.base = saves[i].doc.base
                => saves[i].doc.text \subseteq late.text
             /\ editor.base = saves[i].doc.base
                => saves[i].doc.text \subseteq editor.text
    /\ late.shown /\ late.base = editor.base => late.text \subseteq editor.text

\* A request about to write the version it named has kept what it replaces.
CallsKeep ==
    \A c \in Calls :
        call[c].ver = ver /\ call[c].pc = "write" =>
            /\ call[c].kind \in {"write", "revise", "restore"} => text \in snaps
            /\ call[c].kind = "relink" => call[c].text = text

Inv == TypeOK /\ NoneAhead /\ ReadsTrue /\ DocsHold /\ DocsGrow /\ CallsKeep

-----------------------------------------------------------------------------
(* Types. *)

LEMMA Constants ==
    /\ NoText \notin Text /\ {} \in Text /\ {Old} \in Text
    /\ NoRead \notin ReadType /\ NoDoc \notin DocType /\ NoBody \in BodyType
    /\ Idle \in CallType /\ MaxMoves \in Nat /\ QueueSize \in Nat
<1>1. NoText \notin Text
  BY SceneAssumption DEF NoText, Text
<1> QED
  BY <1>1, SceneAssumption DEF Text, NoText, NoRead, ReadType, NoDoc, DocType,
     NoBody, BodyType, Idle, CallType, Kinds

\* A sequence with each of its saves replaced by another.
LEMMA SavesMapped ==
  ASSUME NEW S, NEW s \in Seq(S), NEW f,
         f = [i \in DOMAIN s |-> f[i]], \A i \in DOMAIN s : f[i] \in S
  PROVE  f \in Seq(S) /\ DOMAIN f = DOMAIN s /\ Len(f) = Len(s)
<1>1. DOMAIN s = 1 .. Len(s) /\ Len(s) \in Nat
  OBVIOUS
<1>2. f \in [1 .. Len(s) -> S]
  BY <1>1
<1> QED BY <1>1, <1>2

LEMMA HeadTyped ==
  ASSUME TypeOK, saves # <<>>
  PROVE  /\ Head(saves) \in SaveType /\ Head(saves) = saves[1]
         /\ 1 \in DOMAIN saves /\ Tail(saves) \in Seq(SaveType)
         /\ DOMAIN Tail(saves) = 1 .. Len(saves) - 1
         /\ \A i \in DOMAIN Tail(saves) :
               i + 1 \in DOMAIN saves /\ Tail(saves)[i] = saves[i + 1]
  BY DEF TypeOK

\* A write leaves what is read behind, not ahead.
LEMMA ReloadTyped ==
  ASSUME TypeOK
  PROVE  reload.ver \in Nat /\ reload.ver <= ver /\ reload.ver <= ver + 1
<1>1. reload \in ReadType \cup {NoRead} /\ ver \in Nat /\ reload.ver <= ver
  BY DEF TypeOK
<1>2. reload.ver \in Nat
  BY <1>1 DEF ReadType, NoRead
<1> QED BY <1>1, <1>2

LEMMA DocTyped ==
  ASSUME NEW t \in Text, NEW v \in Nat
  PROVE  Doc(t, v) \in DocType
  BY DEF Doc, DocType

LEMMA WriteTyped ==
  ASSUME TypeOK, NEW t \in Text,
         NEW who \in {"editor", "agent", "revise", "restore", "relink"},
         WriteText(t, who)
  PROVE  text' \in Text /\ ver' \in Nat /\ ver' = ver + 1
         /\ by' \in {"editor", "agent", "revise", "restore", "relink"}
  BY DEF TypeOK, WriteText

LEMMA SummaryTyped ==
  ASSUME NEW body \in BodyType, NEW v \in Nat, NEW w \in BOOLEAN,
         SetSummary(body, v, w)
  PROVE  sum' \in [body : BodyType, for : Nat, written : BOOLEAN]
  BY DEF SetSummary

LEMMA CallTyped ==
  ASSUME TypeOK, NEW c \in Calls, NEW r \in CallType, call' = [call EXCEPT ![c] = r]
  PROVE  call' \in [Calls -> CallType]
  BY DEF TypeOK

LEMMA EndTyped ==
  ASSUME TypeOK, NEW c \in Calls, End(c)
  PROVE  call' \in [Calls -> CallType]
  BY Constants, CallTyped DEF End

LEMMA GoesTyped ==
  ASSUME TypeOK, NEW c \in Calls,
         NEW pc \in {"snapshot", "look", "write", "show", "get", "sum"}, Goes(c, pc)
  PROVE  call' \in [Calls -> CallType]
  BY DEF TypeOK, Goes, CallType

LEMMA StartTyped ==
  ASSUME TypeOK, NEW c \in Calls, NEW kind \in Kinds,
         NEW pc \in {"snapshot", "look", "write", "check"},
         NEW t \in Text, NEW s \in BodyType, Start(c, kind, pc, t, s)
  PROVE  /\ call' \in [Calls -> CallType]
         /\ used' \in UsedType
<1>1. [kind |-> kind, pc |-> pc, text |-> t, ver |-> ver, sum |-> s] \in CallType
  BY DEF TypeOK, CallType
<1>2. call' \in [Calls -> CallType]
  BY <1>1, CallTyped DEF Start
<1>3. used \in UsedType /\ used' = [used EXCEPT !.moves = @ + 1]
  BY DEF TypeOK, Start
<1>4. used' \in UsedType
  BY <1>3 DEF UsedType
<1> QED BY <1>2, <1>4

LEMMA SeedTyped ==
  ASSUME TypeOK, NEW v \in 0 .. ver, Seed(v)
  PROVE  expects' \in 0 .. ver
  BY DEF TypeOK, Seed

LEMMA FollowsTyped ==
  ASSUME TypeOK, saves # <<>>
  PROVE  /\ \A d \in DocType : Follows(d) \in DocType
         /\ Follows(NoDoc) = NoDoc
         /\ Follows(editor) \in EditorType
<1>1. ver \in Nat /\ editor \in EditorType
  BY DEF TypeOK
<1>2. \A d \in DocType : [d EXCEPT !.base = ver + 1] \in DocType
  BY <1>1 DEF DocType
<1>3. [editor EXCEPT !.base = ver + 1] \in EditorType
  BY <1>1 DEF EditorType
<1> QED BY <1>1, <1>2, <1>3 DEF Follows, NoDoc

LEMMA MountTyped ==
  ASSUME TypeOK, NEW t \in Text, NEW v \in 0 .. ver, Mount(t, v)
  PROVE  /\ saves' \in Seq(SaveType) /\ DOMAIN saves' = DOMAIN saves
         /\ editor' \in EditorType
         /\ expects' \in 0 .. ver
<1>1. saves \in Seq(SaveType) /\ saves' = [i \in DOMAIN saves |-> [saves[i] EXCEPT !.doc.shown = FALSE]]
  BY DEF TypeOK, Mount
<1>2. \A i \in DOMAIN saves : saves'[i] \in SaveType
  <2> SUFFICES ASSUME NEW i \in DOMAIN saves PROVE saves'[i] \in SaveType
    OBVIOUS
  <2>1. saves[i] \in SaveType
    BY <1>1
  <2> QED BY <1>1, <2>1 DEF SaveType, DocType
<1>3. saves' = [i \in DOMAIN saves |-> saves'[i]]
  BY <1>1
<1>4. saves' \in Seq(SaveType) /\ DOMAIN saves' = DOMAIN saves
  BY <1>1, <1>2, <1>3, SavesMapped
<1>5. editor' \in EditorType
  <2>1. editor \in EditorType /\ v \in Nat /\ editor' = [editor EXCEPT !.text = t, !.base = v]
    BY DEF TypeOK, Mount
  <2> QED BY <2>1 DEF EditorType
<1>6. expects' \in 0 .. ver
  BY SeedTyped DEF Mount
<1> QED BY <1>4, <1>5, <1>6

LEMMA EnqueueTyped ==
  ASSUME TypeOK, Enqueue
  PROVE  queue' \in QueueType
<1>1. queue \in [line : Seq({"this", "other"}), lost : BOOLEAN] /\ Len(queue.line) <= QueueSize
  BY DEF TypeOK, QueueType
<1>2. CASE Len(queue.line) < QueueSize
  <2>1. queue' = [line |-> Append(queue.line, "this"), lost |-> FALSE]
    BY <1>2 DEF Enqueue
  <2>2. Append(queue.line, "this") \in Seq({"this", "other"})
    BY <1>1
  <2>3. Len(Append(queue.line, "this")) = Len(queue.line) + 1
    BY <1>1
  <2> QED BY <1>1, <1>2, <2>1, <2>2, <2>3, SceneAssumption DEF QueueType
<1>3. CASE ~(Len(queue.line) < QueueSize)
  <2>1. queue' = [queue EXCEPT !.lost = @ \/ "this" \notin Range(queue.line)]
    BY <1>3 DEF Enqueue
  <2>2. queue'.line = queue.line /\ queue' \in [line : Seq({"this", "other"}), lost : BOOLEAN]
    BY <1>1, <2>1
  <2> QED BY <1>1, <2>2 DEF QueueType
<1> QED BY <1>2, <1>3

\* A turn taken out of the queue leaves a queue.
LEMMA TurnTyped ==
  ASSUME TypeOK, queue.line # <<>>, queue' = [queue EXCEPT !.line = Tail(@)]
  PROVE  queue' \in QueueType
<1>1. queue \in [line : Seq({"this", "other"}), lost : BOOLEAN] /\ Len(queue.line) <= QueueSize
  BY DEF TypeOK, QueueType
<1>2. Tail(queue.line) \in Seq({"this", "other"}) /\ Len(Tail(queue.line)) <= Len(queue.line)
  BY <1>1
<1>3. queue' \in [line : Seq({"this", "other"}), lost : BOOLEAN] /\ queue'.line = Tail(queue.line)
  BY <1>1, <1>2
<1> QED BY <1>1, <1>2, <1>3, SceneAssumption DEF QueueType

\* Other scenes' turns, and one that fails, keep the types and nothing else
\* that is remembered of the scene.
LEMMA QueueSteps ==
  ASSUME TypeOK, OthersEnqueue \/ ServesOther \/ SumFails
  PROVE  /\ TypeOK'
         /\ UNCHANGED <<row, sum, snaps, window, call, used>>
         /\ \A s \in Summarizers : reading'[s] = reading[s] \/ reading'[s] = NoRead
<1>1. queue \in [line : Seq({"this", "other"}), lost : BOOLEAN] /\ Len(queue.line) <= QueueSize
  BY DEF TypeOK, QueueType
<1>2. UNCHANGED <<row, sum, snaps, window, call, used>>
  BY DEF OthersEnqueue, ServesOther, SumFails
<1>3. CASE OthersEnqueue
  <2>1. /\ Append(queue.line, "other") \in Seq({"this", "other"})
        /\ Len(Append(queue.line, "other")) = Len(queue.line) + 1
    BY <1>1
  <2>2. queue' \in [line : Seq({"this", "other"}), lost : BOOLEAN] /\ queue'.line = Append(queue.line, "other")
    BY <1>1, <1>3, <2>1 DEF OthersEnqueue
  <2>3. queue' \in QueueType
    BY <1>1, <1>3, <2>1, <2>2, SceneAssumption DEF OthersEnqueue, QueueType
  <2> QED BY <1>2, <1>3, <2>3 DEF OthersEnqueue, TypeOK, row, window
<1>4. CASE ServesOther
  <2>1. queue' \in QueueType
    BY <1>4, TurnTyped DEF ServesOther
  <2> QED BY <1>2, <1>4, <2>1 DEF ServesOther, TypeOK, row, window
<1>5. CASE SumFails
  <2>1. queue' \in [line : Seq({"this", "other"}), lost : BOOLEAN] /\ queue'.line = queue.line
    BY <1>1, <1>5 DEF SumFails
  <2>2. queue' \in QueueType
    BY <1>1, <2>1 DEF QueueType
  <2>3. /\ reading' \in [Summarizers -> ReadType \cup {NoRead}]
        /\ \A s \in Summarizers : reading'[s] = reading[s] \/ reading'[s] = NoRead
    BY <1>5 DEF SumFails, TypeOK
  <2> QED BY <1>2, <2>2, <2>3 DEF TypeOK, row, window
<1> QED BY <1>3, <1>4, <1>5

\* Appending, putting aside and changing saves.
LEMMA SavesTyped ==
  ASSUME TypeOK
  PROVE  /\ \A d \in DocType :
              Append(saves, [doc |-> d, pc |-> "waits", names |-> 0, covers |-> TRUE])
                \in Seq(SaveType)
         /\ [i \in DOMAIN saves |-> [saves[i] EXCEPT !.covers = FALSE]] \in Seq(SaveType)
<1>1. saves \in Seq(SaveType) /\ \A i \in DOMAIN saves : saves[i] \in SaveType
  BY DEF TypeOK
<1>2. \A d \in DocType :
        [doc |-> d, pc |-> "waits", names |-> 0, covers |-> TRUE] \in SaveType
  BY DEF SaveType
<1>3. \A i \in DOMAIN saves : [saves[i] EXCEPT !.covers = FALSE] \in SaveType
  BY <1>1 DEF SaveType
<1>4. \A d \in DocType :
        Append(saves, [doc |-> d, pc |-> "waits", names |-> 0, covers |-> TRUE])
          \in Seq(SaveType)
  <2> SUFFICES ASSUME NEW x \in SaveType PROVE Append(saves, x) \in Seq(SaveType)
    BY <1>2
  <2> QED BY <1>1
<1>5. [i \in DOMAIN saves |-> [saves[i] EXCEPT !.covers = FALSE]] \in Seq(SaveType)
  BY <1>1, <1>3, SavesMapped
<1> QED BY <1>4, <1>5

LEMMA EditorTypes == ASSUME TypeOK, Editor PROVE TypeOK'
<1> USE DEF row, window
<1>1. CASE Type
  <2>1. PICK w \in Words :
          /\ editor' = [editor EXCEPT !.text = @ \cup {w}, !.dirty = TRUE]
          /\ late' = Doc(editor.text \cup {w}, editor.base)
          /\ used' = [used EXCEPT !.words = @ \cup {w}, !.moves = @ + 1]
    BY <1>1 DEF Type, Unused
  <2>2. editor \in EditorType /\ used \in UsedType
    BY DEF TypeOK
  <2>3. editor.text \cup {w} \in Text
    BY <2>2 DEF EditorType, Text
  <2>4. editor' \in EditorType /\ late' \in DocType
    BY <2>1, <2>2, <2>3, DocTyped DEF EditorType
  <2>5. used' \in UsedType
    <3>1. used.words \cup {w} \in SUBSET Words /\ used.moves + 1 \in Nat
      BY <2>2 DEF UsedType
    <3> QED BY <2>1, <2>2, <3>1 DEF UsedType
  <2>6. saves' \in Seq(SaveType)
    BY <1>1, SavesTyped DEF Type
  <2> QED BY <1>1, <2>4, <2>5, <2>6 DEF Type, TypeOK
<1>2. CASE Fire
  <2>1. saves' \in Seq(SaveType)
    BY <1>2, SavesTyped DEF Fire, TypeOK
  <2> QED BY <1>2, <2>1, Constants DEF Fire, TypeOK
<1>3. CASE Send
  <2>1. saves' \in Seq(SaveType)
    <3>1. saves \in Seq(SaveType) /\ saves[1] \in SaveType /\ expects \in Nat
      BY <1>3, HeadTyped DEF Send, TypeOK
    <3>2. [saves[1] EXCEPT !.pc = "sent", !.names = expects] \in SaveType
      BY <3>1 DEF SaveType
    <3>3. saves' = [saves EXCEPT ![1] = [saves[1] EXCEPT !.pc = "sent", !.names = expects]]
      BY <1>3 DEF Send
    <3> QED BY <1>3, <3>1, <3>2, <3>3, HeadTyped DEF Send
  <2> QED BY <1>3, <2>1 DEF Send, TypeOK
<1>4. CASE SaveCommits
  <2>1. Head(saves).doc.text \in Text
    BY <1>4, HeadTyped DEF SaveCommits, SaveType, DocType
  <2>2. text' \in Text /\ ver' \in Nat /\ ver' = ver + 1 /\ by' = "editor"
    BY <1>4, <2>1, WriteTyped DEF SaveCommits, WriteText
  <2>3. editor' \in EditorType /\ late' \in DocType \cup {NoDoc}
    BY <1>4, FollowsTyped DEF SaveCommits, TypeOK
  <2>4. saves' \in Seq(SaveType)
    <3>1. \A i \in DOMAIN saves : saves'[i] \in SaveType
      <4> SUFFICES ASSUME NEW i \in DOMAIN saves PROVE saves'[i] \in SaveType
        OBVIOUS
      <4>1. saves[i] \in SaveType /\ saves[1] \in SaveType
        BY <1>4, HeadTyped DEF SaveCommits, TypeOK
      <4>2. Follows(saves[i].doc) \in DocType
        BY <1>4, <4>1, FollowsTyped DEF SaveCommits, SaveType
      <4> QED BY <1>4, <4>1, <4>2 DEF SaveCommits, SaveType
    <3>2. saves' = [i \in DOMAIN saves |-> saves'[i]]
      BY <1>4 DEF SaveCommits
    <3>3. saves \in Seq(SaveType)
      BY DEF TypeOK
    <3> QED BY <3>1, <3>2, <3>3, SavesMapped
  <2>5. expects' \in 0 .. ver'
    BY <1>4, <2>2 DEF SaveCommits, TypeOK
  <2>6. reload' \in ReadType \cup {NoRead} /\ reload'.ver <= ver'
    BY <1>4, <2>2, ReloadTyped DEF SaveCommits, TypeOK
  <2> QED BY <1>4, <2>2, <2>3, <2>4, <2>5, <2>6 DEF SaveCommits, TypeOK
<1>5. CASE SaveRefused
  BY <1>5, HeadTyped DEF SaveRefused, TypeOK
<1>6. CASE SaveAnswered
  <2>1. expects' \in 0 .. ver
    BY <1>6, SeedTyped DEF SaveAnswered, TypeOK
  <2>2. queue' \in QueueType
    BY <1>6, EnqueueTyped DEF SaveAnswered
  <2>3. editor' \in EditorType
    BY <1>6 DEF SaveAnswered, TypeOK, EditorType
  <2> QED BY <1>6, <2>1, <2>2, <2>3, HeadTyped DEF SaveAnswered, TypeOK
<1>7. CASE Hear \/ Answer
  <2>1. [text |-> text, ver |-> ver] \in ReadType
    BY DEF TypeOK, ReadType
  <2> QED BY <1>7, <2>1 DEF Hear, Answer, TypeOK
<1>8. CASE Reloaded
  <2>1. reload \in ReadType /\ reload.text \in Text /\ reload.ver \in 0 .. ver
    BY <1>8 DEF Reloaded, TypeOK, ReadType
  <2>2. /\ saves' \in Seq(SaveType) /\ editor' \in EditorType
        /\ expects' \in 0 .. ver
    BY <1>8, <2>1, MountTyped DEF Reloaded
  <2>3. late' \in DocType \cup {NoDoc}
    <3>1. late \in DocType \cup {NoDoc}
      BY DEF TypeOK
    <3> QED BY <1>8, <3>1 DEF Reloaded, DocType
  <2> QED BY <1>8, <2>2, <2>3 DEF Reloaded, TypeOK, NoRead
<1> QED BY <1>1, <1>2, <1>3, <1>4, <1>5, <1>6, <1>7, <1>8 DEF Editor

LEMMA RequestTypes ==
  ASSUME TypeOK, NEW c \in Calls, Request(c)
  PROVE  TypeOK'
<1> USE DEF row, window
<1>1. text \in Text /\ call[c] \in CallType /\ ver \in Nat
  BY DEF TypeOK
<1>2. ASSUME AgentReads(c) \/ RelinkLists(c) \/ SummaryReads(c) \/ Plans(c)
      PROVE  TypeOK'
  <2>1. /\ call' \in [Calls -> CallType]
        /\ used' \in UsedType
    <3>1. sum.body \in BodyType
      BY DEF TypeOK
    <3> QED
      BY <1>1, <1>2, <3>1, StartTyped, Constants
      DEF AgentReads, RelinkLists, SummaryReads, Plans, Kinds, Versioned, Unversioned
  <2> QED BY <1>2, <2>1 DEF AgentReads, RelinkLists, SummaryReads, Plans, TypeOK
<1>3. ASSUME RestoreReads(c) PROVE TypeOK'
  <2>1. PICK old \in snaps : Start(c, "restore", "write", old, NoBody)
    BY <1>3 DEF RestoreReads
  <2>2. old \in Text
    BY DEF TypeOK
  <2>3. call' \in [Calls -> CallType] /\ used' \in UsedType
    BY <2>1, <2>2, StartTyped, Constants DEF Kinds, Unversioned
  <2> QED BY <1>1, <1>3, <2>3 DEF RestoreReads, KeepText, TypeOK
<1>4. ASSUME AgentSnapshots(c) PROVE TypeOK'
  BY <1>1, <1>4, GoesTyped DEF AgentSnapshots, KeepText, TypeOK
<1>5. ASSUME AgentWrites(c) PROVE TypeOK'
  <2>1. call' \in [Calls -> CallType]
    BY <1>5, EndTyped DEF AgentWrites
  <2>2. CASE call[c].ver # ver /\ UNCHANGED <<row, used, queue, notice>>
    BY <1>5, <2>1, <2>2 DEF AgentWrites, TypeOK
  <2>3. ASSUME NEW w \in Words, NEW kept \in {call[c].text, {}},
               WriteText(kept \cup {w}, "agent"),
               used' = [used EXCEPT !.words = @ \cup {w}],
               Enqueue, notice' = "event"
        PROVE  TypeOK'
    <3>1. kept \cup {w} \in Text
      BY <1>1 DEF CallType, Text
    <3>2. text' \in Text /\ ver' = ver + 1 /\ by' = "agent"
      BY <2>3, <3>1 DEF WriteText
    <3>3. used' \in UsedType
      <4>1. used.words \cup {w} \in SUBSET Words
        BY DEF TypeOK, UsedType
      <4> QED BY <2>3, <4>1 DEF TypeOK, UsedType
    <3>4. queue' \in QueueType
      BY <2>3, EnqueueTyped
    <3>5. reload'.ver <= ver'
      BY <1>5, <3>2, ReloadTyped DEF AgentWrites
    <3>6. expects' \in 0 .. ver'
      BY <1>1, <1>5, <3>2 DEF AgentWrites, TypeOK
    <3>7. ver' \in Nat
      BY <1>1, <3>2
    <3> QED BY <1>5, <2>1, <2>3, <3>2, <3>3, <3>4, <3>5, <3>6, <3>7
            DEF AgentWrites, TypeOK
  <2> QED BY <1>5, <2>2, <2>3 DEF AgentWrites, Unused
<1>6. ASSUME ReplaceLooks(c) PROVE TypeOK'
  <2>1. [call[c] EXCEPT !.pc = "write", !.text = text] \in CallType
    BY <1>1 DEF CallType
  <2>2. call' \in [Calls -> CallType]
    BY <1>1, <1>6, <2>1, EndTyped DEF ReplaceLooks, TypeOK
  <2> QED BY <1>1, <1>6, <2>2 DEF ReplaceLooks, KeepText, TypeOK
<1>7. ASSUME ReplaceWrites(c) \/ RestoreWrites(c) \/ RelinkWrites(c) PROVE TypeOK'
  <2>1. call' \in [Calls -> CallType]
    BY <1>7, EndTyped, GoesTyped DEF ReplaceWrites, RestoreWrites, RelinkWrites
  <2>2. call[c].text \in Text /\ (call[c].text \ {Old}) \cup {New} \in Text
    BY <1>1 DEF CallType, Text
  <2>3. \/ UNCHANGED row
        \/ /\ text' \in Text /\ ver' = ver + 1
           /\ by' \in {"agent", "revise", "restore", "relink"}
    BY <1>7, <2>2 DEF ReplaceWrites, RestoreWrites, RelinkWrites, WriteText
  <2>4. UNCHANGED <<sum, snaps, editor, late, saves, expects, reload, reading, used>>
    BY <1>7 DEF ReplaceWrites, RestoreWrites, RelinkWrites, window
  <2>5. queue' \in QueueType /\ notice' \in {"none", "event", "banner"}
    BY <1>1, <1>7, EnqueueTyped DEF ReplaceWrites, RestoreWrites, RelinkWrites, window,
       TypeOK
  <2>6. reload'.ver <= ver' /\ expects' \in 0 .. ver' /\ ver' \in Nat
    BY <1>1, <2>3, <2>4, ReloadTyped DEF TypeOK
  <2> QED BY <2>1, <2>3, <2>4, <2>5, <2>6 DEF TypeOK
<1>8. ASSUME RestoreShown(c) PROVE TypeOK'
  <2>1. /\ saves' \in Seq(SaveType) /\ editor' \in EditorType
        /\ expects' \in 0 .. ver
    BY <1>1, <1>8, MountTyped DEF RestoreShown
  <2>2. call' \in [Calls -> CallType]
    BY <1>8, EndTyped DEF RestoreShown
  <2> QED BY <1>8, <2>1, <2>2 DEF RestoreShown, TypeOK
<1>9. ASSUME RelinkGets(c) PROVE TypeOK'
  <2>1. [call[c] EXCEPT !.pc = "sum", !.ver = ver] \in CallType
    BY <1>1 DEF CallType
  <2> QED BY <1>9, <2>1 DEF RelinkGets, TypeOK
<1>10. ASSUME RelinkSums(c) \/ SummaryWrites(c) PROVE TypeOK'
  <2>1. call[c].sum \in BodyType /\ Body("agent", call[c].text) \in BodyType
        /\ call[c].ver \in Nat
    BY <1>1 DEF CallType, Body, BodyType
  <2>2. sum' \in [body : BodyType, for : Nat, written : BOOLEAN]
    BY <1>10, <2>1, SummaryTyped DEF RelinkSums, SummaryWrites
  <2>3. call' \in [Calls -> CallType]
    BY <1>10, EndTyped DEF RelinkSums, SummaryWrites
  <2> QED BY <1>10, <2>2, <2>3 DEF RelinkSums, SummaryWrites, TypeOK
<1>11. ASSUME SummaryChecked(c) PROVE TypeOK'
  <2>1. call' \in [Calls -> CallType]
    BY <1>11, EndTyped, GoesTyped DEF SummaryChecked
  <2> QED BY <1>11, <2>1 DEF SummaryChecked, TypeOK
<1> QED
  BY <1>2, <1>3, <1>4, <1>5, <1>6, <1>7, <1>8, <1>9, <1>10, <1>11 DEF Request

LEMMA SummarizerTypes ==
  ASSUME TypeOK, NEW s \in Summarizers, Summarizer(s)
  PROVE  TypeOK'
<1> USE DEF row, window
<1>1. reading \in [Summarizers -> ReadType \cup {NoRead}] /\ text \in Text /\ ver \in Nat
  BY DEF TypeOK
<1>2. CASE Takes(s)
  <2>1. [text |-> text, ver |-> ver] \in ReadType
    BY <1>1 DEF ReadType
  <2>2. reading' \in [Summarizers -> ReadType \cup {NoRead}]
    BY <1>1, <1>2, <2>1 DEF Takes
  <2>3. queue' \in QueueType
    BY <1>2, TurnTyped DEF Takes, TypeOK
  <2> QED BY <1>2, <2>2, <2>3 DEF Takes, TypeOK
<1>3. CASE SumsUp(s)
  <2>1. reading[s] \in ReadType
    BY <1>1, <1>3 DEF SumsUp
  <2>2. Body("cut", reading[s].text) \in BodyType /\ reading[s].ver \in Nat
    BY <2>1 DEF ReadType, Body, BodyType
  <2>3. sum' \in [body : BodyType, for : Nat, written : BOOLEAN]
    BY <1>3, <2>2, SummaryTyped DEF SumsUp
  <2>4. reading' \in [Summarizers -> ReadType \cup {NoRead}]
    BY <1>1, <1>3 DEF SumsUp
  <2> QED BY <1>3, <2>3, <2>4 DEF SumsUp, TypeOK
<1> QED BY <1>2, <1>3 DEF Summarizer

LEMMA InitTyped == ASSUME Init PROVE TypeOK
<1>1. saves \in Seq(SaveType) /\ editor \in EditorType /\ used \in UsedType
  BY Constants DEF Init, EditorType, UsedType
<1>2. sum \in [body : BodyType, for : Nat, written : BOOLEAN]
  BY Constants DEF Init, NoSummary
<1>3. expects = 0 /\ ver = 0 /\ reload.ver = 0
  BY DEF Init, NoRead
<1>4. queue \in QueueType
  <2>1. <<>> \in Seq({"this", "other"}) /\ Len(<<>>) = 0
    OBVIOUS
  <2> QED BY <2>1, SceneAssumption DEF Init, QueueType
<1> QED BY <1>1, <1>2, <1>3, <1>4, Constants, SceneAssumption DEF Init, TypeOK

\* Every variable keeps its type, and neither the save queue nor a reload
\* believes in a version the scene has not had.  (node/repo.go, sceneSaveQueue.ts)
THEOREM Typed == Spec => []TypeOK
<1>1. Init => TypeOK
  BY InitTyped
<1>2. TypeOK /\ [Next]_vars => TypeOK'
  <2> SUFFICES ASSUME TypeOK, [Next]_vars PROVE TypeOK'
    OBVIOUS
  <2>1. CASE UNCHANGED vars
    BY <2>1 DEF vars, row, window, TypeOK
  <2> QED BY <2>1, EditorTypes, RequestTypes, SummarizerTypes, QueueSteps DEF Next
<1> QED BY <1>1, <1>2, PTL DEF Spec

-----------------------------------------------------------------------------
(* The inductive invariant: a write of the text is the only step that moves *)
(* the version on, and all that is remembered goes by the version.          *)

\* What was remembered of the text, before a write, is remembered of no later
\* version after it.
LEMMA WriteOutdates ==
  ASSUME Inv, ver' = ver + 1, UNCHANGED <<sum, reading, reload>>
  PROVE  ReadsTrue'
<1>1. ver \in Nat /\ sum.for \in Nat /\ sum.for <= ver
  BY DEF Inv, TypeOK, NoneAhead
<1>2. reload.ver \in Nat /\ reload.ver <= ver
  BY ReloadTyped DEF Inv
<1>3. \A s \in Summarizers : reading[s].ver \in Nat /\ reading[s].ver <= ver
  BY DEF Inv, TypeOK, NoneAhead, ReadType, NoRead
<1> QED BY <1>1, <1>2, <1>3 DEF ReadsTrue

\* The steps that write the text, and what they leave alone.
LEMMA StepText ==
  ASSUME [Next]_vars
  PROVE  \/ ver' = ver /\ text' = text
         \/ /\ ver' = ver + 1 /\ UNCHANGED <<sum, snaps, expects, reload, reading>>
            /\ \/ SaveCommits
               \/ \E c \in Calls : /\ AgentWrites(c) \/ ReplaceWrites(c)
                                      \/ RestoreWrites(c) \/ RelinkWrites(c)
                                   /\ UNCHANGED <<editor, late, saves>>
<1> USE DEF row, window, WriteText
<1>1. CASE Editor
  BY <1>1 DEF Editor, Type, Fire, Send, SaveCommits, SaveRefused, SaveAnswered, Hear,
              Answer, Reloaded
<1>2. ASSUME NEW c \in Calls, Request(c)
      PROVE  \/ ver' = ver /\ text' = text
             \/ /\ ver' = ver + 1 /\ UNCHANGED <<sum, snaps, expects, reload, reading>>
                /\ AgentWrites(c) \/ ReplaceWrites(c) \/ RestoreWrites(c)
                   \/ RelinkWrites(c)
                /\ UNCHANGED <<editor, late, saves>>
  BY <1>2 DEF Request, AgentReads, AgentSnapshots, AgentWrites, Plans, ReplaceLooks,
     ReplaceWrites, RestoreReads, RestoreWrites, RestoreShown, RelinkLists,
     RelinkWrites, RelinkGets, RelinkSums, SummaryReads, SummaryChecked, SummaryWrites
<1>3. ASSUME NEW s \in Summarizers, Summarizer(s) PROVE ver' = ver /\ text' = text
  BY <1>3 DEF Summarizer, Takes, SumsUp
<1>4. CASE UNCHANGED vars
  BY <1>4 DEF vars
<1>5. CASE OthersEnqueue \/ ServesOther \/ SumFails
  BY <1>5 DEF OthersEnqueue, ServesOther, SumFails
<1> QED BY <1>1, <1>2, <1>3, <1>4, <1>5 DEF Next

LEMMA VersionTyped ==
  ASSUME Inv
  PROVE  /\ ver \in Nat /\ sum.for \in Nat /\ reload.ver \in Nat
         /\ editor.base \in Nat /\ late.base \in Nat
         /\ \A i \in DOMAIN saves : saves[i].doc.base \in Nat
         /\ \A s \in Summarizers : reading[s].ver \in Nat
         /\ \A c \in Calls : call[c].ver \in Nat
<1>1. \A i \in DOMAIN saves : saves[i] \in SaveType
  BY DEF Inv, TypeOK
<1>2. \A s \in Summarizers : reading[s] \in ReadType \cup {NoRead}
  BY DEF Inv, TypeOK
<1>3. \A s \in Summarizers : reading[s].ver \in Nat
  BY <1>2 DEF ReadType, NoRead
<1>4. editor.base \in Nat /\ late.base \in Nat
  BY DEF Inv, TypeOK, EditorType, DocType, NoDoc
<1>5. \A c \in Calls : call[c].ver \in Nat
  BY DEF Inv, TypeOK, CallType
<1> QED BY <1>1, <1>3, <1>4, <1>5, ReloadTyped DEF Inv, TypeOK, SaveType, DocType

\* Following keeps the text of a document and puts it no further than ahead.
LEMMA Followed ==
  ASSUME Inv, NEW d, d \in DocType \cup {NoDoc} \cup EditorType,
         d.base \in Nat, d.base <= ver
  PROVE  /\ Follows(d).text = d.text /\ Follows(d).shown = d.shown
         /\ Follows(d).base \in {d.base, ver + 1} /\ Follows(d).base <= ver + 1
         /\ Follows(d).base = ver + 1 <=>
              /\ Head(saves).doc.shown /\ d.shown /\ d.base = Head(saves).doc.base
<1>1. ver \in Nat
  BY DEF Inv, TypeOK
<1>2. [d EXCEPT !.base = ver + 1].base = ver + 1
  BY DEF DocType, NoDoc, EditorType
<1>3. [d EXCEPT !.base = ver + 1].text = d.text
  BY DEF DocType, NoDoc, EditorType
<1>4. [d EXCEPT !.base = ver + 1].shown = d.shown
  BY DEF DocType, NoDoc, EditorType
<1> QED BY <1>1, <1>2, <1>3, <1>4 DEF Follows

\* What each step of the editor does to the documents in the save queue.
LEMMA SameDocs ==
  ASSUME TypeOK, Type \/ Send
  PROVE  /\ DOMAIN saves' = DOMAIN saves
         /\ \A i \in DOMAIN saves : saves'[i].doc = saves[i].doc
<1>1. saves \in Seq(SaveType)
  BY DEF TypeOK
<1>2. CASE Type
  <2>1. \A i \in DOMAIN saves : [saves[i] EXCEPT !.covers = FALSE].doc = saves[i].doc
    BY <1>1 DEF SaveType
  <2> QED BY <1>2, <2>1 DEF Type
<1>3. CASE Send
  BY <1>1, <1>3 DEF Send, SaveType
<1> QED BY <1>2, <1>3

LEMMA FireDocs ==
  ASSUME TypeOK, Fire
  PROVE  /\ DOMAIN saves = 1 .. Len(saves) /\ DOMAIN saves' = 1 .. Len(saves) + 1
         /\ Len(saves) \in Nat
         /\ \A i \in DOMAIN saves : saves'[i] = saves[i]
         /\ saves'[Len(saves) + 1].doc = late
<1>1. saves \in Seq(SaveType) /\ late \in DocType
  BY DEF TypeOK, Fire
<1>2. DEFINE new == [doc |-> late, pc |-> "waits", names |-> 0, covers |-> TRUE]
<1>3. new \in SaveType
  BY <1>1 DEF SaveType
<1>4. saves' = Append(saves, new)
  BY DEF Fire
<1>5. saves'[Len(saves) + 1] = new
  BY <1>1, <1>3, <1>4
<1> QED BY <1>1, <1>3, <1>4, <1>5

LEMMA CommitDocs ==
  ASSUME Inv, SaveCommits
  PROVE  /\ 1 \in DOMAIN saves /\ Head(saves) = saves[1] /\ DOMAIN saves' = DOMAIN saves
         /\ saves'[1].doc = saves[1].doc /\ text' = saves[1].doc.text
         /\ \A i \in DOMAIN saves : i # 1 => saves'[i].doc = Follows(saves[i].doc)
         /\ \A i \in DOMAIN saves : saves[i].doc \in DocType
         /\ editor' = Follows(editor) /\ late' = Follows(late)
<1>1. saves \in Seq(SaveType) /\ 1 \in DOMAIN saves /\ Head(saves) = saves[1]
  BY HeadTyped DEF SaveCommits, Inv, TypeOK
<1>2. \A i \in DOMAIN saves : saves[i] \in SaveType
  BY <1>1
<1>3. /\ saves' = [i \in DOMAIN saves |->
                     IF i = 1 THEN [saves[1] EXCEPT !.pc = "written"]
                     ELSE [saves[i] EXCEPT !.doc = Follows(@)]]
      /\ editor' = Follows(editor) /\ late' = Follows(late)
      /\ text' = Head(saves).doc.text
  BY DEF SaveCommits, WriteText
<1>4. saves'[1].doc = saves[1].doc
  BY <1>1, <1>2, <1>3 DEF SaveType
<1>5. \A i \in DOMAIN saves : i # 1 => saves'[i].doc = Follows(saves[i].doc)
  BY <1>2, <1>3 DEF SaveType
<1> QED BY <1>1, <1>2, <1>3, <1>4, <1>5 DEF SaveType

LEMMA MountDocs ==
  ASSUME TypeOK, NEW t, NEW v, Mount(t, v)
  PROVE  /\ DOMAIN saves' = DOMAIN saves
         /\ \A i \in DOMAIN saves : /\ saves'[i].doc.text = saves[i].doc.text
                                    /\ saves'[i].doc.base = saves[i].doc.base
                                    /\ saves'[i].doc.shown = FALSE
         /\ editor'.text = t /\ editor'.base = v
<1>1. \A i \in DOMAIN saves : saves[i] \in SaveType
  BY DEF TypeOK
<1>2. saves' = [i \in DOMAIN saves |-> [saves[i] EXCEPT !.doc.shown = FALSE]]
  BY DEF Mount
<1>3. \A i \in DOMAIN saves : saves'[i].doc = [saves[i].doc EXCEPT !.shown = FALSE]
  BY <1>1, <1>2 DEF SaveType
<1>4. \A i \in DOMAIN saves : saves[i].doc \in DocType
  BY <1>1 DEF SaveType
<1>5. editor'.text = t /\ editor'.base = v
  BY DEF Mount, TypeOK, EditorType
<1>6. \A d \in DocType : /\ [d EXCEPT !.shown = FALSE].text = d.text
                        /\ [d EXCEPT !.shown = FALSE].base = d.base
                        /\ [d EXCEPT !.shown = FALSE].shown = FALSE
  BY DEF DocType
<1> QED BY <1>2, <1>3, <1>4, <1>5, <1>6

LEMMA CallsBehind ==
  ASSUME Inv, NEW c \in Calls,
         \/ End(c)
         \/ \E pc : Goes(c, pc)
         \/ \E r \in CallType : r.ver = ver /\ call' = [call EXCEPT ![c] = r]
  PROVE  \A d \in Calls : call'[d].ver \in Nat /\ call'[d].ver <= ver
<1>1. /\ call \in [Calls -> CallType] /\ ver \in Nat
      /\ \A d \in Calls : call[d].ver \in Nat /\ call[d].ver <= ver
  BY VersionTyped DEF Inv, NoneAhead, TypeOK
<1>2. CASE End(c)
  BY <1>1, <1>2 DEF End, Idle
<1>3. ASSUME NEW pc, Goes(c, pc)
      PROVE  \A d \in Calls : call'[d].ver \in Nat /\ call'[d].ver <= ver
  <2>1. [call[c] EXCEPT !.pc = pc].ver = call[c].ver
    BY <1>1 DEF CallType
  <2> QED BY <1>1, <1>3, <2>1 DEF Goes
<1>4. ASSUME NEW r \in CallType, r.ver = ver, call' = [call EXCEPT ![c] = r]
      PROVE  \A d \in Calls : call'[d].ver \in Nat /\ call'[d].ver <= ver
  BY <1>1, <1>4
<1> QED BY <1>2, <1>3, <1>4

LEMMA AheadStep == ASSUME Inv, [Next]_vars PROVE NoneAhead'
<1> USE DEF row, window
<1>1. ver \in Nat /\ (ver' = ver \/ ver' = ver + 1)
  BY StepText DEF Inv, TypeOK
<1> USE VersionTyped DEF Inv, NoneAhead
<1>2. CASE Editor
  <2>1. CASE Type
    <3>1. editor'.base = editor.base /\ late'.base = editor.base
      BY <2>1 DEF Type, Doc, TypeOK, EditorType
    <3> QED BY <2>1, <3>1, SameDocs DEF Type
  <2>2. CASE Send
    BY <2>2, SameDocs DEF Send
  <2>3. CASE Fire
    <3>1. late'.base = 0
      BY <2>3 DEF Fire, NoDoc
    <3>2. \A i \in DOMAIN saves' : saves'[i].doc.base <= ver
      BY <2>3, FireDocs
    <3> QED BY <2>3, <3>1, <3>2 DEF Fire
  <2>4. CASE SaveCommits
    <3>1. ver' = ver + 1 /\ UNCHANGED <<sum, reading, call>>
      BY <2>4 DEF SaveCommits, WriteText
    <3>2. editor'.base <= ver + 1 /\ late'.base <= ver + 1
      BY <2>4, CommitDocs, Followed DEF TypeOK
    <3>3. \A i \in DOMAIN saves' : saves'[i].doc.base <= ver + 1
      BY <2>4, CommitDocs, Followed
    <3> QED BY <1>1, <3>1, <3>2, <3>3
  <2>5. CASE SaveRefused \/ SaveAnswered
    <3>1. editor'.base = editor.base
      BY <2>5 DEF SaveRefused, SaveAnswered, TypeOK, EditorType
    <3>2. \A i \in DOMAIN saves' : saves'[i].doc.base <= ver
      BY <2>5, HeadTyped DEF SaveRefused, SaveAnswered
    <3> QED BY <2>5, <3>1, <3>2 DEF SaveRefused, SaveAnswered
  <2>6. CASE Hear \/ Answer
    BY <2>6 DEF Hear, Answer
  <2>7. CASE Reloaded
    <3>1. editor'.base <= ver /\ \A i \in DOMAIN saves' : saves'[i].doc.base <= ver
      BY <2>7, MountDocs, ReloadTyped DEF Reloaded
    <3>2. late'.base = late.base
      BY <2>7 DEF Reloaded, TypeOK, DocType
    <3> QED BY <2>7, <3>1, <3>2 DEF Reloaded
  <2> QED BY <1>2, <2>1, <2>2, <2>3, <2>4, <2>5, <2>6, <2>7 DEF Editor
<1>3. ASSUME NEW c \in Calls, Request(c) PROVE NoneAhead'
  <2>1. CASE AgentReads(c) \/ Plans(c) \/ RestoreReads(c) \/ RelinkLists(c)
             \/ SummaryReads(c)
    <3>1. \A d \in Calls : call'[d].ver <= ver
      BY <2>1 DEF AgentReads, Plans, RestoreReads, RelinkLists, SummaryReads, Start,
         TypeOK
    <3> QED BY <2>1, <3>1 DEF AgentReads, Plans, RestoreReads, RelinkLists, SummaryReads
  <2>2. CASE AgentSnapshots(c) \/ ReplaceLooks(c) \/ SummaryChecked(c) \/ RelinkGets(c)
    <3>1. \A d \in Calls : call'[d].ver <= ver
      <4>1. CASE End(c) \/ \E pc : Goes(c, pc)
        BY <4>1, CallsBehind
      <4>2. CASE ReplaceLooks(c) /\ ~End(c)
        <5>1. [call[c] EXCEPT !.pc = "write", !.text = text].ver = call[c].ver
          BY DEF TypeOK, CallType
        <5> QED BY <4>2, <5>1 DEF ReplaceLooks, TypeOK
      <4>3. CASE RelinkGets(c)
        <5>1. [call[c] EXCEPT !.pc = "sum", !.ver = ver].ver = ver
          BY DEF TypeOK, CallType
        <5> QED BY <1>1, <4>3, <5>1 DEF RelinkGets, TypeOK
      <4> QED BY <2>2, <4>1, <4>2, <4>3 DEF AgentSnapshots, SummaryChecked
    <3> QED BY <2>2, <3>1 DEF AgentSnapshots, ReplaceLooks, SummaryChecked, RelinkGets
  <2>3. CASE AgentWrites(c) \/ ReplaceWrites(c) \/ RestoreWrites(c) \/ RelinkWrites(c)
    <3>1. \A d \in Calls : call'[d].ver \in Nat /\ call'[d].ver <= ver
      BY <2>3, CallsBehind DEF AgentWrites, ReplaceWrites, RestoreWrites, RelinkWrites
    <3>2. UNCHANGED <<sum, editor, late, saves, reading>>
      BY <2>3 DEF AgentWrites, ReplaceWrites, RestoreWrites, RelinkWrites
    <3> QED BY <1>1, <3>1, <3>2
  <2>4. CASE RestoreShown(c)
    <3>1. editor'.base <= ver /\ \A i \in DOMAIN saves' : saves'[i].doc.base <= ver
      <4>1. Mount(text, ver)
        BY <2>4 DEF RestoreShown
      <4>2. /\ DOMAIN saves' = DOMAIN saves /\ editor'.base = ver
            /\ \A i \in DOMAIN saves : saves'[i].doc.base = saves[i].doc.base
        <5>1. TypeOK
          OBVIOUS
        <5> HIDE DEF Inv, NoneAhead
        <5> QED BY <4>1, <5>1, MountDocs
      <4> QED BY <1>1, <4>2
    <3>2. late'.base = 0
      BY <2>4 DEF RestoreShown, NoDoc
    <3>3. \A d \in Calls : call'[d].ver <= ver
      BY <2>4, CallsBehind DEF RestoreShown
    <3> QED BY <1>1, <2>4, <3>1, <3>2, <3>3 DEF RestoreShown
  <2>5. CASE RelinkSums(c) \/ SummaryWrites(c)
    <3>1. sum'.for <= ver
      BY <2>5 DEF RelinkSums, SummaryWrites, SetSummary
    <3>2. \A d \in Calls : call'[d].ver <= ver
      BY <2>5, CallsBehind DEF RelinkSums, SummaryWrites
    <3> QED BY <2>5, <3>1, <3>2 DEF RelinkSums, SummaryWrites
  <2> QED BY <1>3, <2>1, <2>2, <2>3, <2>4, <2>5 DEF Request
<1>4. ASSUME NEW s \in Summarizers, Summarizer(s) PROVE NoneAhead'
  <2>1. sum'.for <= ver
    BY <1>4 DEF Summarizer, Takes, SumsUp, SetSummary
  <2>2. \A r \in Summarizers : reading'[r].ver <= ver
    <3>1. reading \in [Summarizers -> ReadType \cup {NoRead}] /\ NoRead.ver = 0
      BY DEF TypeOK, NoRead
    <3>2. \/ reading' = reading
          \/ reading' = [reading EXCEPT ![s] = NoRead]
          \/ reading' = [reading EXCEPT ![s] = [text |-> text, ver |-> ver]]
      BY <1>4, <3>1 DEF Summarizer, Takes, SumsUp
    <3> QED BY <1>1, <3>1, <3>2
  <2> QED BY <1>4, <2>1, <2>2 DEF Summarizer, Takes, SumsUp
<1>5. CASE UNCHANGED vars
  BY <1>5 DEF vars
<1>6. CASE OthersEnqueue \/ ServesOther \/ SumFails
  <2>1. UNCHANGED <<row, sum, window, call>> /\ \A s \in Summarizers : reading'[s] = reading[s] \/ reading'[s] = NoRead
    BY <1>6, QueueSteps
  <2>2. \A s \in Summarizers : reading'[s].ver <= ver
    BY <1>1, <2>1 DEF NoRead
  <2> QED BY <2>1, <2>2
<1> QED BY <1>2, <1>3, <1>4, <1>5, <1>6 DEF Next

LEMMA ReadsStep == ASSUME Inv, [Next]_vars PROVE ReadsTrue'
<1> USE DEF row, window
<1>1. CASE ver' = ver + 1
  BY <1>1, StepText, WriteOutdates, VersionTyped
<1>2. CASE ver' = ver /\ text' = text
  <2> USE <1>2 DEF Inv, ReadsTrue
  <2>1. CASE Editor
    <3>1. CASE Hear \/ Answer
      BY <3>1 DEF Hear, Answer
    <3>2. CASE Reloaded
      BY <3>2 DEF Reloaded
    <3>3. CASE Type \/ Fire \/ Send \/ SaveCommits \/ SaveRefused \/ SaveAnswered
      BY <3>3 DEF Type, Fire, Send, SaveCommits, SaveRefused, SaveAnswered
    <3> QED BY <2>1, <3>1, <3>2, <3>3 DEF Editor
  <2>2. ASSUME NEW c \in Calls, Request(c) PROVE ReadsTrue'
    <3>1. UNCHANGED <<reading, reload>>
      BY <2>2 DEF Request, AgentReads, AgentSnapshots, AgentWrites, Plans,
         ReplaceLooks, ReplaceWrites, RestoreReads, RestoreWrites, RestoreShown,
         RelinkLists, RelinkWrites, RelinkGets, RelinkSums, SummaryReads,
         SummaryChecked, SummaryWrites
    <3>2. UNCHANGED sum \/ sum'.written
      BY <2>2 DEF Request, AgentReads, AgentSnapshots, AgentWrites, Plans,
         ReplaceLooks, ReplaceWrites, RestoreReads, RestoreWrites, RestoreShown,
         RelinkLists, RelinkWrites, RelinkGets, RelinkSums, SummaryReads,
         SummaryChecked, SummaryWrites, SetSummary
    <3> QED BY <3>1, <3>2
  <2>3. ASSUME NEW s \in Summarizers, Takes(s) PROVE ReadsTrue'
    BY <2>3 DEF Takes, TypeOK
  <2>4. ASSUME NEW s \in Summarizers, SumsUp(s) PROVE ReadsTrue'
    <3>1. sum'.body # NoBody /\ sum'.for = ver /\ ~sum'.written => sum'.body.of = text
      BY <2>4 DEF SumsUp, SetSummary, Body
    <3>2. \A r \in Summarizers : reading'[r] # NoRead => reading'[r] = reading[r]
      BY <2>4 DEF SumsUp, TypeOK
    <3>3. UNCHANGED reload
      BY <2>4 DEF SumsUp
    <3> QED BY <3>1, <3>2, <3>3
  <2>5. CASE UNCHANGED vars
    BY <2>5 DEF vars
  <2>6. CASE OthersEnqueue \/ ServesOther \/ SumFails
    <3>1. UNCHANGED <<row, sum, window>> /\ \A s \in Summarizers : reading'[s] = reading[s] \/ reading'[s] = NoRead
      BY <2>6, QueueSteps
    <3> QED BY <3>1
  <2> QED BY <2>1, <2>2, <2>3, <2>4, <2>5, <2>6 DEF Next, Summarizer
<1> QED BY <1>1, <1>2, StepText

LEMMA KeepStep == ASSUME Inv, [Next]_vars PROVE CallsKeep'
<1> USE DEF row, window
<1>1. CASE UNCHANGED <<text, ver, call>> /\ snaps \subseteq snaps'
  BY <1>1 DEF Inv, CallsKeep
<1>2. CASE Editor
  <2>1. UNCHANGED <<call, snaps>>
    BY <1>2 DEF Editor, Type, Fire, Send, SaveCommits, SaveRefused, SaveAnswered, Hear,
                Answer, Reloaded
  <2>2. CASE ver' = ver /\ text' = text
    BY <1>1, <2>1, <2>2
  <2>3. CASE ver' = ver + 1
    BY <2>1, <2>3, VersionTyped DEF Inv, CallsKeep, NoneAhead
  <2> QED BY <2>2, <2>3, StepText
<1>3. ASSUME NEW c \in Calls, Request(c) PROVE CallsKeep'
  <2>1. call \in [Calls -> CallType] /\ CallsKeep
    BY DEF Inv, TypeOK
  <2>2. CASE ver' = ver + 1
    <3>1. \A d \in Calls : call'[d].ver \in Nat /\ call'[d].ver <= ver
      <4>1. AgentWrites(c) \/ ReplaceWrites(c) \/ RestoreWrites(c) \/ RelinkWrites(c)
        <5>1. \/ AgentWrites(c) \/ ReplaceWrites(c) \/ RestoreWrites(c)
              \/ RelinkWrites(c) \/ ver' = ver
          BY <1>3
          DEF Request, AgentReads, AgentSnapshots, Plans, ReplaceLooks, RestoreReads,
              RestoreShown, RelinkLists, RelinkGets, RelinkSums, SummaryReads,
              SummaryChecked, SummaryWrites
        <5>2. ver' # ver
          BY <2>2, VersionTyped
        <5> QED BY <5>1, <5>2
      <4> QED BY <4>1, CallsBehind DEF AgentWrites, ReplaceWrites, RestoreWrites,
              RelinkWrites
    <3> QED BY <2>2, <3>1, VersionTyped DEF CallsKeep
  <2>3. CASE ver' = ver /\ text' = text
    <3>1. snaps \subseteq snaps'
      BY <1>3 DEF Request, AgentReads, AgentSnapshots, AgentWrites, Plans,
         ReplaceLooks, ReplaceWrites, RestoreReads, RestoreWrites, RestoreShown,
         RelinkLists, RelinkWrites, RelinkGets, RelinkSums, SummaryReads,
         SummaryChecked, SummaryWrites, KeepText
    <3>2. \A d \in Calls : d # c => call'[d] = call[d]
      BY <1>3, <2>1 DEF Request, AgentReads, AgentSnapshots, AgentWrites, Plans,
         ReplaceLooks, ReplaceWrites, RestoreReads, RestoreWrites, RestoreShown,
         RelinkLists, RelinkWrites, RelinkGets, RelinkSums, SummaryReads,
         SummaryChecked, SummaryWrites, Start, End, Goes
    <3>3. call'[c].pc = "write" /\ call'[c].ver = ver =>
            /\ call'[c].kind \in {"write", "revise", "restore"} => text \in snaps'
            /\ call'[c].kind = "relink" => call'[c].text = text
      <4>1. CASE AgentReads(c) \/ Plans(c) \/ SummaryReads(c) \/ SummaryChecked(c)
                 \/ RelinkSums(c) \/ SummaryWrites(c) \/ RestoreShown(c)
                 \/ RelinkGets(c)
        <5>1. CASE SummaryChecked(c)
          BY <2>1, <5>1 DEF SummaryChecked, At, Goes, End, Idle, CallType
        <5>2. CASE AgentReads(c) \/ Plans(c) \/ SummaryReads(c)
          BY <2>1, <5>2 DEF AgentReads, Plans, SummaryReads, Start
        <5>3. CASE RelinkSums(c) \/ SummaryWrites(c) \/ RestoreShown(c)
          <6>1. call'[c] = Idle
            BY <2>1, <5>3 DEF RelinkSums, SummaryWrites, RestoreShown, End
          <6> QED BY <6>1 DEF Idle
        <5>4. CASE RelinkGets(c)
          BY <2>1, <5>4 DEF RelinkGets, CallType
        <5> QED BY <4>1, <5>1, <5>2, <5>3, <5>4
      <4>2. CASE AgentSnapshots(c)
        BY <2>1, <4>2 DEF AgentSnapshots, At, Goes, KeepText, CallType
      <4>3. CASE ReplaceLooks(c)
        BY <2>1, <4>3 DEF ReplaceLooks, At, End, Idle, KeepText, CallType
      <4>4. CASE RestoreReads(c) \/ RelinkLists(c)
        BY <2>1, <4>4 DEF RestoreReads, RelinkLists, Start, KeepText
      <4>5. ~RestoreWrites(c) /\ ~RelinkWrites(c)
        BY <2>3, VersionTyped DEF RestoreWrites, RelinkWrites, WriteText
      <4>6. CASE AgentWrites(c) \/ ReplaceWrites(c)
        BY <2>1, <4>6 DEF AgentWrites, ReplaceWrites, End, Idle
      <4> QED BY <1>3, <4>1, <4>2, <4>3, <4>4, <4>5, <4>6 DEF Request
    <3> QED BY <2>1, <2>3, <3>1, <3>2, <3>3 DEF CallsKeep
  <2> QED BY <2>2, <2>3, StepText
<1>4. ASSUME NEW s \in Summarizers, Summarizer(s) PROVE CallsKeep'
  BY <1>1, <1>4 DEF Summarizer, Takes, SumsUp
<1>5. CASE UNCHANGED vars
  BY <1>1, <1>5 DEF vars
<1>6. CASE OthersEnqueue \/ ServesOther \/ SumFails
  BY <1>1, <1>6 DEF OthersEnqueue, ServesOther, SumFails
<1> QED BY <1>2, <1>3, <1>4, <1>5, <1>6 DEF Next

\* Steps that leave every document as it is.
LEMMA SameAll ==
  ASSUME Inv, UNCHANGED <<editor, late, saves>>,
         ver' = ver + 1 \/ (ver' = ver /\ text' = text)
  PROVE  DocsHold' /\ DocsGrow'
<1>1. CASE ver' = ver + 1
  BY <1>1, VersionTyped DEF Inv, NoneAhead, DocsHold, DocsGrow
<1>2. CASE ver' = ver /\ text' = text
  BY <1>2 DEF Inv, DocsHold, DocsGrow
<1> QED BY <1>1, <1>2

\* A mount puts the row on screen, and nothing that was typed belongs to it.
LEMMA MountStep ==
  ASSUME Inv, NEW t, NEW v, Mount(t, v), v = ver => t = text,
         UNCHANGED <<ver, text>>,
         late' = NoDoc
         \/ (late # NoDoc /\ late' = [late EXCEPT !.shown = FALSE])
  PROVE  DocsHold' /\ DocsGrow'
<1>1. TypeOK /\ DocsHold /\ late \in DocType \cup {NoDoc}
  BY DEF Inv, TypeOK
<1>2. /\ DOMAIN saves' = DOMAIN saves
      /\ \A i \in DOMAIN saves : /\ saves'[i].doc.text = saves[i].doc.text
                                 /\ saves'[i].doc.base = saves[i].doc.base
                                 /\ saves'[i].doc.shown = FALSE
      /\ editor'.text = t /\ editor'.base = v
  BY <1>1, MountDocs
<1>3. late' # NoDoc => late # NoDoc /\ late'.text = late.text /\ late'.base = late.base
  BY <1>1 DEF DocType
<1>4. late'.shown = FALSE
  BY <1>1 DEF DocType, NoDoc
<1>5. DocsHold'
  BY <1>1, <1>2, <1>3 DEF DocsHold
<1> QED BY <1>2, <1>4, <1>5 DEF DocsGrow

LEMMA DocsStep == ASSUME Inv, [Next]_vars PROVE DocsHold' /\ DocsGrow'
<1> USE DEF row, window
<1>1. TypeOK /\ DocsHold /\ DocsGrow /\ NoneAhead
  BY DEF Inv
<1>2. CASE Type
  <2>1. PICK w : /\ editor' = [editor EXCEPT !.text = @ \cup {w}, !.dirty = TRUE]
                 /\ late' = Doc(editor.text \cup {w}, editor.base)
    BY <1>2 DEF Type
  <2>2. /\ editor'.text = editor.text \cup {w} /\ editor'.base = editor.base
        /\ late'.text = editor.text \cup {w} /\ late'.base = editor.base
    BY <1>1, <2>1 DEF TypeOK, EditorType, Doc
  <2>3. ver' = ver /\ text' = text
    BY <1>2 DEF Type
  <2>4. /\ DOMAIN saves' = DOMAIN saves
        /\ \A i \in DOMAIN saves : saves'[i].doc = saves[i].doc
    BY <1>1, <1>2, SameDocs
  <2>5. DocsHold'
    BY <1>1, <2>2, <2>3, <2>4 DEF DocsHold
  <2>6. DocsGrow'
    BY <1>1, <2>2, <2>4 DEF DocsGrow
  <2> QED BY <2>5, <2>6
<1>3. CASE Fire
  <2>1. ver' = ver /\ text' = text /\ editor' = editor /\ late' = NoDoc /\ late # NoDoc
    BY <1>3 DEF Fire
  <2>2. late'.shown = FALSE
    BY <2>1 DEF NoDoc
  <2>3. \A i \in DOMAIN saves' :
           saves'[i].doc = IF i \in DOMAIN saves THEN saves[i].doc ELSE late
    BY <1>1, <1>3, FireDocs
  <2>4. DocsHold'
    BY <1>1, <2>1, <2>3 DEF DocsHold
  <2>5. \A i, j \in DOMAIN saves' : i < j => i \in DOMAIN saves
    BY <1>1, <1>3, FireDocs
  <2>6. DocsGrow'
    BY <1>1, <2>1, <2>2, <2>3, <2>5 DEF DocsGrow
  <2> QED BY <2>4, <2>6
<1>4. CASE Send
  <2>1. UNCHANGED <<ver, text, editor, late>>
    BY <1>4 DEF Send
  <2>2. /\ DOMAIN saves' = DOMAIN saves
        /\ \A i \in DOMAIN saves : saves'[i].doc = saves[i].doc
    BY <1>1, <1>4, SameDocs
  <2> QED BY <1>1, <2>1, <2>2 DEF DocsHold, DocsGrow
<1>5. CASE SaveCommits
  <2> DEFINE first == saves[1].doc
  <2>1. ver' = ver + 1 /\ ver \in Nat
    BY <1>5, VersionTyped DEF SaveCommits, WriteText
  <2>2. /\ 1 \in DOMAIN saves /\ Head(saves) = saves[1] /\ DOMAIN saves' = DOMAIN saves
        /\ saves'[1].doc = first /\ text' = first.text
        /\ \A i \in DOMAIN saves : i # 1 => saves'[i].doc = Follows(saves[i].doc)
        /\ \A i \in DOMAIN saves : saves[i].doc \in DocType
        /\ editor' = Follows(editor) /\ late' = Follows(late)
    BY <1>5, CommitDocs
  <2>3. \A i \in DOMAIN saves :
          /\ saves'[i].doc.text = saves[i].doc.text
          /\ saves'[i].doc.shown = saves[i].doc.shown
          /\ saves[i].doc.base <= ver /\ saves[i].doc.base \in Nat
          /\ saves'[i].doc.base = IF i # 1 /\ first.shown /\ saves[i].doc.shown
                                     /\ saves[i].doc.base = first.base
                                  THEN ver + 1 ELSE saves[i].doc.base
    BY <1>1, <2>1, <2>2, Followed, VersionTyped DEF NoneAhead
  <2>4. /\ late'.text = late.text /\ late'.shown = late.shown
        /\ late.base <= ver /\ late.base \in Nat
        /\ late'.base = IF first.shown /\ late.shown /\ late.base = first.base
                        THEN ver + 1 ELSE late.base
    BY <1>1, <2>1, <2>2, Followed, VersionTyped DEF NoneAhead, TypeOK
  <2>5. /\ editor'.text = editor.text
        /\ editor.base <= ver /\ editor.base \in Nat
        /\ editor'.base = IF first.shown /\ editor.shown /\ editor.base = first.base
                          THEN ver + 1 ELSE editor.base
    BY <1>1, <2>1, <2>2, Followed, VersionTyped DEF NoneAhead, TypeOK
  <2>6. late' # NoDoc => late # NoDoc
    BY <1>1, <1>5, <2>2, FollowsTyped DEF SaveCommits
  <2>7. \A i \in DOMAIN saves : i = 1 \/ 1 < i
    BY <1>1 DEF TypeOK
  <2>8. DocsHold'
    <3>1. editor'.base = ver + 1 => first.text \subseteq editor.text
      BY <1>1, <2>1, <2>2, <2>5 DEF DocsGrow
    <3>2. late'.base = ver + 1 => first.text \subseteq late.text
      BY <1>1, <2>1, <2>2, <2>4 DEF DocsGrow
    <3>3. \A i \in DOMAIN saves :
            saves'[i].doc.base = ver + 1 => first.text \subseteq saves[i].doc.text
      BY <1>1, <2>1, <2>2, <2>3, <2>7 DEF DocsGrow
    <3> QED BY <2>1, <2>2, <2>3, <2>4, <2>5, <3>1, <3>2, <3>3 DEF DocsHold
  <2>9. DocsGrow'
    <3>1. ASSUME NEW i \in DOMAIN saves, NEW j \in DOMAIN saves, i < j,
                 saves[i].doc.shown, saves[j].doc.shown,
                 saves'[i].doc.base = saves'[j].doc.base
          PROVE  saves[i].doc.text \subseteq saves[j].doc.text
      <4>1. saves[i].doc.base = saves[j].doc.base
        BY <2>1, <2>3, <3>1
      <4> QED BY <1>1, <3>1, <4>1 DEF DocsGrow
    <3>2. ASSUME NEW i \in DOMAIN saves, saves[i].doc.shown, late.shown,
                 late'.base = saves'[i].doc.base
          PROVE  saves[i].doc.text \subseteq late.text
      <4>1. late.base = saves[i].doc.base
        BY <2>1, <2>3, <2>4, <3>2
      <4> QED BY <1>1, <3>2, <4>1 DEF DocsGrow
    <3>3. ASSUME NEW i \in DOMAIN saves, saves[i].doc.shown,
                 editor'.base = saves'[i].doc.base
          PROVE  saves[i].doc.text \subseteq editor.text
      <4>1. editor.base = saves[i].doc.base
        BY <2>1, <2>3, <2>5, <3>3
      <4> QED BY <1>1, <3>3, <4>1 DEF DocsGrow
    <3>4. ASSUME late.shown, late'.base = editor'.base
          PROVE  late.text \subseteq editor.text
      <4>1. late.base = editor.base
        BY <2>1, <2>4, <2>5, <3>4
      <4> QED BY <1>1, <3>4, <4>1 DEF DocsGrow
    <3> QED BY <2>2, <2>3, <2>4, <2>5, <3>1, <3>2, <3>3, <3>4 DEF DocsGrow
  <2> QED BY <2>8, <2>9
<1>6. CASE SaveRefused \/ SaveAnswered
  <2>1. UNCHANGED <<ver, text, late>> /\ saves' = Tail(saves) /\ saves # <<>>
    BY <1>6 DEF SaveRefused, SaveAnswered
  <2>2. editor'.text = editor.text /\ editor'.base = editor.base
    BY <1>1, <1>6 DEF SaveRefused, SaveAnswered, TypeOK, EditorType
  <2>3. \A i \in DOMAIN saves' : i + 1 \in DOMAIN saves /\ saves'[i] = saves[i + 1]
    BY <1>1, <2>1, HeadTyped
  <2>4. \A i, j \in DOMAIN saves' : i < j => i + 1 < j + 1
    BY <1>1, <2>1, HeadTyped
  <2>5. DocsHold'
    BY <1>1, <2>1, <2>2, <2>3 DEF DocsHold
  <2>6. DocsGrow'
    BY <1>1, <2>1, <2>2, <2>3, <2>4 DEF DocsGrow
  <2> QED BY <2>5, <2>6
<1>7. CASE Hear \/ Answer
  BY <1>7, SameAll DEF Hear, Answer
<1>8. CASE Reloaded
  <2>1. Mount(reload.text, reload.ver) /\ (reload.ver = ver => reload.text = text)
    BY <1>8 DEF Reloaded, Inv, ReadsTrue
  <2> QED BY <1>8, <2>1, MountStep DEF Reloaded
<1>9. ASSUME NEW c \in Calls, RestoreShown(c) PROVE DocsHold' /\ DocsGrow'
  BY <1>9, MountStep DEF RestoreShown
<1>10. ASSUME NEW c \in Calls, Request(c), ~RestoreShown(c)
       PROVE  DocsHold' /\ DocsGrow'
  <2>1. UNCHANGED <<editor, late, saves>>
    BY <1>10 DEF Request, AgentReads, AgentSnapshots, AgentWrites, Plans, ReplaceLooks,
       ReplaceWrites, RestoreReads, RestoreWrites, RelinkLists, RelinkWrites,
       RelinkGets, RelinkSums, SummaryReads, SummaryChecked, SummaryWrites
  <2> QED BY <2>1, StepText, SameAll
<1>11. ASSUME NEW s \in Summarizers, Summarizer(s) PROVE DocsHold' /\ DocsGrow'
  BY <1>11, SameAll DEF Summarizer, Takes, SumsUp
<1>12. CASE UNCHANGED vars
  BY <1>12, SameAll DEF vars
<1>13. CASE OthersEnqueue \/ ServesOther \/ SumFails
  BY <1>13, SameAll DEF OthersEnqueue, ServesOther, SumFails
<1> QED
  BY <1>2, <1>3, <1>4, <1>5, <1>6, <1>7, <1>8, <1>9, <1>10, <1>11, <1>12, <1>13
  DEF Next, Editor

LEMMA Invariant == Spec => []Inv
<1>1. Init => Inv
  <2> SUFFICES ASSUME Init PROVE Inv
    OBVIOUS
  <2>1. saves = <<>> /\ DOMAIN saves = {}
    BY DEF Init
  <2>2. /\ editor.text = text /\ editor.base = 0 /\ ver = 0 /\ late = NoDoc
        /\ late.base = 0 /\ late.shown = FALSE /\ reload = NoRead /\ sum.for = 0
        /\ sum.body = NoBody
    BY DEF Init, NoDoc, NoSummary
  <2>3. \A s \in Summarizers : reading[s] = NoRead /\ NoRead.ver = 0
    BY DEF Init, NoRead
  <2>4. \A c \in Calls : call[c].ver = 0 /\ call[c].pc = "idle"
    BY DEF Init, Idle
  <2>5. NoneAhead /\ CallsKeep
    BY <2>1, <2>2, <2>3, <2>4 DEF NoneAhead, CallsKeep
  <2>6. ReadsTrue
    BY <2>2, <2>3 DEF ReadsTrue
  <2>7. DocsHold /\ DocsGrow
    BY <2>1, <2>2 DEF DocsHold, DocsGrow
  <2>8. TypeOK
    BY InitTyped
  <2> QED BY <2>5, <2>6, <2>7, <2>8 DEF Inv
<1>2. Inv /\ TypeOK' /\ [Next]_vars => Inv'
  BY AheadStep, ReadsStep, KeepStep, DocsStep DEF Inv
<1> QED BY <1>1, <1>2, Typed, PTL DEF Spec

\* A summary shown as fresh, unless an agent wrote it, is a cut of the text as
\* it is.  (summarizer.go summarizeLeaf, node.go SummaryFresh)
THEOREM FreshSummaries == Spec => []FreshIsTrue
<1>1. Inv => FreshIsTrue
  BY DEF Inv, ReadsTrue, FreshIsTrue, Fresh
<1> QED BY <1>1, Invariant, PTL

\* No step takes a word out of the scene that no snapshot has, but for writes
\* over a version that was not read.  (repo.go updateContent and its callers)
THEOREM WordsStay == Spec => WordsKept
<1> DEFINE Kept == \A x \in text \ text' :
          \/ \E t \in snaps' : x \in t
          \/ \E c \in Calls : /\ call[c].kind \in Unversioned /\ call[c].pc = "write"
                             /\ call'[c] # call[c] /\ call[c].ver # ver
          \/ SaveCommits /\ Head(saves).names # Head(saves).doc.base
<1>1. Inv /\ [Next]_vars => [Kept]_vars
  <2> SUFFICES ASSUME Inv, [Next]_vars, text' # text PROVE Kept
    OBVIOUS
  <2>1. CASE SaveCommits
    BY <2>1, CommitDocs DEF SaveCommits, Inv, DocsHold
  <2>2. ASSUME NEW c \in Calls,
               AgentWrites(c) \/ ReplaceWrites(c) \/ RestoreWrites(c) \/ RelinkWrites(c),
               UNCHANGED snaps
        PROVE  Kept
    <3>1. call[c].pc = "write" /\ call'[c] # call[c]
      <4>1. call \in [Calls -> CallType]
        BY DEF Inv, TypeOK
      <4> QED BY <2>2, <4>1 DEF AgentWrites, ReplaceWrites, RestoreWrites,
              RelinkWrites, At, End, Goes, Idle, CallType
    <3>2. CASE call[c].ver = ver
      BY <2>2, <3>1, <3>2 DEF AgentWrites, ReplaceWrites, RestoreWrites, RelinkWrites,
         At, WriteText, Inv, CallsKeep
    <3>3. CASE call[c].ver # ver
      BY <2>2, <3>1, <3>3 DEF AgentWrites, ReplaceWrites, RestoreWrites, RelinkWrites,
         At, row, Unversioned
    <3> QED BY <3>2, <3>3
  <2> QED BY <2>1, <2>2, StepText
<1> QED BY <1>1, Invariant, PTL DEF Spec, WordsKept

-----------------------------------------------------------------------------
(* The library item. What a device lacks although its base, the head it takes  *)
(* or the bundle it sends has it, a writer deleted or the device was never     *)
(* given (ItemGiven); what the item lost since a device met it was deleted by  *)
(* a writer or never given to the device that sent it (ItemGone). A take goes  *)
(* by verdicts that hold until the part is typed in (ItemMerges), and a link   *)
(* is at the hash of the selection unless its work was touched (ItemLinks).    *)

ItemHeld == [Parts -> Texts \cup {0}]
ItemChosen == Choices \cup {{}}
ItemHeads == [parts : ItemHeld, omit : ItemChosen \cup {Item!Never}, rev : Nat, at : 0 .. MaxChoices]
ItemTakings == [at : {"taking", "adopting", "adopted"}, there : ItemHeads, sends : BOOLEAN, round : Nat,
                todo : SUBSET Parts, raced : SUBSET Parts, kept : SUBSET (Parts \X Texts)]
ItemBundles == [parts : ItemHeld, omit : ItemChosen]
ItemSendings == [at : {"out", "sent"}, bundle : ItemBundles, chosen : 0 .. MaxChoices, rev : Nat, round : Nat]
ItemOps == {Item!Idle} \cup {Item!Looking(n) : n \in Nat} \cup ItemTakings \cup ItemSendings

ItemTypes ==
    /\ files \in [Devices -> ItemHeld]
    /\ selection \in [Devices -> [omit : ItemChosen, at : 0 .. MaxChoices]]
    /\ base \in [Devices -> [parts : ItemHeld, omit : ItemChosen \cup {Item!Never}, rev : Nat]]
    /\ op \in [Devices -> ItemOps]
    /\ head \in ItemHeads /\ revision \in Nat /\ head.rev <= revision
    /\ work \in [Linkers -> [edited : BOOLEAN, under : SUBSET {Item!Work}, half : BOOLEAN, touched : BOOLEAN]]
    /\ spent \in [edits : Nat, choices : 0 .. MaxChoices, faults : Nat]
    /\ told \in [dropped : SUBSET (Devices \X Parts), unmet : SUBSET Parts]

ItemTakes(d) == op[d].at \in {"taking", "adopting", "adopted"}
ItemSends(d) == op[d].at \in {"out", "sent"}
ItemHere(d, p) == IF <<d, p>> \in Symlinks THEN 0 ELSE files[d][p]
ItemDropped(p) == p \in told.unmet \/ \E e \in Devices : <<e, p>> \in told.dropped
ItemLost(p) == head.parts[p] = 0 /\ p \notin head.omit

ItemBegun ==
    /\ head.rev # 0 => head.omit \in ItemChosen
    /\ head.rev = 0 => \A p \in Parts : head.parts[p] = 0

ItemRevisions(d) ==
    /\ base[d].rev <= revision
    /\ head.rev = 0 => base[d].rev = 0
    /\ base[d].rev = 0 => \A p \in Parts : base[d].parts[p] = 0
    /\ base[d].rev = head.rev => base[d].parts = head.parts
    /\ ItemTakes(d) => /\ head.rev # 0 /\ op[d].there.rev <= revision /\ op[d].there.rev # 0
                       /\ op[d].there.omit \in ItemChosen
                       /\ op[d].there.rev = head.rev => op[d].there.parts = head.parts
    /\ op[d].at = "out" => op[d].rev = base[d].rev
    /\ op[d].at = "sent" => /\ head.rev # 0 /\ op[d].rev <= revision /\ op[d].rev # 0
                            /\ op[d].rev = head.rev => op[d].bundle.parts = head.parts

ItemGiven(d) == \A p \in Parts : ItemHere(d, p) = 0 =>
    /\ base[d].parts[p] # 0 => ItemDropped(p)
    /\ ItemTakes(d) => p \in op[d].todo \/ op[d].there.parts[p] = 0 \/ ItemDropped(p)
                        \/ p \in selection[d].omit \cup op[d].there.omit
    /\ ItemSends(d) => op[d].bundle.parts[p] = 0 \/ ItemDropped(p)

ItemGone(d) == \A p \in Parts :
    /\ base[d].parts[p] # 0 /\ ItemLost(p) => ItemDropped(p)
    /\ ItemTakes(d) => op[d].there.parts[p] = 0 \/ ~ItemLost(p) \/ ItemDropped(p)
    /\ op[d].at = "sent" => op[d].bundle.parts[p] = 0 \/ ~ItemLost(p) \/ ItemDropped(p)
    /\ op[d].at = "taking" /\ p \notin op[d].there.omit => base[d].parts[p] = 0 \/ op[d].there.parts[p] # 0 \/ ItemDropped(p)
    /\ op[d].at = "out" /\ p \notin op[d].bundle.omit => base[d].parts[p] = 0 \/ op[d].bundle.parts[p] # 0 \/ ItemDropped(p)

ItemMerges(d) ==
    /\ op[d].at \in {"adopting", "adopted"} => op[d].todo = {}
    /\ op[d].at = "taking" => \A p \in op[d].todo :
        /\ p \notin op[d].there.omit /\ op[d].there.parts[p] # base[d].parts[p]
        /\ p \in op[d].raced \/ Item!Verdict(ItemHere(d, p), op[d].there.parts[p], base[d].parts[p]) # "keep"

ItemLinks(d) ==
    /\ work[d].edited => work[d].touched
    /\ work[d].half \/ work[d].touched \/ work[d].under = selection[d].omit \cap {Item!Work}
    /\ op[d].at = "adopting" => work[d].half \/ work[d].touched \/ work[d].under = op[d].there.omit \cap {Item!Work}

ItemOf(d) == ItemRevisions(d) /\ ItemGiven(d) /\ ItemGone(d) /\ ItemMerges(d)
ItemInv == ItemTypes /\ ItemBegun /\ (\A d \in Devices : ItemOf(d)) /\ (\A d \in Linkers : ItemLinks(d))

-----------------------------------------------------------------------------
(* What an operation is, by where it stands.                                   *)
LEMMA ItemOpKinds ==
    /\ Item!Idle \in ItemOps /\ Item!Idle.at = "idle"
    /\ \A n \in Nat : Item!Looking(n) \in ItemOps /\ Item!Looking(n).at = "look"
    /\ \A o \in ItemOps :
        /\ o.at \in {"idle", "look", "taking", "adopting", "adopted", "out", "sent"}
        /\ o.at = "look" => o.round \in Nat
        /\ o.at \in {"taking", "adopting", "adopted"} => o \in ItemTakings
        /\ o.at \in {"out", "sent"} => o \in ItemSendings
<1>1. Item!Idle \in ItemOps /\ Item!Idle.at = "idle"
  BY DEF ItemOps, Item!Idle
<1>2. \A n \in Nat : Item!Looking(n) \in ItemOps /\ Item!Looking(n).at = "look" /\ Item!Looking(n).round = n
  BY DEF ItemOps, Item!Looking
<1>3. \A o \in ItemTakings : o.at \in {"taking", "adopting", "adopted"}
  BY DEF ItemTakings
<1>4. \A o \in ItemSendings : o.at \in {"out", "sent"}
  BY DEF ItemSendings
<1> QED BY <1>1, <1>2, <1>3, <1>4 DEF ItemOps

(* What the constants are, in the words the proofs use.                        *)
LEMMA ItemConstants ==
    /\ 0 \notin Texts /\ Texts \subseteq Nat /\ AtFirst \in ItemHeld /\ Profile \in Parts
    /\ Linkers \subseteq Devices /\ MaxChoices \in Nat /\ MaxTyped \in Nat /\ MaxStops \in Nat
    /\ {} \in ItemChosen /\ \A o \in ItemChosen : o \subseteq Parts \cup {Item!Work}
    /\ 0 \in 0 .. MaxChoices
BY ItemAssumption DEF Item!None, ItemHeld, ItemChosen

(* What is exported is what is here, but for what is left out.                 *)
LEMMA ItemExports ==
    ASSUME ItemTypes, NEW d \in Devices, NEW left \in ItemChosen
    PROVE  /\ Item!Export(d, left) \in ItemBundles /\ Item!Export(d, left).omit = left
           /\ \A p \in Parts : Item!Export(d, left).parts[p] = IF p \in left THEN 0 ELSE ItemHere(d, p)
<1>1. \A p \in Parts : files[d][p] \in Texts \cup {0}
  BY DEF ItemTypes, ItemHeld
<1> QED BY <1>1 DEF Item!Export, Item!Unlinked, Item!None, ItemHere, ItemBundles, ItemHeld

(* What is still to be done: nothing, or to send what is here.                 *)
LEMMA ItemOnward ==
    ASSUME ItemTypes, NEW d \in Devices, NEW last, NEW rev \in Nat, NEW round \in Nat,
           NEW left, left = selection[d].omit
    PROVE  LET o == Item!Onward(d, last, rev, round)
           IN  \/ o = Item!Idle
               \/ /\ o \in ItemSendings /\ o.at = "out" /\ o.rev = rev /\ o.bundle = Item!Export(d, left)
<1>1. left \in ItemChosen /\ selection[d].at \in 0 .. MaxChoices
  BY DEF ItemTypes
<1>2. Item!Export(d, left) \in ItemBundles
  BY <1>1, ItemExports
<1> QED BY <1>1, <1>2 DEF Item!Onward, ItemSendings

(* Nothing changes for a device none of whose own rows or files change, as     *)
(* long as the head stands and what was told stays told.                       *)
LEMMA ItemFrame ==
    ASSUME ItemTypes, NEW d \in Devices, ItemOf(d),
           files'[d] = files[d], selection'[d] = selection[d], base'[d] = base[d], op'[d] = op[d],
           UNCHANGED <<head, revision>>, \A p \in Parts : ItemDropped(p) => ItemDropped(p)'
    PROVE  ItemOf(d)'
<1>1. \A p \in Parts : ItemHere(d, p)' = ItemHere(d, p) /\ ItemLost(p)' = ItemLost(p)
  BY DEF ItemHere, ItemLost
<1>2. ItemTakes(d)' = ItemTakes(d) /\ ItemSends(d)' = ItemSends(d)
  BY DEF ItemTakes, ItemSends
<1>3. ItemRevisions(d)'
  BY <1>2 DEF ItemOf, ItemRevisions
<1>4. ItemGiven(d)'
  BY <1>1, <1>2 DEF ItemOf, ItemGiven
<1>5. ItemGone(d)'
  BY <1>1, <1>2 DEF ItemOf, ItemGone
<1>6. op[d].at = "taking" => op[d].todo \subseteq Parts
  BY ItemOpKinds DEF ItemTypes, ItemTakings
<1>7. ItemMerges(d)'
  BY <1>1, <1>6 DEF ItemOf, ItemMerges
<1> QED BY <1>3, <1>4, <1>5, <1>7 DEF ItemOf

(* The links, when no work and no selection changes and no adoption begins.    *)
LEMMA ItemLinksFrame ==
    ASSUME NEW d \in Linkers, ItemLinks(d), work'[d] = work[d], selection'[d] = selection[d],
           op'[d].at = "adopting" => op'[d] = op[d]
    PROVE  ItemLinks(d)'
BY DEF ItemLinks

LEMMA ItemStarts == Item!Init => ItemInv
<1> SUFFICES ASSUME Item!Init PROVE ItemInv
  OBVIOUS
<1> USE DEF Item!Init, Item!None
<1>1. Item!NoBundle.parts \in ItemHeld /\ \A p \in Parts : Item!NoBundle.parts[p] = 0
  BY DEF Item!NoBundle, ItemHeld, Item!None
<1>2. ItemTypes
  <2>1. /\ files \in [Devices -> ItemHeld]
        /\ selection \in [Devices -> [omit : ItemChosen, at : 0 .. MaxChoices]]
        /\ base \in [Devices -> [parts : ItemHeld, omit : ItemChosen \cup {Item!Never}, rev : Nat]]
    BY <1>1, ItemConstants
  <2>2. op \in [Devices -> ItemOps]
    BY ItemOpKinds
  <2>3. head \in ItemHeads /\ revision \in Nat /\ head.rev <= revision
    BY <1>1, ItemConstants DEF ItemHeads
  <2>4. /\ work \in [Linkers -> [edited : BOOLEAN, under : SUBSET {Item!Work}, half : BOOLEAN, touched : BOOLEAN]]
        /\ spent \in [edits : Nat, choices : 0 .. MaxChoices, faults : Nat]
        /\ told \in [dropped : SUBSET (Devices \X Parts), unmet : SUBSET Parts]
    BY ItemConstants
  <2> QED BY <2>1, <2>2, <2>3, <2>4 DEF ItemTypes
<1>3. ItemBegun
  BY <1>1 DEF ItemBegun
<1>4. ASSUME NEW d \in Devices PROVE ItemOf(d)
  <2>1. op[d].at = "idle" /\ base[d].parts = Item!NoBundle.parts /\ base[d].rev = 0
    BY ItemOpKinds
  <2> QED BY <1>1, <2>1 DEF ItemOf, ItemRevisions, ItemGiven, ItemGone, ItemMerges, ItemTakes, ItemSends
<1>5. ASSUME NEW d \in Linkers PROVE ItemLinks(d)
  <2>1. d \in Devices /\ op[d].at = "idle" /\ selection[d].omit = {}
    BY ItemConstants, ItemOpKinds
  <2>2. work[d].edited = FALSE /\ work[d].under = {}
    OBVIOUS
  <2> QED BY <2>1, <2>2 DEF ItemLinks
<1> QED BY <1>2, <1>3, <1>4, <1>5 DEF ItemInv

(* A part is typed in, or deleted: then it is one a writer deleted.            *)
LEMMA ItemTypeKeeps ==
    ASSUME ItemInv, NEW d \in Devices, NEW p \in Parts, NEW t \in Texts \cup {Item!None}, Item!Type(d, p, t)
    PROVE  ItemInv'
<1> USE DEF Item!None
<1>1. ItemTypes /\ ItemBegun /\ ItemOf(d)
  BY DEF ItemInv
<1>2. /\ files' = [files EXCEPT ![d][p] = t] /\ UNCHANGED <<selection, base, head, revision, work>>
      /\ spent' = [spent EXCEPT !.edits = @ + 1]
  BY DEF Item!Type
<1>3. files' \in [Devices -> ItemHeld] /\ files'[d] = [files[d] EXCEPT ![p] = t] /\ files[d] \in ItemHeld
  BY <1>1, <1>2 DEF ItemTypes, ItemHeld
<1>4. /\ op' \in [Devices -> ItemOps] /\ \A e \in Devices : e # d => op'[e] = op[e]
      /\ op[d].at # "taking" => op'[d] = op[d]
      /\ op[d].at = "taking" => /\ op'[d].at = "taking" /\ op'[d].there = op[d].there /\ op'[d].todo = op[d].todo
                                /\ op[d].todo \subseteq Parts
                                /\ op'[d].raced = op[d].raced \cup {p}
  <2>1. CASE op[d].at = "taking"
    <3>1. op[d] \in ItemTakings /\ op' = [op EXCEPT ![d].raced = @ \cup {p}]
      BY <1>1, <2>1, ItemOpKinds DEF ItemTypes, Item!Type
    <3>2. [op[d] EXCEPT !.raced = @ \cup {p}] \in ItemTakings
      BY <3>1 DEF ItemTakings
    <3> QED BY <1>1, <2>1, <3>1, <3>2 DEF ItemTypes, ItemOps, ItemTakings
  <2>2. CASE op[d].at # "taking"
    BY <1>1, <2>2 DEF ItemTypes, Item!Type
  <2> QED BY <2>1, <2>2
<1>5. /\ told' \in [dropped : SUBSET (Devices \X Parts), unmet : SUBSET Parts]
      /\ told'.unmet = told.unmet /\ told.dropped \subseteq told'.dropped
      /\ t = 0 => <<d, p>> \in told'.dropped
  BY <1>1 DEF ItemTypes, Item!Type
<1>6. /\ \A q \in Parts : ItemDropped(q) => ItemDropped(q)'
      /\ t = 0 => ItemDropped(p)'
      /\ \A q \in Parts : q # p => ItemHere(d, q)' = ItemHere(d, q)
      /\ t # 0 => (ItemHere(d, p)' = 0 => ItemHere(d, p) = 0)
      /\ \A q \in Parts : ItemLost(q)' = ItemLost(q)
  BY <1>2, <1>3, <1>5 DEF ItemDropped, ItemHere, ItemLost, ItemHeld
<1>7. ItemTypes'
  BY <1>1, <1>2, <1>3, <1>4, <1>5 DEF ItemTypes
<1>8. ItemBegun'
  BY <1>1, <1>2 DEF ItemBegun
<1>9. ItemOf(d)'
  <2>1. op'[d].at = op[d].at /\ (op[d].at # "taking" => op'[d] = op[d])
    BY <1>4
  <2>2. op[d].at = "taking" => /\ op'[d].there = op[d].there /\ op'[d].todo = op[d].todo
                               /\ op[d].todo \subseteq Parts /\ op'[d].raced = op[d].raced \cup {p}
    BY <1>4
  <2>3. ItemTakes(d) => op'[d].there = op[d].there /\ op'[d].todo = op[d].todo
    BY <2>1, <2>2
  <2>4. ItemTakes(d)' = ItemTakes(d) /\ ItemSends(d)' = ItemSends(d) /\ (ItemSends(d) => op'[d] = op[d])
        /\ (op[d].at = "out" => op'[d] = op[d]) /\ (op[d].at = "sent" => op'[d] = op[d])
    BY <2>1 DEF ItemTakes, ItemSends
  <2>5. ItemRevisions(d)'
    BY <1>1, <1>2, <2>1, <2>3, <2>4 DEF ItemOf, ItemRevisions
  <2>6. ItemGiven(d)'
    BY <1>1, <1>2, <1>6, <2>3, <2>4 DEF ItemOf, ItemGiven
  <2>7. ItemGone(d)'
    <3>1. op[d].at = "taking" => ItemTakes(d)
      BY DEF ItemTakes
    <3> QED BY <1>1, <1>2, <1>6, <2>1, <2>3, <2>4, <3>1 DEF ItemOf, ItemGone
  <2>8. ItemMerges(d)'
    BY <1>1, <1>2, <1>6, <2>1, <2>2 DEF ItemOf, ItemMerges
  <2> QED BY <2>5, <2>6, <2>7, <2>8 DEF ItemOf
<1>10. ASSUME NEW e \in Devices, e # d PROVE ItemOf(e)'
  <2>1. files'[e] = files[e] /\ op'[e] = op[e] /\ ItemOf(e)
    BY <1>1, <1>2, <1>4, <1>10 DEF ItemTypes, ItemInv
  <2> QED BY <1>1, <1>2, <1>6, <2>1, ItemFrame
<1>11. ASSUME NEW e \in Linkers PROVE ItemLinks(e)'
  <2>1. op'[e].at = "adopting" => op'[e] = op[e]
    BY <1>4, ItemConstants
  <2> QED BY <1>2, <2>1, ItemLinksFrame DEF ItemInv
<1> QED BY <1>7, <1>8, <1>9, <1>10, <1>11 DEF ItemInv

(* The work is edited, and goes up.                                            *)
LEMMA ItemWorkKeeps ==
    ASSUME ItemInv, NEW d \in Devices, Item!EditWork(d) \/ Item!UploadWork(d)
    PROVE  ItemInv'
<1>1. ItemTypes /\ ItemBegun
  BY DEF ItemInv
<1>2. d \in Linkers /\ UNCHANGED <<files, selection, base, op, head, revision, told>>
  <2>1. d \in Linkers /\ UNCHANGED <<Item!device, head, revision, told>>
    BY DEF Item!EditWork, Item!UploadWork
  <2> QED BY <2>1 DEF Item!device
<1>3. ItemTypes'
  <2>1. CASE Item!EditWork(d)
    <3>1. [work[d] EXCEPT !.edited = TRUE, !.touched = TRUE]
            \in [edited : BOOLEAN, under : SUBSET {Item!Work}, half : BOOLEAN, touched : BOOLEAN]
      BY <1>1, <1>2 DEF ItemTypes
    <3>2. work' \in [Linkers -> [edited : BOOLEAN, under : SUBSET {Item!Work}, half : BOOLEAN, touched : BOOLEAN]]
      BY <1>1, <1>2, <2>1, <3>1 DEF ItemTypes, Item!EditWork
    <3>3. spent' \in [edits : Nat, choices : 0 .. MaxChoices, faults : Nat]
      BY <1>1, <2>1 DEF ItemTypes, Item!EditWork
    <3> QED BY <1>1, <1>2, <3>2, <3>3 DEF ItemTypes
  <2>2. CASE Item!UploadWork(d)
    BY <1>1, <1>2, <2>2 DEF ItemTypes, Item!UploadWork
  <2> QED BY <2>1, <2>2
<1>4. ItemBegun'
  BY <1>1, <1>2 DEF ItemBegun
<1>5. ASSUME NEW e \in Devices PROVE ItemOf(e)'
  <2>1. \A p \in Parts : ItemDropped(p)' = ItemDropped(p)
    BY <1>2 DEF ItemDropped
  <2> QED BY <1>1, <1>2, <2>1, ItemFrame DEF ItemInv
<1>6. ASSUME NEW e \in Linkers PROVE ItemLinks(e)'
  <2>1. work[e] \in [edited : BOOLEAN, under : SUBSET {Item!Work}, half : BOOLEAN, touched : BOOLEAN] /\ ItemLinks(e)
    BY <1>1 DEF ItemInv, ItemTypes
  <2>2. CASE Item!EditWork(d)
    <3>1. work' = [work EXCEPT ![d].edited = TRUE, ![d].touched = TRUE]
      BY <2>2 DEF Item!EditWork
    <3>2. CASE e = d
      <4>1. work'[e].touched = TRUE
        BY <1>1, <1>2, <3>1, <3>2 DEF ItemTypes
      <4> QED BY <4>1 DEF ItemLinks
    <3>3. CASE e # d
      BY <1>1, <1>2, <2>1, <3>1, <3>3, ItemLinksFrame DEF ItemTypes
    <3> QED BY <3>2, <3>3
  <2>3. CASE Item!UploadWork(d)
    <3>1. /\ work' = [work EXCEPT ![d] = [edited |-> FALSE, under |-> selection[d].omit \cap {Item!Work},
                                          half |-> FALSE, touched |-> FALSE]]
          /\ op[d].at = "idle"
      BY <2>3 DEF Item!UploadWork
    <3>2. CASE e = d
      BY <1>1, <1>2, <3>1, <3>2 DEF ItemTypes, ItemLinks
    <3>3. CASE e # d
      BY <1>1, <1>2, <2>1, <3>1, <3>3, ItemLinksFrame DEF ItemTypes
    <3> QED BY <3>2, <3>3
  <2> QED BY <2>2, <2>3
<1> QED BY <1>3, <1>4, <1>5, <1>6 DEF ItemInv

(* A selection: the work counts as touched, and a look follows.                *)
LEMMA ItemChooseKeeps ==
    ASSUME ItemInv, NEW d \in Devices, NEW left \in Choices, Item!SetItems(d, left)
    PROVE  ItemInv'
<1>1. ItemTypes /\ ItemBegun /\ ItemOf(d)
  BY DEF ItemInv
<1> DEFINE chosen == [omit |-> left, at |-> spent'.choices]
<1>2. /\ op[d].at = "idle" /\ spent.choices < MaxChoices /\ spent' = [spent EXCEPT !.choices = @ + 1]
      /\ selection' = [selection EXCEPT ![d] = chosen] /\ op' = [op EXCEPT ![d] = Item!Looking(1)]
      /\ UNCHANGED <<files, base, head, revision, told>>
  BY DEF Item!SetItems
<1>3. spent' \in [edits : Nat, choices : 0 .. MaxChoices, faults : Nat]
  BY <1>1, <1>2, ItemConstants DEF ItemTypes
<1>4. chosen \in [omit : ItemChosen, at : 0 .. MaxChoices]
  BY <1>3 DEF ItemChosen
<1> HIDE DEF chosen
<1>5. op' \in [Devices -> ItemOps] /\ op'[d].at = "look" /\ \A e \in Devices : e # d => op'[e] = op[e]
  BY <1>1, <1>2, ItemOpKinds DEF ItemTypes
<1>6. /\ work' \in [Linkers -> [edited : BOOLEAN, under : SUBSET {Item!Work}, half : BOOLEAN, touched : BOOLEAN]]
      /\ d \in Linkers => work'[d].touched = TRUE
      /\ \A e \in Linkers : e # d => work'[e] = work[e]
  BY <1>1 DEF ItemTypes, Item!SetItems
<1>7. ItemTypes'
  <2>1. selection' \in [Devices -> [omit : ItemChosen, at : 0 .. MaxChoices]]
    BY <1>1, <1>2, <1>4 DEF ItemTypes
  <2> QED BY <1>1, <1>2, <1>3, <1>5, <1>6, <2>1 DEF ItemTypes
<1>8. ItemBegun'
  BY <1>1, <1>2 DEF ItemBegun
<1>9. \A p \in Parts : ItemDropped(p)' = ItemDropped(p) /\ ItemLost(p)' = ItemLost(p) /\ ItemHere(d, p)' = ItemHere(d, p)
  BY <1>2 DEF ItemDropped, ItemLost, ItemHere
<1>10. ItemOf(d)'
  <2>1. ~ItemTakes(d)' /\ ~ItemSends(d)'
    BY <1>5 DEF ItemTakes, ItemSends
  <2>2. ItemRevisions(d)'
    BY <1>1, <1>2, <1>5, <2>1 DEF ItemOf, ItemRevisions
  <2>3. ItemGiven(d)' /\ ItemGone(d)' /\ ItemMerges(d)'
    BY <1>1, <1>2, <1>5, <1>9, <2>1 DEF ItemOf, ItemGiven, ItemGone, ItemMerges
  <2> QED BY <2>2, <2>3 DEF ItemOf
<1>11. ASSUME NEW e \in Devices, e # d PROVE ItemOf(e)'
  <2>1. selection'[e] = selection[e] /\ op'[e] = op[e] /\ ItemOf(e)
    BY <1>1, <1>2, <1>5, <1>11 DEF ItemTypes, ItemInv
  <2> QED BY <1>1, <1>2, <1>9, <2>1, ItemFrame
<1>12. ASSUME NEW e \in Linkers PROVE ItemLinks(e)'
  <2>1. CASE e = d
    BY <1>5, <1>6, <2>1 DEF ItemLinks
  <2>2. CASE e # d
    <3>1. e \in Devices /\ selection'[e] = selection[e] /\ op'[e] = op[e]
      BY <1>1, <1>2, <1>5, <2>2, ItemConstants DEF ItemTypes
    <3> QED BY <1>6, <2>2, <3>1, ItemLinksFrame DEF ItemInv
  <2> QED BY <2>1, <2>2
<1> QED BY <1>7, <1>8, <1>10, <1>11, <1>12 DEF ItemInv

(* What a verdict other than keeping says, and what keeping does.              *)
LEMMA ItemVerdicts ==
    ASSUME NEW here, NEW there, NEW was
    PROVE  /\ Item!Verdict(here, there, was) # "keep" =>
                /\ there # was /\ there # here
                /\ there = 0 => here = was
                /\ there # 0 /\ here # was /\ here # 0 => Item!Newer(there, here)
           /\ Item!Verdict(here, there, was) = "keep" /\ here = 0 /\ there # 0 => there = was
BY DEF Item!Verdict, Item!None

(* A device's operation goes from one place to the next, with it what is only  *)
(* its own, and the item stays: so do all others.                              *)
LEMMA ItemStep ==
    ASSUME ItemInv, NEW d \in Devices, NEW o \in ItemOps, op' = [op EXCEPT ![d] = o],
           UNCHANGED <<head, revision>>,
           \A e \in Devices : e # d => files'[e] = files[e] /\ selection'[e] = selection[e] /\ base'[e] = base[e],
           \A p \in Parts : ItemDropped(p) => ItemDropped(p)'
    PROVE  /\ op' \in [Devices -> ItemOps] /\ op'[d] = o /\ ItemBegun'
           /\ head' \in ItemHeads /\ revision' \in Nat /\ head'.rev <= revision'
           /\ \A e \in Devices : e # d => op'[e] = op[e] /\ ItemOf(e)'
<1>1. ItemTypes /\ ItemBegun
  BY DEF ItemInv
<1>2. op' \in [Devices -> ItemOps] /\ op'[d] = o /\ \A e \in Devices : e # d => op'[e] = op[e]
  BY <1>1 DEF ItemTypes
<1>3. ItemBegun'
  BY <1>1 DEF ItemBegun
<1>4. ASSUME NEW e \in Devices, e # d PROVE ItemOf(e)'
  <2>1. ItemOf(e) /\ op'[e] = op[e] /\ files'[e] = files[e] /\ selection'[e] = selection[e] /\ base'[e] = base[e]
    BY <1>2, <1>4 DEF ItemInv
  <2> QED BY <1>1, <2>1, ItemFrame
<1> QED BY <1>1, <1>2, <1>3, <1>4 DEF ItemTypes

(* A look: it takes the head as it stands, goes on to send, or ends.           *)
LEMMA ItemLookKeeps ==
    ASSUME ItemInv, NEW d \in Devices, NEW sends \in BOOLEAN, Item!Look(d, sends)
    PROVE  ItemInv'
<1> DEFINE round == IF op[d].at = "idle" THEN 1 ELSE op[d].round
           taking == [at |-> "taking", there |-> head, sends |-> sends, round |-> round,
                      todo |-> Item!ToChange(d, head), raced |-> {}, kept |-> {}]
           onward == Item!Onward(d, Item!Known(d), Item!Standing(d), round)
           left == selection[d].omit
<1>1. ItemTypes /\ ItemBegun /\ ItemOf(d)
  BY DEF ItemInv
<1>2. UNCHANGED <<files, selection, base, head, revision, work, spent, told>>
  BY DEF Item!Look
<1>3. \/ Item!Moved(d) /\ op' = [op EXCEPT ![d] = taking]
      \/ ~Item!Moved(d) /\ op' = [op EXCEPT ![d] = onward]
  BY DEF Item!Look
<1>4. round \in Nat
  BY <1>1, ItemOpKinds DEF ItemTypes, Item!Look
<1>5. left \in ItemChosen
  BY <1>1 DEF ItemTypes
<1>6. \A p \in Parts : ItemDropped(p)' = ItemDropped(p) /\ ItemLost(p)' = ItemLost(p) /\ ItemHere(d, p)' = ItemHere(d, p)
  BY <1>2 DEF ItemDropped, ItemLost, ItemHere
<1>7. /\ \A p \in Parts : Item!Export(d, left).parts[p] = IF p \in left THEN 0 ELSE ItemHere(d, p)
      /\ \A p \in Parts : Item!Export(d, {}).parts[p] = ItemHere(d, p)
      /\ Item!Export(d, left) \in ItemBundles /\ Item!Export(d, left).omit = left
  BY <1>1, <1>5, ItemExports, ItemConstants
<1>8. Item!Standing(d) \in Nat
  BY <1>1 DEF Item!Standing, Item!None, ItemTypes
<1> SUFFICES ASSUME NEW o \in ItemOps, op' = [op EXCEPT ![d] = o], o.at # "adopting", op'[d] = o => ItemOf(d)'
             PROVE  ItemInv'
  <2>1. CASE Item!Moved(d) /\ op' = [op EXCEPT ![d] = taking]
    <3>1. head.rev # 0 /\ head.rev # base[d].rev /\ head.omit \in ItemChosen
      BY <1>1, <2>1 DEF Item!Moved, Item!None, ItemBegun
    <3>2. /\ taking.at = "taking" /\ taking.there = head /\ taking.todo = Item!ToChange(d, head) /\ taking.raced = {}
          /\ taking \in ItemTakings /\ taking \in ItemOps
      BY <1>1, <1>4 DEF ItemTypes, ItemTakings, ItemOps, Item!ToChange
    <3> HIDE DEF taking
    <3>3. /\ \A p \in taking.todo : /\ p \in Parts /\ p \notin left /\ p \notin head.omit
                                    /\ Item!Verdict(ItemHere(d, p), head.parts[p], base[d].parts[p]) # "keep"
          /\ \A p \in Parts \ taking.todo : p \in left \cup head.omit \/
                Item!Verdict(ItemHere(d, p), head.parts[p], base[d].parts[p]) = "keep"
      BY <1>7, <3>2 DEF Item!ToChange
    <3>4. ASSUME op'[d] = taking PROVE ItemOf(d)'
      <4>1. ItemTakes(d)' /\ ~ItemSends(d)'
        BY <3>2, <3>4 DEF ItemTakes, ItemSends
      <4>2. ItemRevisions(d)'
        BY <1>1, <1>2, <3>1, <3>2, <3>4, <4>1 DEF ItemOf, ItemRevisions, ItemTypes
      <4>3. ItemGiven(d)'
        <5> SUFFICES ASSUME NEW p \in Parts, ItemHere(d, p) = 0
                     PROVE  /\ base[d].parts[p] # 0 => ItemDropped(p)
                            /\ p \in taking.todo \/ head.parts[p] = 0 \/ ItemDropped(p) \/ p \in left \cup head.omit
          BY <1>2, <1>6, <3>2, <3>4, <4>1 DEF ItemGiven
        <5>1. base[d].parts[p] # 0 => ItemDropped(p)
          BY <1>1 DEF ItemOf, ItemGiven
        <5> QED BY <3>3, <5>1, ItemVerdicts
      <4>4. ItemGone(d)'
        <5> SUFFICES ASSUME NEW p \in Parts
                     PROVE  /\ base[d].parts[p] # 0 /\ ItemLost(p) => ItemDropped(p)
                            /\ head.parts[p] = 0 \/ ~ItemLost(p)
                            /\ p \notin head.omit => base[d].parts[p] = 0 \/ head.parts[p] # 0 \/ ItemDropped(p)
          BY <1>2, <1>6, <3>2, <3>4, <4>1 DEF ItemGone
        <5> QED BY <1>1 DEF ItemOf, ItemGone, ItemLost
      <4>5. ItemMerges(d)'
        <5>1. \A p \in taking.todo : head.parts[p] # base[d].parts[p]
          BY <3>3, ItemVerdicts
        <5> QED BY <1>2, <1>6, <3>2, <3>3, <3>4, <5>1 DEF ItemMerges
      <4> QED BY <4>2, <4>3, <4>4, <4>5 DEF ItemOf
    <3>5. taking.at # "adopting"
      BY <3>2
    <3> QED BY <2>1, <3>2, <3>4, <3>5
  <2>2. CASE ~Item!Moved(d) /\ op' = [op EXCEPT ![d] = onward]
    <3>1. \/ onward = Item!Idle
          \/ /\ onward \in ItemSendings /\ onward.at = "out" /\ onward.rev = Item!Standing(d)
             /\ onward.bundle = Item!Export(d, left)
      BY <1>1, <1>4, <1>8, ItemOnward
    <3> HIDE DEF onward
    <3>2. onward \in ItemOps /\ onward.at \in {"idle", "out"}
      BY <3>1, ItemOpKinds DEF ItemOps
    <3>3. Item!Standing(d) = base[d].rev
      BY <1>1 DEF Item!Standing, Item!None, ItemOf, ItemRevisions
    <3>4. ASSUME op'[d] = onward PROVE ItemOf(d)'
      <4>1. ~ItemTakes(d)' /\ (ItemSends(d)' => op'[d].at = "out") /\ op'[d].at \in {"idle", "out"}
        BY <3>2, <3>4 DEF ItemTakes, ItemSends
      <4>2. op'[d].at = "out" => op'[d].rev = base[d].rev /\ op'[d].bundle = Item!Export(d, left)
        BY <3>1, <3>3, <3>4, ItemOpKinds
      <4>3. ItemRevisions(d)'
        BY <1>1, <1>2, <4>1, <4>2 DEF ItemOf, ItemRevisions
      <4>4. ItemGiven(d)'
        BY <1>1, <1>2, <1>6, <1>7, <4>1, <4>2 DEF ItemOf, ItemGiven
      <4>5. ItemGone(d)'
        <5> SUFFICES ASSUME NEW p \in Parts
                     PROVE  /\ base[d].parts[p] # 0 /\ ItemLost(p) => ItemDropped(p)
                            /\ op'[d].at = "out" /\ p \notin op'[d].bundle.omit =>
                                base[d].parts[p] = 0 \/ op'[d].bundle.parts[p] # 0 \/ ItemDropped(p)
          BY <1>2, <1>6, <4>1 DEF ItemGone
        <5> QED BY <1>1, <1>7, <4>2 DEF ItemOf, ItemGone, ItemGiven
      <4>6. ItemMerges(d)'
        BY <4>1 DEF ItemMerges
      <4> QED BY <4>3, <4>4, <4>5, <4>6 DEF ItemOf
    <3> QED BY <2>2, <3>2, <3>4
  <2> QED BY <1>3, <2>1, <2>2
<1>9. /\ op' \in [Devices -> ItemOps] /\ op'[d] = o /\ ItemBegun'
      /\ \A e \in Devices : e # d => op'[e] = op[e] /\ ItemOf(e)'
  BY <1>2, <1>6, ItemStep
<1>10. ItemTypes'
  BY <1>1, <1>2, <1>9 DEF ItemTypes
<1>11. ASSUME NEW e \in Linkers PROVE ItemLinks(e)'
  <2>1. op'[e].at = "adopting" => op'[e] = op[e]
    BY <1>9, ItemConstants
  <2> QED BY <1>2, <2>1, ItemLinksFrame DEF ItemInv
<1> QED BY <1>9, <1>10, <1>11 DEF ItemInv

(* A part is taken in. One the device will not have counts as never given.     *)
LEMMA ItemApplyKeeps ==
    ASSUME ItemInv, NEW d \in Devices, NEW p \in Parts, Item!Apply(d, p)
    PROVE  ItemInv'
<1> DEFINE t == op[d].there.parts[p]
           stays == Item!Stays(d, p)
           rest == op[d].todo \ {p}
<1>1. ItemTypes /\ ItemBegun /\ ItemOf(d)
  BY DEF ItemInv
<1> DEFINE With(kept) == [op[d] EXCEPT !.todo = rest, !.kept = kept]
<1>2. /\ op[d].at = "taking" /\ p \in op[d].todo /\ UNCHANGED <<selection, base, head, revision, work>>
      /\ files' = IF stays THEN files ELSE [files EXCEPT ![d][p] = t]
      /\ told' = IF stays THEN [told EXCEPT !.unmet = @ \cup {p}] ELSE told
      /\ spent' = spent \/ spent' = [spent EXCEPT !.faults = @ + 1]
  BY DEF Item!Apply, Item!Remembers
<1>3. op[d] \in ItemTakings /\ files[d] \in ItemHeld
  BY <1>1, <1>2, ItemOpKinds DEF ItemTypes
<1>4. t \in Texts \cup {0} /\ op[d].todo \subseteq Parts /\ op[d].kept \subseteq Parts \X Texts
  BY <1>3 DEF ItemTakings, ItemHeads, ItemHeld
<1>5. PICK kept \in SUBSET (Parts \X Texts) : op' = [op EXCEPT ![d] = With(kept)]
  <2>1. CASE stays
    <3>1. op' = [op EXCEPT ![d] = [op[d] EXCEPT !.todo = rest]]
      BY <2>1 DEF Item!Apply
    <3>2. With(op[d].kept) = [op[d] EXCEPT !.todo = rest]
      BY <1>3 DEF ItemTakings
    <3> QED BY <1>4, <3>1, <3>2
  <2>2. CASE ~stays
    <3>1. PICK kept \in {Item!Keeps(d, p), {}} : op' = [op EXCEPT ![d].todo = @ \ {p}, ![d].kept = kept]
      BY <2>2 DEF Item!Apply
    <3>2. Item!Keeps(d, p) \subseteq Parts \X Texts
      BY <1>3 DEF Item!Keeps, Item!None, ItemHeld
    <3>3. kept \in SUBSET (Parts \X Texts)
      BY <3>1, <3>2
    <3>4. op' = [op EXCEPT ![d] = With(kept)]
      BY <1>1, <3>1 DEF ItemTypes
    <3> QED BY <3>3, <3>4
  <2> QED BY <2>1, <2>2
<1> DEFINE o == With(kept)
<1>6. /\ o \in ItemTakings /\ o.at = "taking" /\ o.there = op[d].there /\ o.todo = rest /\ o.raced = op[d].raced
      /\ o \in ItemOps
  BY <1>2, <1>3, <1>4, <1>5 DEF ItemTakings, ItemOps
<1> HIDE DEF o
<1>7. /\ files' \in [Devices -> ItemHeld] /\ \A e \in Devices : e # d => files'[e] = files[e]
      /\ \A q \in Parts : q # p \/ stays => files'[d][q] = files[d][q]
      /\ ~stays => files'[d][p] = t
  BY <1>1, <1>2, <1>3, <1>4 DEF ItemTypes, ItemHeld
<1>8. /\ told' \in [dropped : SUBSET (Devices \X Parts), unmet : SUBSET Parts]
      /\ told'.dropped = told.dropped /\ told.unmet \subseteq told'.unmet
      /\ stays => p \in told'.unmet
  BY <1>1, <1>2 DEF ItemTypes
<1>9. /\ \A q \in Parts : ItemDropped(q) => ItemDropped(q)'
      /\ stays => ItemDropped(p)'
      /\ \A q \in Parts : q # p \/ stays => ItemHere(d, q)' = ItemHere(d, q)
      /\ ~stays => ItemHere(d, p)' = t
      /\ \A q \in Parts : ItemLost(q)' = ItemLost(q)
  BY <1>2, <1>7, <1>8 DEF ItemDropped, ItemHere, ItemLost, Item!Stays
<1> HIDE DEF stays
<1>10. /\ op' \in [Devices -> ItemOps] /\ op'[d] = o /\ ItemBegun'
       /\ \A e \in Devices : e # d => op'[e] = op[e] /\ ItemOf(e)'
  <2>1. op' = [op EXCEPT ![d] = o]
    BY <1>5 DEF o
  <2> QED BY <1>2, <1>6, <1>7, <1>9, <2>1, ItemStep
<1>11. ItemTypes'
  <2>1. spent' \in [edits : Nat, choices : 0 .. MaxChoices, faults : Nat]
    <3>1. spent \in [edits : Nat, choices : 0 .. MaxChoices, faults : Nat]
      BY <1>1 DEF ItemTypes
    <3> QED BY <1>2, <3>1
  <2> QED BY <1>1, <1>2, <1>7, <1>8, <1>10, <2>1 DEF ItemTypes
<1>12. ItemOf(d)'
  <2>1. ItemTakes(d) /\ ItemTakes(d)' /\ ~ItemSends(d)' /\ op'[d].at = "taking"
    BY <1>2, <1>6, <1>10 DEF ItemTakes, ItemSends
  <2>2. ItemRevisions(d)'
    BY <1>1, <1>2, <1>6, <1>10, <2>1 DEF ItemOf, ItemRevisions
  <2>3. ItemGiven(d)'
    <3> SUFFICES ASSUME NEW q \in Parts, ItemHere(d, q)' = 0
                 PROVE  /\ base[d].parts[q] # 0 => ItemDropped(q)'
                        /\ q \in rest \/ op[d].there.parts[q] = 0 \/ ItemDropped(q)'
                            \/ q \in selection[d].omit \cup op[d].there.omit
      BY <1>2, <1>6, <1>10, <2>1 DEF ItemGiven
    <3>1. CASE q # p \/ stays
      <4>1. ItemHere(d, q) = 0
        BY <1>9, <3>1
      <4> QED BY <1>1, <1>9, <2>1, <3>1, <4>1 DEF ItemOf, ItemGiven
    <3>2. CASE q = p /\ ~stays
      <4>1. t = 0 /\ p \notin op[d].there.omit
        BY <1>1, <1>2, <1>9, <3>2 DEF ItemOf, ItemMerges
      <4> QED BY <1>1, <1>2, <1>9, <3>2, <4>1 DEF ItemOf, ItemGone
    <3> QED BY <3>1, <3>2
  <2>4. ItemGone(d)'
    BY <1>1, <1>2, <1>6, <1>9, <1>10, <2>1 DEF ItemOf, ItemGone
  <2>5. ItemMerges(d)'
    <3>1. \A q \in rest : q \in Parts /\ q \in op[d].todo /\ ItemHere(d, q)' = ItemHere(d, q)
      BY <1>4, <1>9
    <3> QED BY <1>1, <1>2, <1>6, <1>10, <2>1, <3>1 DEF ItemOf, ItemMerges
  <2> QED BY <2>2, <2>3, <2>4, <2>5 DEF ItemOf
<1>13. ASSUME NEW e \in Linkers PROVE ItemLinks(e)'
  <2>1. op'[e].at = "adopting" => op'[e] = op[e]
    BY <1>6, <1>10, ItemConstants
  <2> QED BY <1>2, <2>1, ItemLinksFrame DEF ItemInv
<1> QED BY <1>10, <1>11, <1>12, <1>13 DEF ItemInv

(* The links of the works that are as they were are made for the selection     *)
(* that is about to be adopted.                                                *)
LEMMA ItemRelinkKeeps ==
    ASSUME ItemInv, NEW d \in Devices, Item!Relink(d)
    PROVE  ItemInv'
<1> DEFINE o == [op[d] EXCEPT !.at = "adopting"]
           old == selection[d].omit \cap {Item!Work}
           new == op[d].there.omit \cap {Item!Work}
<1>1. ItemTypes /\ ItemBegun /\ ItemOf(d)
  BY DEF ItemInv
<1>2. /\ op[d].at = "taking" /\ op[d].todo = {} /\ UNCHANGED <<files, selection, base, head, revision, spent, told>>
      /\ op' = [op EXCEPT ![d] = o]
      /\ work' = IF d \in Linkers /\ old # new /\ Item!Unchanged(d, old, new)
                 THEN [work EXCEPT ![d].under = new, ![d].half = TRUE, ![d].edited = FALSE] ELSE work
  BY DEF Item!Relink
<1>3. op[d] \in ItemTakings
  BY <1>1, <1>2, ItemOpKinds DEF ItemTypes
<1>4. o \in ItemTakings /\ o \in ItemOps /\ o.at = "adopting" /\ o.there = op[d].there /\ o.todo = {}
  BY <1>2, <1>3 DEF ItemTakings, ItemOps
<1> HIDE DEF o
<1>5. \A p \in Parts : ItemDropped(p)' = ItemDropped(p) /\ ItemLost(p)' = ItemLost(p) /\ ItemHere(d, p)' = ItemHere(d, p)
  BY <1>2 DEF ItemDropped, ItemLost, ItemHere
<1>6. /\ op' \in [Devices -> ItemOps] /\ op'[d] = o /\ ItemBegun'
      /\ \A e \in Devices : e # d => op'[e] = op[e] /\ ItemOf(e)'
  BY <1>2, <1>4, <1>5, ItemStep
<1>7. /\ work' \in [Linkers -> [edited : BOOLEAN, under : SUBSET {Item!Work}, half : BOOLEAN, touched : BOOLEAN]]
      /\ \A e \in Linkers : e # d => work'[e] = work[e]
      /\ d \in Linkers => \/ work'[d] = work[d] /\ (old = new \/ ~Item!Unchanged(d, old, new))
                          \/ work'[d].half /\ ~work'[d].edited
  <2>1. CASE d \in Linkers /\ old # new /\ Item!Unchanged(d, old, new)
    <3> DEFINE w == [work[d] EXCEPT !.under = new, !.half = TRUE, !.edited = FALSE]
    <3>1. /\ w \in [edited : BOOLEAN, under : SUBSET {Item!Work}, half : BOOLEAN, touched : BOOLEAN]
          /\ w.half = TRUE /\ w.edited = FALSE
      BY <1>1, <2>1 DEF ItemTypes
    <3>2. work' = [work EXCEPT ![d] = w]
      BY <1>2, <2>1
    <3> QED BY <1>1, <2>1, <3>1, <3>2 DEF ItemTypes
  <2>2. CASE ~(d \in Linkers /\ old # new /\ Item!Unchanged(d, old, new))
    BY <1>1, <1>2, <2>2 DEF ItemTypes
  <2> QED BY <2>1, <2>2
<1>8. ItemTypes'
  BY <1>1, <1>2, <1>6, <1>7 DEF ItemTypes
<1>9. ItemOf(d)'
  <2>1. ItemTakes(d) /\ ItemTakes(d)' /\ ~ItemSends(d)' /\ op'[d].at = "adopting"
    BY <1>2, <1>4, <1>6 DEF ItemTakes, ItemSends
  <2>2. ItemRevisions(d)'
    BY <1>1, <1>2, <1>4, <1>6, <2>1 DEF ItemOf, ItemRevisions
  <2>3. ItemGiven(d)'
    BY <1>1, <1>2, <1>4, <1>5, <1>6, <2>1 DEF ItemOf, ItemGiven
  <2>4. ItemGone(d)'
    BY <1>1, <1>2, <1>4, <1>5, <1>6, <2>1 DEF ItemOf, ItemGone
  <2>5. ItemMerges(d)'
    BY <1>4, <1>6 DEF ItemMerges
  <2> QED BY <2>2, <2>3, <2>4, <2>5 DEF ItemOf
<1>10. ASSUME NEW e \in Linkers PROVE ItemLinks(e)'
  <2>1. CASE e # d
    <3>1. op'[e] = op[e]
      BY <1>6, <2>1, ItemConstants
    <3> QED BY <1>2, <1>7, <2>1, <3>1, ItemLinksFrame DEF ItemInv
  <2>2. CASE e = d
    <3>1. ItemLinks(d) /\ op'[d].there = op[d].there
      BY <1>4, <1>6, <2>2 DEF ItemInv
    <3>2. CASE work'[d] = work[d] /\ (old = new \/ ~Item!Unchanged(d, old, new))
      <4>1. work[d].half \/ work[d].touched \/ work[d].under = new
        BY <3>1, <3>2 DEF ItemLinks, Item!Unchanged
      <4> QED BY <1>2, <2>2, <3>1, <3>2, <4>1 DEF ItemLinks
    <3>3. CASE work'[d].half /\ ~work'[d].edited
      BY <2>2, <3>3 DEF ItemLinks
    <3> QED BY <1>7, <2>2, <3>2, <3>3
  <2> QED BY <2>1, <2>2
<1> QED BY <1>6, <1>8, <1>9, <1>10 DEF ItemInv

(* The selection is adopted. What was left out until now and differs was never *)
(* given to the device.                                                        *)
LEMMA ItemAdoptKeeps ==
    ASSUME ItemInv, NEW d \in Devices, Item!Adopt(d)
    PROVE  ItemInv'
<1> DEFINE o == [op[d] EXCEPT !.at = "adopted"]
           there == op[d].there
           chosen == [omit |-> there.omit, at |-> there.at]
           strange == Item!Strange(d, selection[d].omit)
<1>1. ItemTypes /\ ItemBegun /\ ItemOf(d)
  BY DEF ItemInv
<1>2. /\ op[d].at = "adopting" /\ UNCHANGED <<files, base, head, revision, spent>>
      /\ op' = [op EXCEPT ![d] = o] /\ selection' = [selection EXCEPT ![d] = chosen]
      /\ work' = [e \in Linkers |-> [work[e] EXCEPT !.half = @ /\ (e = d => work[e].under # there.omit \cap {Item!Work})]]
      /\ told' = [told EXCEPT !.unmet = @ \cup strange]
  BY DEF Item!Adopt
<1>3. op[d] \in ItemTakings
  BY <1>1, <1>2, ItemOpKinds DEF ItemTypes
<1>4. o \in ItemTakings /\ o \in ItemOps /\ o.at = "adopted" /\ o.there = there /\ o.todo = op[d].todo
  BY <1>3 DEF ItemTakings, ItemOps
<1> HIDE DEF o
<1>5. chosen \in [omit : ItemChosen, at : 0 .. MaxChoices]
  <2>1. there \in ItemHeads
    BY <1>3 DEF ItemTakings
  <2>2. there.omit \in ItemChosen
    BY <1>1, <1>2 DEF ItemOf, ItemRevisions, ItemTakes
  <2> QED BY <2>1, <2>2 DEF ItemHeads
<1>6. \A p \in selection[d].omit \cap Parts : there.parts[p] # ItemHere(d, p) => p \in strange
  BY <1>1, ItemExports, ItemConstants DEF Item!Strange
<1>7. strange \subseteq Parts
  BY DEF Item!Strange
<1> HIDE DEF strange, chosen
<1>8. /\ told' \in [dropped : SUBSET (Devices \X Parts), unmet : SUBSET Parts]
      /\ told'.dropped = told.dropped /\ told'.unmet = told.unmet \cup strange
  BY <1>1, <1>2, <1>7 DEF ItemTypes
<1>9. /\ \A p \in Parts : ItemDropped(p) => ItemDropped(p)'
      /\ \A p \in strange : ItemDropped(p)'
      /\ \A p \in Parts : ItemLost(p)' = ItemLost(p) /\ ItemHere(d, p)' = ItemHere(d, p)
  BY <1>2, <1>8 DEF ItemDropped, ItemLost, ItemHere
<1>10. selection' \in [Devices -> [omit : ItemChosen, at : 0 .. MaxChoices]]
       /\ selection'[d] = chosen /\ \A e \in Devices : e # d => selection'[e] = selection[e]
  BY <1>1, <1>2, <1>5 DEF ItemTypes
<1>11. /\ op' \in [Devices -> ItemOps] /\ op'[d] = o /\ ItemBegun'
       /\ \A e \in Devices : e # d => op'[e] = op[e] /\ ItemOf(e)'
  BY <1>2, <1>4, <1>9, <1>10, ItemStep
<1>12. /\ work' \in [Linkers -> [edited : BOOLEAN, under : SUBSET {Item!Work}, half : BOOLEAN, touched : BOOLEAN]]
       /\ \A e \in Linkers : /\ e # d => work'[e] = work[e]
                             /\ work'[e].edited = work[e].edited /\ work'[e].touched = work[e].touched
                             /\ work'[e].under = work[e].under
                             /\ e = d => work'[e].half = (work[e].half /\ work[e].under # there.omit \cap {Item!Work})
  <2> DEFINE half(e) == work[e].half /\ (e = d => work[e].under # there.omit \cap {Item!Work})
             links == [edited : BOOLEAN, under : SUBSET {Item!Work}, half : BOOLEAN, touched : BOOLEAN]
  <2>1. \A e \in Linkers : work[e] \in links /\ work'[e] = [work[e] EXCEPT !.half = half(e)]
    BY <1>1, <1>2 DEF ItemTypes
  <2>2. \A e \in Linkers : half(e) \in BOOLEAN /\ (e # d => half(e) = work[e].half)
    BY <2>1
  <2>3. work' = [e \in Linkers |-> work'[e]]
    BY <1>2
  <2>4. \A e \in Linkers :
            /\ work'[e] \in links /\ work'[e].edited = work[e].edited /\ work'[e].touched = work[e].touched
            /\ work'[e].under = work[e].under /\ work'[e].half = half(e)
    <3> HIDE DEF half
    <3> SUFFICES ASSUME NEW e \in Linkers
                 PROVE  /\ work'[e] \in links /\ work'[e].edited = work[e].edited /\ work'[e].touched = work[e].touched
                        /\ work'[e].under = work[e].under /\ work'[e].half = half(e)
      OBVIOUS
    <3>1. work[e] \in links /\ work'[e] = [work[e] EXCEPT !.half = half(e)] /\ half(e) \in BOOLEAN
      BY <2>1, <2>2
    <3>2. work'[e] \in links
      BY <3>1
    <3>3. work'[e].half = half(e)
      BY <3>1
    <3>4. work'[e].edited = work[e].edited /\ work'[e].touched = work[e].touched /\ work'[e].under = work[e].under
      BY <3>1
    <3> QED BY <3>2, <3>3, <3>4
  <2>5. \A e \in Linkers : e # d => work'[e] = work[e]
    <3> SUFFICES ASSUME NEW e \in Linkers, e # d PROVE work'[e] = work[e]
      OBVIOUS
    <3> HIDE DEF half
    <3>1. work[e] \in links /\ work'[e] = [work[e] EXCEPT !.half = half(e)] /\ half(e) = work[e].half
      BY <2>1, <2>2
    <3>2. \A w \in links : [w EXCEPT !.half = w.half] = w
      OBVIOUS
    <3>3. work'[e] = [work[e] EXCEPT !.half = work[e].half]
      BY <3>1, Zenon
    <3> HIDE DEF links
    <3> QED BY <3>1, <3>2, <3>3, Zenon
  <2> HIDE DEF links
  <2>6. work' \in [Linkers -> links]
    BY <2>3, <2>4
  <2> QED BY <2>4, <2>5, <2>6 DEF links
<1>13. ItemTypes'
  BY <1>1, <1>2, <1>8, <1>10, <1>11, <1>12 DEF ItemTypes
<1>14. ItemOf(d)'
  <2>1. ItemTakes(d) /\ ItemTakes(d)' /\ ~ItemSends(d)' /\ op'[d].at = "adopted" /\ op[d].todo = {}
    BY <1>1, <1>2, <1>4, <1>11 DEF ItemTakes, ItemSends, ItemOf, ItemMerges
  <2>2. ItemRevisions(d)'
    BY <1>1, <1>2, <1>4, <1>11, <2>1 DEF ItemOf, ItemRevisions
  <2>3. ItemGiven(d)'
    <3> SUFFICES ASSUME NEW p \in Parts, ItemHere(d, p) = 0
                 PROVE  /\ base[d].parts[p] # 0 => ItemDropped(p)'
                        /\ there.parts[p] = 0 \/ ItemDropped(p)' \/ p \in there.omit
      BY <1>2, <1>4, <1>9, <1>11, <2>1 DEF ItemGiven
    <3> QED BY <1>1, <1>6, <1>9, <2>1 DEF ItemOf, ItemGiven
  <2>4. ItemGone(d)'
    BY <1>1, <1>2, <1>4, <1>9, <1>11, <2>1 DEF ItemOf, ItemGone
  <2>5. ItemMerges(d)'
    BY <1>4, <1>11, <2>1 DEF ItemMerges
  <2> QED BY <2>2, <2>3, <2>4, <2>5 DEF ItemOf
<1>15. ASSUME NEW e \in Linkers PROVE ItemLinks(e)'
  <2>1. CASE e # d
    <3>1. op'[e] = op[e] /\ selection'[e] = selection[e]
      BY <1>10, <1>11, <2>1, ItemConstants
    <3> QED BY <1>12, <2>1, <3>1, ItemLinksFrame DEF ItemInv
  <2>2. CASE e = d
    <3>1. ItemLinks(d) /\ op'[d].at # "adopting" /\ selection'[d].omit = there.omit
      BY <1>4, <1>10, <1>11, <2>2 DEF ItemInv, chosen
    <3> QED BY <1>2, <1>12, <2>2, <3>1 DEF ItemLinks
  <2> QED BY <2>1, <2>2
<1> QED BY <1>11, <1>13, <1>14, <1>15 DEF ItemInv

(* The head that was taken becomes the base. What it has of the parts left out *)
(* was never given to the device, unless it is what stands here.               *)
LEMMA ItemSettleKeeps ==
    ASSUME ItemInv, NEW d \in Devices, Item!Settle(d)
    PROVE  ItemInv'
<1> DEFINE there == op[d].there
           left == selection[d].omit
           met == [parts |-> there.parts, omit |-> there.omit, rev |-> there.rev]
           onward == Item!Onward(d, [parts |-> there.parts, omit |-> there.omit], there.rev, op[d].round)
           o == IF op[d].sends THEN onward ELSE Item!Idle
           strange == Item!Strange(d, left \cup there.omit)
<1>1. ItemTypes /\ ItemBegun /\ ItemOf(d)
  BY DEF ItemInv
<1>2. /\ op[d].at \in {"taking", "adopted"} /\ UNCHANGED <<files, selection, head, revision, work, spent>>
      /\ op[d].at = "taking" => op[d].todo = {}
      /\ base' = [base EXCEPT ![d] = met] /\ op' = [op EXCEPT ![d] = o]
      /\ told' = [told EXCEPT !.unmet = @ \cup strange]
  BY DEF Item!Settle
<1>3. ItemTakes(d) /\ op[d].todo = {} /\ op[d] \in ItemTakings
  BY <1>1, <1>2, ItemOpKinds DEF ItemTakes, ItemOf, ItemMerges, ItemTypes
<1>4. /\ there.parts \in ItemHeld /\ there.omit \in ItemChosen /\ there.rev \in Nat /\ there.rev # 0
      /\ there.rev <= revision /\ head.rev # 0 /\ (there.rev = head.rev => there.parts = head.parts)
      /\ op[d].round \in Nat
  BY <1>1, <1>3 DEF ItemOf, ItemRevisions, ItemTakings, ItemHeads
<1>5. /\ met \in [parts : ItemHeld, omit : ItemChosen \cup {Item!Never}, rev : Nat]
      /\ met.parts = there.parts /\ met.rev = there.rev
  BY <1>4
<1>6. left \in ItemChosen
  BY <1>1 DEF ItemTypes
<1>7. \/ onward = Item!Idle
      \/ /\ onward \in ItemSendings /\ onward.at = "out" /\ onward.rev = there.rev
         /\ onward.bundle = Item!Export(d, left)
  BY <1>1, <1>4, ItemOnward
<1> HIDE DEF onward, met
<1>8. /\ o \in ItemOps /\ o.at \in {"idle", "out"}
      /\ o.at = "out" => o.rev = there.rev /\ o.bundle = Item!Export(d, left)
  BY <1>7, ItemOpKinds DEF ItemOps
<1> HIDE DEF o
<1>9. /\ \A p \in Parts : Item!Export(d, left).parts[p] = IF p \in left THEN 0 ELSE ItemHere(d, p)
      /\ \A p \in Parts : Item!Export(d, {}).parts[p] = ItemHere(d, p)
      /\ Item!Export(d, left).omit = left
  BY <1>1, <1>6, ItemExports, ItemConstants
<1>10. strange \subseteq Parts /\ \A p \in (left \cup there.omit) \cap Parts : there.parts[p] # ItemHere(d, p) => p \in strange
  BY <1>9 DEF Item!Strange
<1> HIDE DEF strange
<1>11. /\ told' \in [dropped : SUBSET (Devices \X Parts), unmet : SUBSET Parts]
       /\ told'.dropped = told.dropped /\ told'.unmet = told.unmet \cup strange
  BY <1>1, <1>2, <1>10 DEF ItemTypes
<1>12. /\ \A p \in Parts : ItemDropped(p) => ItemDropped(p)'
       /\ \A p \in strange : ItemDropped(p)'
       /\ \A p \in Parts : ItemLost(p)' = ItemLost(p) /\ ItemHere(d, p)' = ItemHere(d, p)
  BY <1>2, <1>11 DEF ItemDropped, ItemLost, ItemHere
<1>13. /\ base' \in [Devices -> [parts : ItemHeld, omit : ItemChosen \cup {Item!Never}, rev : Nat]]
       /\ base'[d] = met /\ \A e \in Devices : e # d => base'[e] = base[e]
  BY <1>1, <1>2, <1>5 DEF ItemTypes
<1>14. /\ op' \in [Devices -> ItemOps] /\ op'[d] = o /\ ItemBegun'
       /\ \A e \in Devices : e # d => op'[e] = op[e] /\ ItemOf(e)'
  BY <1>2, <1>8, <1>12, <1>13, ItemStep
<1>15. ItemTypes'
  BY <1>1, <1>2, <1>11, <1>13, <1>14 DEF ItemTypes
<1>16. ItemOf(d)'
  <2>1. ~ItemTakes(d)' /\ (ItemSends(d)' => op'[d].at = "out") /\ op'[d].at \in {"idle", "out"}
    BY <1>8, <1>14 DEF ItemTakes, ItemSends
  <2>2. base'[d].parts = there.parts /\ base'[d].rev = there.rev
    BY <1>5, <1>13
  <2>3. op'[d].at = "out" => op'[d].rev = there.rev /\ op'[d].bundle = Item!Export(d, left)
    BY <1>8, <1>14
  <2>4. ItemRevisions(d)'
    BY <1>2, <1>4, <2>1, <2>2, <2>3 DEF ItemRevisions
  <2>5. ASSUME NEW p \in Parts, ItemHere(d, p) = 0 PROVE there.parts[p] # 0 => ItemDropped(p)'
    BY <1>1, <1>3, <1>10, <1>12, <2>5 DEF ItemOf, ItemGiven
  <2>6. ItemGiven(d)'
    BY <1>9, <1>12, <2>1, <2>2, <2>3, <2>5 DEF ItemGiven
  <2>7. ItemGone(d)'
    <3> SUFFICES ASSUME NEW p \in Parts
                 PROVE  /\ there.parts[p] # 0 /\ ItemLost(p) => ItemDropped(p)'
                        /\ op'[d].at = "out" /\ p \notin op'[d].bundle.omit =>
                                there.parts[p] = 0 \/ op'[d].bundle.parts[p] # 0 \/ ItemDropped(p)'
      BY <1>12, <2>1, <2>2 DEF ItemGone
    <3>1. there.parts[p] # 0 /\ ItemLost(p) => ItemDropped(p)'
      BY <1>1, <1>3, <1>12 DEF ItemOf, ItemGone
    <3>2. ASSUME op'[d].at = "out", p \notin op'[d].bundle.omit
          PROVE  there.parts[p] = 0 \/ op'[d].bundle.parts[p] # 0 \/ ItemDropped(p)'
      BY <1>9, <2>3, <2>5, <3>2
    <3> QED BY <3>1, <3>2
  <2>8. ItemMerges(d)'
    BY <2>1 DEF ItemMerges
  <2> QED BY <2>4, <2>6, <2>7, <2>8 DEF ItemOf
<1>17. ASSUME NEW e \in Linkers PROVE ItemLinks(e)'
  <2>1. op'[e].at = "adopting" => op'[e] = op[e]
    BY <1>8, <1>14, ItemConstants
  <2> QED BY <1>2, <2>1, ItemLinksFrame DEF ItemInv
<1> QED BY <1>14, <1>15, <1>16, <1>17 DEF ItemInv

(* A bundle becomes the head, if the head is the one it was made on. What it   *)
(* has no more, its base had, and the head too: they are one revision.         *)
LEMMA ItemSendKeeps ==
    ASSUME ItemInv, NEW d \in Devices, Item!Send(d)
    PROVE  ItemInv'
<1>1. ItemTypes /\ ItemBegun /\ ItemOf(d) /\ op[d].at = "out" /\ op[d] \in ItemSendings
  BY ItemOpKinds DEF ItemInv, ItemTypes, Item!Send
<1>2. UNCHANGED <<files, selection, base, work, spent>>
  BY DEF Item!Send
<1>3. op[d].bundle \in ItemBundles /\ op[d].round \in Nat /\ op[d].chosen \in 0 .. MaxChoices
  BY <1>1 DEF ItemSendings
<1>4. CASE head.rev # op[d].rev
  <2> DEFINE o == IF op[d].round < Item!Rounds THEN Item!Looking(op[d].round + 1) ELSE Item!Idle
  <2>1. op' = [op EXCEPT ![d] = o] /\ UNCHANGED <<head, revision, told>>
    BY <1>4 DEF Item!Send
  <2>2. o \in ItemOps /\ o.at \in {"look", "idle"}
    BY <1>3, ItemOpKinds DEF Item!Rounds
  <2> HIDE DEF o
  <2>3. \A p \in Parts : ItemDropped(p)' = ItemDropped(p) /\ ItemLost(p)' = ItemLost(p) /\ ItemHere(d, p)' = ItemHere(d, p)
    BY <1>2, <2>1 DEF ItemDropped, ItemLost, ItemHere
  <2>4. /\ op' \in [Devices -> ItemOps] /\ op'[d] = o /\ ItemBegun'
        /\ \A e \in Devices : e # d => op'[e] = op[e] /\ ItemOf(e)'
    BY <1>2, <2>1, <2>2, <2>3, ItemStep
  <2>5. ItemTypes'
    BY <1>1, <1>2, <2>1, <2>4 DEF ItemTypes
  <2>6. ItemOf(d)'
    <3>1. ~ItemTakes(d)' /\ ~ItemSends(d)' /\ op'[d].at \in {"look", "idle"}
      BY <2>2, <2>4 DEF ItemTakes, ItemSends
    <3> QED BY <1>1, <1>2, <2>1, <2>3, <3>1 DEF ItemOf, ItemRevisions, ItemGiven, ItemGone, ItemMerges
  <2>7. ASSUME NEW e \in Linkers PROVE ItemLinks(e)'
    <3>1. op'[e].at = "adopting" => op'[e] = op[e]
      BY <2>2, <2>4, ItemConstants
    <3> QED BY <1>2, <3>1, ItemLinksFrame DEF ItemInv
  <2> QED BY <2>4, <2>5, <2>6, <2>7 DEF ItemInv
<1>5. CASE head.rev = op[d].rev
  <2> DEFINE o == [op[d] EXCEPT !.at = "sent", !.rev = revision']
             bundle == op[d].bundle
             empty == Item!BackEmpty(d)
  <2>1. /\ revision' = revision + 1
        /\ head' = [parts |-> bundle.parts, omit |-> bundle.omit, rev |-> revision', at |-> op[d].chosen]
        /\ op' = [op EXCEPT ![d] = o] /\ told' = [told EXCEPT !.unmet = @ \cup empty]
    BY <1>5 DEF Item!Send
  <2>2. revision \in Nat /\ revision' \in Nat /\ revision' # 0
    BY <1>1, <2>1 DEF ItemTypes
  <2>3. /\ o \in ItemOps /\ o.at = "sent" /\ o.bundle = bundle /\ o.rev = revision'
    BY <1>1, <2>2 DEF ItemSendings, ItemOps
  <2> HIDE DEF o
  <2>4. op' \in [Devices -> ItemOps] /\ op'[d] = o /\ \A e \in Devices : e # d => op'[e] = op[e]
    BY <1>1, <2>1, <2>3 DEF ItemTypes
  <2>5. /\ head' \in ItemHeads /\ head'.rev = revision' /\ head'.parts = bundle.parts /\ head'.omit = bundle.omit
        /\ head'.omit \in ItemChosen
    BY <1>3, <2>1, <2>2 DEF ItemHeads, ItemBundles
  <2>6. empty \subseteq Parts /\ \A p \in Parts : p \in head.omit /\ p \notin bundle.omit /\ bundle.parts[p] = 0 => p \in empty
    BY DEF Item!BackEmpty, Item!None
  <2> HIDE DEF empty
  <2>7. /\ told' \in [dropped : SUBSET (Devices \X Parts), unmet : SUBSET Parts]
        /\ told'.dropped = told.dropped /\ told'.unmet = told.unmet \cup empty
    BY <1>1, <2>1, <2>6 DEF ItemTypes
  <2>8. /\ \A p \in Parts : ItemDropped(p) => ItemDropped(p)'
        /\ \A p \in empty : ItemDropped(p)'
    BY <2>7 DEF ItemDropped
  <2>9. ItemTypes'
    <3>1. head'.rev <= revision'
      BY <2>2, <2>5
    <3> QED BY <1>1, <1>2, <2>2, <2>4, <2>5, <2>7, <3>1 DEF ItemTypes
  <2>10. ItemBegun'
    BY <2>2, <2>5 DEF ItemBegun
  <2>11. base[d].rev = head.rev /\ base[d].parts = head.parts
    BY <1>1, <1>5 DEF ItemOf, ItemRevisions
  <2>12. ASSUME NEW p \in Parts, ItemLost(p)', head.rev # 0 PROVE ItemLost(p) \/ ItemDropped(p)'
    <3>1. bundle.parts[p] = 0 /\ p \notin bundle.omit
      BY <2>5, <2>12 DEF ItemLost
    <3>2. CASE head.parts[p] # 0
      <4>1. ItemDropped(p)
        BY <1>1, <2>11, <3>1, <3>2 DEF ItemOf, ItemGone
      <4> QED BY <2>8, <4>1
    <3>3. CASE head.parts[p] = 0 /\ p \in head.omit
      BY <2>6, <2>8, <3>1, <3>3
    <3> QED BY <3>2, <3>3 DEF ItemLost
  <2>13. ASSUME NEW e \in Devices PROVE ItemOf(e)'
    <3>1. ItemOf(e) /\ (e # d => op'[e] = op[e]) /\ \A p \in Parts : ItemHere(e, p)' = ItemHere(e, p)
      BY <1>2, <2>4 DEF ItemInv, ItemHere
    <3>2. base'[e] = base[e] /\ selection'[e] = selection[e] /\ base[e].rev \in Nat /\ base[e].rev <= revision
      BY <1>1, <1>2, <3>1 DEF ItemTypes, ItemOf, ItemRevisions
    <3>3. head.rev = 0 => \A p \in Parts : base[e].parts[p] = 0
      BY <3>1 DEF ItemOf, ItemRevisions
    <3>4. \A p \in Parts : base[e].parts[p] # 0 /\ ItemLost(p)' => ItemDropped(p)'
      BY <2>8, <2>12, <3>1, <3>3 DEF ItemOf, ItemGone
    <3>5. CASE e = d
      <4>1. op'[e].at = "sent" /\ op'[e].bundle = bundle /\ op'[e].rev = revision' /\ ~ItemTakes(e)' /\ ItemSends(e)'
        BY <2>3, <2>4, <3>5 DEF ItemTakes, ItemSends
      <4>2. ItemRevisions(e)'
        BY <2>2, <2>1, <2>5, <3>1, <3>2, <4>1 DEF ItemOf, ItemRevisions
      <4>3. ItemGiven(e)'
        <5>1. ItemSends(d)
          BY <1>1 DEF ItemSends
        <5> QED BY <1>1, <2>8, <3>1, <3>2, <3>5, <4>1, <5>1 DEF ItemOf, ItemGiven
      <4>4. ItemGone(e)'
        BY <2>5, <3>2, <3>4, <4>1 DEF ItemGone, ItemLost
      <4>5. ItemMerges(e)'
        BY <4>1 DEF ItemMerges
      <4> QED BY <4>2, <4>3, <4>4, <4>5 DEF ItemOf
    <3>6. CASE e # d
      <4>1. op'[e] = op[e] /\ ItemTakes(e)' = ItemTakes(e) /\ ItemSends(e)' = ItemSends(e)
        BY <3>1, <3>6 DEF ItemTakes, ItemSends
      <4>2. /\ ItemTakes(e) => op[e].there.rev \in Nat /\ op[e].there.rev <= revision /\ head.rev # 0
            /\ op[e].at = "sent" => op[e].rev \in Nat /\ op[e].rev <= revision /\ head.rev # 0
        <5>1. op[e] \in ItemOps
          BY <1>1 DEF ItemTypes
        <5>2. ItemTakes(e) => op[e].there.rev \in Nat
          BY <5>1, ItemOpKinds DEF ItemTakes, ItemTakings, ItemHeads
        <5>3. op[e].at = "sent" => op[e].rev \in Nat
          BY <5>1, ItemOpKinds DEF ItemSendings
        <5> QED BY <3>1, <5>2, <5>3 DEF ItemOf, ItemRevisions
      <4>3. ItemRevisions(e)'
        BY <2>1, <2>2, <2>5, <3>1, <3>2, <4>1, <4>2 DEF ItemOf, ItemRevisions
      <4>4. ItemGiven(e)'
        BY <2>8, <3>1, <3>2, <4>1 DEF ItemOf, ItemGiven
      <4>5. ItemGone(e)'
        <5> SUFFICES ASSUME NEW p \in Parts
                     PROVE  /\ ItemTakes(e) => op[e].there.parts[p] = 0 \/ ~ItemLost(p)' \/ ItemDropped(p)'
                            /\ op[e].at = "sent" => op[e].bundle.parts[p] = 0 \/ ~ItemLost(p)' \/ ItemDropped(p)'
                            /\ op[e].at = "taking" /\ p \notin op[e].there.omit =>
                                base[e].parts[p] = 0 \/ op[e].there.parts[p] # 0 \/ ItemDropped(p)'
                            /\ op[e].at = "out" /\ p \notin op[e].bundle.omit =>
                                base[e].parts[p] = 0 \/ op[e].bundle.parts[p] # 0 \/ ItemDropped(p)'
          BY <3>2, <3>4, <4>1 DEF ItemGone
        <5> QED BY <2>8, <2>12, <3>1, <4>2 DEF ItemOf, ItemGone
      <4>6. ItemMerges(e)'
        <5>1. op[e].at = "taking" => op[e].todo \subseteq Parts
          BY <1>1, ItemOpKinds DEF ItemTypes, ItemTakings
        <5> QED BY <3>1, <3>2, <4>1, <5>1 DEF ItemOf, ItemMerges
      <4> QED BY <4>3, <4>4, <4>5, <4>6 DEF ItemOf
    <3> QED BY <3>5, <3>6
  <2>14. ASSUME NEW e \in Linkers PROVE ItemLinks(e)'
    <3>1. op'[e].at = "adopting" => op'[e] = op[e]
      BY <2>3, <2>4, ItemConstants
    <3> QED BY <1>2, <3>1, ItemLinksFrame DEF ItemInv
  <2> QED BY <2>9, <2>10, <2>13, <2>14 DEF ItemInv
<1> QED BY <1>4, <1>5

(* What was sent becomes the base, or an operation stops half way.             *)
LEMMA ItemEndKeeps ==
    ASSUME ItemInv, NEW d \in Devices, Item!Record(d) \/ Item!Fail(d)
    PROVE  ItemInv'
<1>1. ItemTypes /\ ItemBegun /\ ItemOf(d)
  BY DEF ItemInv
<1>2. UNCHANGED <<files, selection, head, revision, work, told>> /\ op' = [op EXCEPT ![d] = Item!Idle]
  BY DEF Item!Record, Item!Fail
<1>3. /\ \A e \in Devices : e # d => base'[e] = base[e]
      /\ \/ base' = base
         \/ /\ op[d].at = "sent" /\ base'[d].parts = op[d].bundle.parts /\ base'[d].rev = op[d].rev
      /\ base' \in [Devices -> [parts : ItemHeld, omit : ItemChosen \cup {Item!Never}, rev : Nat]]
  <2>1. CASE Item!Record(d)
    <3> DEFINE met == [parts |-> op[d].bundle.parts, omit |-> op[d].bundle.omit, rev |-> op[d].rev]
    <3>1. op[d].at = "sent" /\ base' = [base EXCEPT ![d] = met] /\ op[d] \in ItemSendings
      BY <1>1, <2>1, ItemOpKinds DEF Item!Record, ItemTypes
    <3>2. /\ met \in [parts : ItemHeld, omit : ItemChosen \cup {Item!Never}, rev : Nat]
          /\ met.parts = op[d].bundle.parts /\ met.rev = op[d].rev
      BY <3>1 DEF ItemSendings, ItemBundles
    <3> HIDE DEF met
    <3> QED BY <1>1, <3>1, <3>2 DEF ItemTypes
  <2>2. CASE Item!Fail(d)
    BY <1>1, <2>2 DEF ItemTypes, Item!Fail
  <2> QED BY <2>1, <2>2
<1>4. spent' \in [edits : Nat, choices : 0 .. MaxChoices, faults : Nat]
  BY <1>1 DEF ItemTypes, Item!Record, Item!Fail
<1>5. \A p \in Parts : ItemDropped(p)' = ItemDropped(p) /\ ItemLost(p)' = ItemLost(p) /\ ItemHere(d, p)' = ItemHere(d, p)
  BY <1>2 DEF ItemDropped, ItemLost, ItemHere
<1>6. /\ op' \in [Devices -> ItemOps] /\ op'[d] = Item!Idle /\ ItemBegun'
      /\ \A e \in Devices : e # d => op'[e] = op[e] /\ ItemOf(e)'
  BY <1>2, <1>3, <1>5, ItemStep, ItemOpKinds
<1>7. ItemTypes'
  BY <1>1, <1>2, <1>3, <1>4, <1>6 DEF ItemTypes
<1>8. ItemOf(d)'
  <2>1. ~ItemTakes(d)' /\ ~ItemSends(d)' /\ op'[d].at = "idle"
    BY <1>6, ItemOpKinds DEF ItemTakes, ItemSends
  <2>2. CASE base' = base
    BY <1>1, <1>2, <1>5, <2>1, <2>2 DEF ItemOf, ItemRevisions, ItemGiven, ItemGone, ItemMerges
  <2>3. CASE op[d].at = "sent" /\ base'[d].parts = op[d].bundle.parts /\ base'[d].rev = op[d].rev
    <3>1. ItemRevisions(d)'
      BY <1>1, <1>2, <2>1, <2>3 DEF ItemOf, ItemRevisions
    <3>2. ItemGiven(d)'
      BY <1>1, <1>2, <1>5, <2>1, <2>3 DEF ItemOf, ItemGiven, ItemSends
    <3>3. ItemGone(d)'
      BY <1>1, <1>2, <1>5, <2>1, <2>3 DEF ItemOf, ItemGone
    <3>4. ItemMerges(d)'
      BY <2>1 DEF ItemMerges
    <3> QED BY <3>1, <3>2, <3>3, <3>4 DEF ItemOf
  <2> QED BY <1>3, <2>2, <2>3
<1>9. ASSUME NEW e \in Linkers PROVE ItemLinks(e)'
  <2>1. op'[e].at = "adopting" => op'[e] = op[e]
    BY <1>6, ItemConstants, ItemOpKinds
  <2> QED BY <1>2, <2>1, ItemLinksFrame DEF ItemInv
<1> QED BY <1>6, <1>7, <1>8, <1>9 DEF ItemInv

LEMMA ItemNextKeeps == ItemInv /\ [Item!Next]_(Item!vars) => ItemInv'
<1> SUFFICES ASSUME ItemInv, [Item!Next]_(Item!vars) PROVE ItemInv'
  OBVIOUS
<1>1. ASSUME NEW d \in Devices, NEW p \in Parts, NEW t \in Texts \cup {Item!None}, Item!Type(d, p, t) PROVE ItemInv'
  BY <1>1, ItemTypeKeeps
<1>2. ASSUME NEW d \in Devices, Item!EditWork(d) \/ Item!UploadWork(d) PROVE ItemInv'
  BY <1>2, ItemWorkKeeps
<1>3. ASSUME NEW d \in Devices, NEW left \in Choices, Item!SetItems(d, left) PROVE ItemInv'
  BY <1>3, ItemChooseKeeps
<1>4. ASSUME NEW d \in Devices, NEW sends \in BOOLEAN, Item!Look(d, sends) PROVE ItemInv'
  BY <1>4, ItemLookKeeps
<1>5. ASSUME NEW d \in Devices, Item!Step(d) \/ Item!Fail(d) PROVE ItemInv'
  <2>1. ASSUME NEW p \in Parts, Item!Apply(d, p) PROVE ItemInv'
    BY <2>1, ItemApplyKeeps
  <2>2. CASE Item!Relink(d) \/ Item!Adopt(d) \/ Item!Settle(d)
    BY <2>2, ItemRelinkKeeps, ItemAdoptKeeps, ItemSettleKeeps
  <2>3. CASE Item!Send(d) \/ Item!Record(d) \/ Item!Fail(d)
    BY <2>3, ItemSendKeeps, ItemEndKeeps
  <2> QED BY <1>5, <2>1, <2>2, <2>3 DEF Item!Step
<1>6. CASE UNCHANGED Item!vars
  <2>1. UNCHANGED <<files, selection, base, op, head, revision, work, spent, told>>
    BY <1>6 DEF Item!vars, Item!device
  <2>2. \A p \in Parts : ItemDropped(p)' = ItemDropped(p)
    BY <2>1 DEF ItemDropped
  <2>3. \A d \in Devices : ItemOf(d)'
    BY <2>1, <2>2, ItemFrame DEF ItemInv
  <2>4. \A d \in Linkers : ItemLinks(d)'
    BY <2>1, ItemLinksFrame DEF ItemInv
  <2> QED BY <2>1, <2>3, <2>4 DEF ItemInv, ItemTypes, ItemBegun
<1> QED BY <1>1, <1>2, <1>3, <1>4, <1>5, <1>6 DEF Item!Next

-----------------------------------------------------------------------------
LEMMA ItemTyped == ItemInv => Item!TypeOK
<1> SUFFICES ASSUME ItemInv PROVE Item!TypeOK
  OBVIOUS
<1>1. ItemTypes
  BY DEF ItemInv
<1>2. files \in [Devices -> [Parts -> Texts \cup {Item!None}]] /\ DOMAIN work = Linkers
  BY <1>1 DEF ItemTypes, ItemHeld, Item!None
<1>3. \A o \in ItemChosen \cup {Item!Never}, h \in ItemHeld : [parts |-> h, omit |-> o] \in Item!Bundle
  <2>1. \A o \in ItemChosen : o \in SUBSET (Parts \cup {Item!Work})
    <3>1. \A o \in ItemChosen : o \subseteq Parts \cup {Item!Work}
      BY ItemConstants
    <3> QED BY <3>1
  <2>2. ItemHeld = [Parts -> Texts \cup {Item!None}]
    BY DEF ItemHeld, Item!None
  <2> SUFFICES ASSUME NEW o \in ItemChosen \cup {Item!Never}, NEW h \in ItemHeld
               PROVE  [parts |-> h, omit |-> o] \in Item!Bundle
    OBVIOUS
  <2>3. o \in (SUBSET (Parts \cup {Item!Work})) \cup {Item!Never}
    BY <2>1, Zenon
  <2> QED BY <2>2, <2>3 DEF Item!Bundle
<1>4. head.parts \in ItemHeld /\ head.omit \in ItemChosen \cup {Item!Never} /\ head.rev \in 0 .. revision /\ head.at \in 0 .. MaxChoices
  BY <1>1 DEF ItemTypes, ItemHeads
<1>5. ASSUME NEW d \in Devices
      PROVE  /\ selection[d].omit \in Choices \cup {{}} /\ selection[d].at \in 0 .. MaxChoices
             /\ [parts |-> base[d].parts, omit |-> base[d].omit] \in Item!Bundle
             /\ base[d].rev \in 0 .. revision
             /\ op[d].at \in {"idle", "look", "taking", "adopting", "adopted", "out", "sent"}
  <2>1. base[d].parts \in ItemHeld /\ base[d].omit \in ItemChosen \cup {Item!Never} /\ base[d].rev \in Nat
    BY <1>1 DEF ItemTypes
  <2>2. base[d].rev <= revision /\ revision \in Nat
    BY <1>1 DEF ItemInv, ItemOf, ItemRevisions, ItemTypes
  <2>3. op[d] \in ItemOps /\ selection[d] \in [omit : ItemChosen, at : 0 .. MaxChoices]
    BY <1>1 DEF ItemTypes
  <2> QED BY <1>3, <2>1, <2>2, <2>3, ItemOpKinds DEF ItemChosen
<1> QED BY <1>2, <1>3, <1>4, <1>5 DEF Item!TypeOK

(* A take changes a part by taking it in, and only that one.                   *)
LEMMA ItemTakesParts ==
    ASSUME ItemInv, [Item!Next]_(Item!vars), NEW d \in Devices, Item!Takes(d), NEW p \in Parts, files'[d][p] # files[d][p]
    PROVE  Item!Apply(d, p)
<1>1. ItemTypes
  BY DEF ItemInv
<1>2. op[d].at = "taking" /\ op'[d].at = "taking" /\ op'[d].todo # op[d].todo
  BY DEF Item!Takes
<1>3. ASSUME NEW e \in Devices, NEW q \in Parts, NEW t \in Texts \cup {Item!None}, Item!Type(e, q, t) PROVE FALSE
  <2>1. CASE op[e].at = "taking"
    <3>1. op' = [op EXCEPT ![e].raced = @ \cup {q}] /\ op[e] \in ItemTakings
      BY <1>1, <1>3, <2>1, ItemOpKinds DEF Item!Type, ItemTypes
    <3>2. [op[e] EXCEPT !.raced = @ \cup {q}].todo = op[e].todo
      BY <3>1 DEF ItemTakings
    <3> QED BY <1>1, <1>2, <3>1, <3>2 DEF ItemTypes
  <2>2. CASE op[e].at # "taking"
    BY <1>2, <1>3, <2>2 DEF Item!Type
  <2> QED BY <2>1, <2>2
<1>4. ASSUME NEW e \in Devices, Item!EditWork(e) \/ Item!UploadWork(e) PROVE FALSE
  <2>1. UNCHANGED Item!device
    BY <1>4 DEF Item!EditWork, Item!UploadWork
  <2> QED BY <1>2, <2>1 DEF Item!device
<1>5. ASSUME NEW e \in Devices, NEW left \in Choices, Item!SetItems(e, left) PROVE FALSE
  BY <1>5 DEF Item!SetItems
<1>6. ASSUME NEW e \in Devices, NEW sends \in BOOLEAN, Item!Look(e, sends) PROVE FALSE
  BY <1>6 DEF Item!Look
<1>7. ASSUME NEW e \in Devices, NEW q \in Parts, Item!Apply(e, q) PROVE Item!Apply(d, p)
  <2>1. e = d
    <3>1. e # d => op'[d] = op[d]
      BY <1>1, <1>7 DEF Item!Apply, ItemTypes
    <3> QED BY <1>2, <3>1
  <2>2. q = p
    <3>1. files[d] \in ItemHeld
      BY <1>1 DEF ItemTypes
    <3>2. files' = files \/ files' = [files EXCEPT ![d][q] = op[d].there.parts[q]]
      BY <1>7, <2>1 DEF Item!Apply
    <3> QED BY <1>1, <3>1, <3>2 DEF ItemTypes, ItemHeld
  <2> QED BY <1>7, <2>1, <2>2
<1>8. ASSUME NEW e \in Devices, Item!Relink(e) \/ Item!Adopt(e) \/ Item!Settle(e) \/ Item!Send(e) \/ Item!Record(e) \/ Item!Fail(e)
      PROVE  FALSE
  <2>1. UNCHANGED files
    BY <1>8 DEF Item!Relink, Item!Adopt, Item!Settle, Item!Send, Item!Record, Item!Fail
  <2> QED BY <2>1
<1>9. CASE UNCHANGED Item!vars
  <2>1. UNCHANGED Item!device
    BY <1>9 DEF Item!vars
  <2> QED BY <1>2, <2>1 DEF Item!device
<1> QED BY <1>3, <1>4, <1>5, <1>6, <1>7, <1>8, <1>9 DEF Item!Next, Item!Step

(* What a take is about to change, by what it goes by.                         *)
LEMMA ItemChanges ==
    ASSUME ItemInv, NEW d \in Devices, NEW p \in Parts, Item!Apply(d, p), files'[d][p] # files[d][p]
    PROVE  /\ files'[d][p] = op[d].there.parts[p]
           /\ p \notin op[d].there.omit /\ op[d].at = "taking"
           /\ op[d].there.parts[p] # base[d].parts[p]
           /\ p \in op[d].raced \/ Item!Verdict(files[d][p], op[d].there.parts[p], base[d].parts[p]) # "keep"
           /\ \/ op'[d].kept = Item!Keeps(d, p)
              \/ p \in op[d].raced
              \/ p \in Logged /\ spent' = [spent EXCEPT !.faults = @ + 1]
<1> DEFINE t == op[d].there.parts[p]
           With(kept) == [op[d] EXCEPT !.todo = @ \ {p}, !.kept = kept]
<1>1. ItemTypes /\ ItemOf(d) /\ op[d].at = "taking" /\ p \in op[d].todo
  BY DEF ItemInv, Item!Apply
<1>2. op[d] \in ItemTakings /\ files[d] \in ItemHeld
  BY <1>1, ItemOpKinds DEF ItemTypes
<1>3. ~Item!Stays(d, p) /\ files' = [files EXCEPT ![d][p] = t]
  BY DEF Item!Apply
<1>4. PICK kept \in {Item!Keeps(d, p), {}} :
          /\ Item!Remembers(d, p, kept)
          /\ op' = [op EXCEPT ![d].todo = @ \ {p}, ![d].kept = kept]
  BY <1>3 DEF Item!Apply
<1>5. files'[d][p] = t /\ op'[d].kept = kept
  <2>1. files'[d][p] = t /\ op'[d] = With(kept)
    BY <1>1, <1>2, <1>3, <1>4 DEF ItemTypes, ItemHeld
  <2>2. With(kept).kept = kept
    BY <1>2 DEF ItemTakings
  <2> QED BY <2>1, <2>2
<1>6. ItemHere(d, p) = files[d][p]
  BY <1>3 DEF ItemHere, Item!Stays
<1>7. /\ p \notin op[d].there.omit /\ t # base[d].parts[p]
      /\ p \in op[d].raced \/ Item!Verdict(ItemHere(d, p), t, base[d].parts[p]) # "keep"
  BY <1>1 DEF ItemOf, ItemMerges
<1>8. \/ kept = Item!Keeps(d, p)
      \/ p \in op[d].raced
      \/ p \in Logged /\ spent' = [spent EXCEPT !.faults = @ + 1]
  BY <1>4 DEF Item!Remembers
<1> QED BY <1>1, <1>5, <1>6, <1>7, <1>8

LEMMA ItemGoneByHand ==
    ASSUME ItemInv, [Item!Next]_(Item!vars), NEW d \in Devices, NEW p \in Parts, Item!Takes(d), Item!Removes(d, p)
    PROVE  \/ p \in told.unmet
           \/ /\ \E e \in Devices : <<e, p>> \in told.dropped
              /\ files[d][p] = base[d].parts[p] \/ p \in op[d].raced
<1>1. files[d][p] # 0 /\ files'[d][p] = 0
  BY DEF Item!Removes, Item!None
<1>2. Item!Apply(d, p)
  BY <1>1, ItemTakesParts
<1>3. /\ op[d].there.parts[p] = 0 /\ p \notin op[d].there.omit /\ op[d].at = "taking" /\ base[d].parts[p] # 0
      /\ p \in op[d].raced \/ files[d][p] = base[d].parts[p]
  BY <1>1, <1>2, ItemChanges, ItemVerdicts
<1>4. ItemDropped(p)
  BY <1>3 DEF ItemInv, ItemOf, ItemGone
<1> QED BY <1>3, <1>4 DEF ItemDropped

LEMMA ItemTextsKept ==
    ASSUME ItemInv, [Item!Next]_(Item!vars), NEW d \in Devices, NEW p \in Parts, Item!Takes(d),
           Item!Removes(d, p) \/ Item!Replaces(d, p)
    PROVE  \/ files[d][p] = base[d].parts[p] \/ <<p, files[d][p]>> \in op'[d].kept \/ p \in op[d].raced
           \/ /\ Item!Newer(files'[d][p], files[d][p])
              /\ p \notin Logged \/ files[d][p] \in Unparsed \/ spent' # spent
<1>1. files[d][p] # 0 /\ files'[d][p] # files[d][p]
  BY DEF Item!Removes, Item!Replaces, Item!None
<1>2. Item!Apply(d, p)
  BY <1>1, ItemTakesParts
<1>3. /\ files'[d][p] = op[d].there.parts[p]
      /\ p \in op[d].raced \/ Item!Verdict(files[d][p], op[d].there.parts[p], base[d].parts[p]) # "keep"
      /\ \/ op'[d].kept = Item!Keeps(d, p)
         \/ p \in op[d].raced
         \/ p \in Logged /\ spent' = [spent EXCEPT !.faults = @ + 1]
  BY <1>1, <1>2, ItemChanges
<1>4. ASSUME p \in Logged, files[d][p] \notin Unparsed, op'[d].kept = Item!Keeps(d, p)
      PROVE  <<p, files[d][p]>> \in op'[d].kept
  BY <1>1, <1>4 DEF Item!Keeps, Item!None
<1>5. p \notin op[d].raced => files[d][p] = base[d].parts[p] \/ Item!Newer(files'[d][p], files[d][p])
  BY <1>1, <1>3, ItemVerdicts
<1>6. [spent EXCEPT !.faults = @ + 1] # spent
  <2>1. spent \in [edits : Nat, choices : 0 .. MaxChoices, faults : Nat]
    BY DEF ItemInv, ItemTypes
  <2>2. [spent EXCEPT !.faults = @ + 1].faults = spent.faults + 1 /\ spent.faults + 1 # spent.faults
    BY <2>1
  <2> QED BY <2>2
<1> QED BY <1>3, <1>4, <1>5, <1>6

LEMMA ItemAdoptionIsNoEdit ==
    ASSUME ItemInv, ItemInv', NEW d \in Linkers, [Item!Next]_(Item!vars)
    PROVE  /\ ~work'[d].half /\ Item!ReadsChanged(d)' => work'[d].touched
           /\ work[d].edited /\ ~work'[d].edited => ~work'[d].touched
<1>1. ItemTypes /\ ItemTypes' /\ ItemLinks(d)'
  BY DEF ItemInv
<1>2. ~work'[d].half /\ Item!ReadsChanged(d)' => work'[d].touched
  BY <1>1 DEF ItemLinks, Item!ReadsChanged
<1>3. ASSUME work[d].edited, ~work'[d].edited PROVE ~work'[d].touched
  <2>1. ASSUME NEW e \in Devices, Item!EditWork(e) PROVE work'[d].edited = work[d].edited \/ work'[d].edited = TRUE
    BY <1>1, <2>1 DEF Item!EditWork, ItemTypes
  <2>2. ASSUME NEW e \in Devices, Item!UploadWork(e) PROVE work'[d] = work[d] \/ work'[d].touched = FALSE
    BY <1>1, <2>2 DEF Item!UploadWork, ItemTypes
  <2>3. ASSUME NEW e \in Devices, NEW left \in Choices, Item!SetItems(e, left) PROVE work'[d].edited = work[d].edited
    BY <1>1, <2>3 DEF Item!SetItems, ItemTypes
  <2>4. ASSUME NEW e \in Devices, Item!Relink(e) PROVE work'[d].edited = work[d].edited
    <3>1. CASE work' = work
      BY <3>1
    <3>2. CASE /\ e \in Linkers /\ ~work[e].edited
               /\ work' = [work EXCEPT ![e].under = op[e].there.omit \cap {Item!Work}, ![e].half = TRUE, ![e].edited = FALSE]
      <4>1. e # d
        BY <1>3, <3>2
      <4> QED BY <1>1, <3>2, <4>1 DEF ItemTypes
    <3> QED BY <2>4, <3>1, <3>2 DEF Item!Relink, Item!Unchanged
  <2>5. ASSUME NEW e \in Devices, Item!Adopt(e) PROVE work'[d].edited = work[d].edited
    BY <1>1, <2>5 DEF Item!Adopt, ItemTypes
  <2>6. ASSUME NEW e \in Devices, NEW p \in Parts, Item!Apply(e, p) \/ Item!Settle(e) \/ Item!Send(e)
                \/ Item!Record(e) \/ Item!Fail(e) \/ \E t \in Texts \cup {Item!None} : Item!Type(e, p, t)
        PROVE  work' = work
    BY <2>6 DEF Item!Apply, Item!Settle, Item!Send, Item!Record, Item!Fail, Item!Type
  <2>7. ASSUME NEW e \in Devices, NEW sends \in BOOLEAN, Item!Look(e, sends) PROVE work' = work
    BY <2>7 DEF Item!Look
  <2>8. CASE UNCHANGED Item!vars
    BY <1>3, <2>8 DEF Item!vars
  <2> QED BY <1>3, <2>1, <2>2, <2>3, <2>4, <2>5, <2>6, <2>7, <2>8, ItemConstants DEF Item!Next, Item!Step
<1> QED BY <1>2, <1>3

(* What leaves a part, leaves it because a writer deleted it somewhere; what   *)
(* is replaced was sent, is in a skill's history, or is older than what comes, *)
(* of a part or a file nothing is remembered of; an adopted selection is no    *)
(* edit. On any devices, however the writer types and the target's rounds fall *)
(* between.                                                                    *)
(* (library.go takeLibrary, adoptSelection; vaultbundle/library.go mergePart)  *)
THEOREM LibrarySafe == Item!Spec => LibraryKept
<1> DEFINE Hand == \A d \in Devices, p \in Parts : Item!Takes(d) /\ Item!Removes(d, p) =>
                \/ p \in told.unmet
                \/ /\ \E e \in Devices : <<e, p>> \in told.dropped
                   /\ files[d][p] = base[d].parts[p] \/ p \in op[d].raced
           Kept == \A d \in Devices, p \in Parts : Item!Takes(d) /\ (Item!Removes(d, p) \/ Item!Replaces(d, p)) =>
                \/ files[d][p] = base[d].parts[p] \/ <<p, files[d][p]>> \in op'[d].kept \/ p \in op[d].raced
                \/ /\ Item!Newer(files'[d][p], files[d][p])
                   /\ p \notin Logged \/ files[d][p] \in Unparsed \/ spent' # spent
           NoEdit == \A d \in Linkers :
                /\ ~work'[d].half /\ Item!ReadsChanged(d)' => work'[d].touched
                /\ work[d].edited /\ ~work'[d].edited => ~work'[d].touched
<1>1. ItemInv /\ [Item!Next]_(Item!vars) => [Hand]_(Item!vars) /\ [Kept]_(Item!vars)
  BY ItemGoneByHand, ItemTextsKept
<1>2. ItemInv /\ ItemInv' /\ [Item!Next]_(Item!vars) => [NoEdit]_(Item!vars)
  BY ItemAdoptionIsNoEdit
<1>3. Item!Spec => [](Item!TypeOK) /\ [][Hand]_(Item!vars) /\ [][Kept]_(Item!vars) /\ [][NoEdit]_(Item!vars)
  <2> HIDE DEF Hand, Kept, NoEdit
  <2> QED BY <1>1, <1>2, ItemStarts, ItemNextKeeps, ItemTyped, PTL DEF Item!Spec
<1> QED BY <1>3 DEF LibraryKept, Item!LibraryKept, Item!GoneByHand, Item!TextsKept, Item!AdoptionIsNoEdit
=============================================================================
