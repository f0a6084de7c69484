----------------------------- MODULE FolderProofs -----------------------------
(***************************************************************************)
(* What Folder promises for any number of devices, words, revisions, edits *)
(* and days: every variable keeps its type (Typed), and a revision that is *)
(* to stay keeps its blob (BlobsAreThere).                                 *)
(*                                                                         *)
(* BlobsStay is not inductive.  Two regimes carry it, parted by the day a  *)
(* blob is first past the grace (once):                                    *)
(*   before it, nobody has taken the blob away (Undeleted), so what a      *)
(*     revision anywhere names is somewhere (Named);                       *)
(*   after it, a revision that was there on that day and is gone from a    *)
(*     device is not put back (Settled), a sweep at work has seen it in    *)
(*     use (Seen), and while it is everywhere so is its blob (Together).   *)
(***************************************************************************)
EXTENDS Folder, FiniteSetTheorems, WellFoundedInduction, TLAPS

Around(x)     == x \in cloud \/ \E d \in Devices : x \in folder[d]
Everywhere(x) == x \in cloud /\ \A d \in Devices : x \in told[d] /\ x \in folder[d]

AgedOnce  == \A d \in Devices : aged[d] \subseteq once
Undeleted == \A b \in Blobs \ once, d \in Devices : b \in told[d] => b \in folder[d] /\ b \in cloud
Named     == \A f \in Revisions : Around(f) /\ Blob(f.text) \notin once => Around(Blob(f.text))

\* The revisions that were there when their blob was first past the grace.
Older(f)    == f \in Revisions /\ f \notin stale /\ Blob(f.text) \in once
Settled(f)  == \A d \in Devices : (f \in folder[d] => f \in told[d]) /\ (f \in cloud => f \in told[d])
Seen(f)     == \A d \in Devices : f \in folder[d] /\ op[d].pc = "sweeping" => f.text \in op[d].used
Together(f) == Everywhere(f) => Everywhere(Blob(f.text))

Finite == \A d \in Devices : IsFiniteSet(folder[d])

Inv ==
    /\ AgedOnce /\ Undeleted /\ Named
    /\ \A f : Older(f) => Settled(f) /\ Seen(f) /\ Together(f)

-----------------------------------------------------------------------------
(* Files. *)

LEMMA BlobIs == ASSUME NEW t PROVE Blob(t).kind = "blob" /\ Blob(t).text = t
  BY DEF Blob

LEMMA RevIs ==
  ASSUME NEW n, NEW d, NEW t
  PROVE  /\ Rev(n, d, t).kind = "revision" /\ Rev(n, d, t).number = n
         /\ Rev(n, d, t).device = d /\ Rev(n, d, t).text = t
  BY DEF Rev

\* A revision has a number, the device that wrote it and a text, and is no blob.
LEMMA RevisionIs ==
  ASSUME NEW f \in Revisions
  PROVE  /\ f.kind = "revision" /\ f.number \in 1..MaxRevision /\ f.device \in Nat
         /\ f.text \in Texts /\ f \notin Blobs
  <1>1. {} \in Texts  BY DEF Texts
  <1>2. f = First \/ \E n \in 1..MaxRevision, d \in Devices, t \in Texts : f = Rev(n, d, t)
    BY DEF Revisions
  <1>3. f.kind = "revision" /\ f.number \in 1..MaxRevision /\ f.device \in Nat /\ f.text \in Texts
    <2>1. CASE f = First  BY <1>1, <2>1, RevIs, BoundsAssumption DEF First
    <2>2. CASE \E n \in 1..MaxRevision, d \in Devices, t \in Texts : f = Rev(n, d, t)
      BY <2>2, RevIs, DevicesAssumption
    <2> QED  BY <1>2, <2>1, <2>2
  <1>4. ASSUME NEW b \in Blobs PROVE f # b
    <2>1. b.kind = "blob"  BY BlobIs DEF Blobs
    <2> QED  BY <1>3, <2>1
  <1> QED  BY <1>3, <1>4

\* A file that is a revision, and one that is a blob.
LEMMA FileIs ==
  ASSUME NEW f \in Files
  PROVE  /\ f \in Revisions \/ f \in Blobs
         /\ f.kind = "revision" => f \in Revisions
  <1>1. ASSUME f \in Blobs PROVE f.kind = "blob"  BY <1>1, BlobIs DEF Blobs
  <1> QED  BY <1>1 DEF Files

LEMMA BlobIn == ASSUME NEW t \in Texts PROVE Blob(t) \in Blobs /\ Blob(t) \in Files
  BY DEF Blobs, Files

LEMMA RevIn ==
  ASSUME NEW n \in 1..MaxRevision, NEW d \in Devices, NEW t \in Texts
  PROVE  Rev(n, d, t) \in Revisions /\ Rev(n, d, t) \in Files
  BY DEF Revisions, Files

-----------------------------------------------------------------------------
(* The newest of a finite number of revisions. *)

\* Of finitely many things in an order any two of which it compares one is greatest.
LEMMA GreatestExists ==
  ASSUME NEW S, IsFiniteSet(S), S # {}, NEW R,
         \A x, y \in S : <<x, y>> \in R \/ <<y, x>> \in R,
         \A x, y, z \in S : <<x, y>> \in R /\ <<y, z>> \in R => <<x, z>> \in R
  PROVE  \E m \in S : \A x \in S : <<x, m>> \in R
  <1> DEFINE Has_(T) == \E m \in T : \A x \in T : <<x, m>> \in R
             Bad == {T \in FiniteSubsetsOf(S) : T # {} /\ ~ Has_(T)}
  <1>1. SUFFICES ASSUME Bad # {} PROVE FALSE
    <2>1. S \in FiniteSubsetsOf(S)  BY DEF FiniteSubsetsOf
    <2> QED  BY <1>1, <2>1
  <1>2. PICK T \in Bad : \A U \in Bad : ~ (<<U, T>> \in StrictSubsetOrdering(S))
    <2>1. IsWellFoundedOn(StrictSubsetOrdering(S), FiniteSubsetsOf(S))
      BY FS_StrictSubsetOrderingWellFounded
    <2>2. Bad \subseteq FiniteSubsetsOf(S)  OBVIOUS
    <2> HIDE DEF Bad
    <2> QED  BY <1>1, <2>1, <2>2, WFMin
  <1>3. T \subseteq S /\ IsFiniteSet(T) /\ T # {} /\ ~ Has_(T)  BY DEF FiniteSubsetsOf
  <1>4. PICK x \in T : TRUE  BY <1>3
  <1> DEFINE U == T \ {x}
  <1>5. U \subseteq S /\ IsFiniteSet(U) /\ x \notin U /\ T = U \cup {x}
    <2>1. IsFiniteSet(U)  BY <1>3, FS_RemoveElement
    <2>2. T \subseteq S  BY <1>3
    <2>3. T = U \cup {x}  BY <1>4
    <2> QED  BY <2>1, <2>2, <2>3
  <1>6. <<U, T>> \in StrictSubsetOrdering(S)
    BY <1>3, <1>4, <1>5 DEF StrictSubsetOrdering
  <1>7. U \notin Bad  BY <1>2, <1>6
  <1>8. U \in FiniteSubsetsOf(S)  BY <1>5 DEF FiniteSubsetsOf
  <1>9. U = {} \/ Has_(U)  BY <1>7, <1>8
  <1> HIDE DEF U, Bad
  <1>10. CASE U = {}
    <2>1. T = {x}  BY <1>5, <1>10
    <2>2. <<x, x>> \in R  BY <1>3, <1>4
    <2> QED  BY <1>3, <2>1, <2>2
  <1>11. CASE Has_(U)
    <2>1. PICK m \in U : \A y \in U : <<y, m>> \in R  BY <1>11
    <2>2. m \in S /\ x \in S /\ m \in T  BY <1>3, <1>4, <1>5, <2>1
    <2>3. CASE <<x, m>> \in R
      <3>1. \A y \in T : <<y, m>> \in R  BY <1>5, <2>1, <2>3
      <3> QED  BY <1>3, <2>2, <3>1
    <2>4. CASE <<m, x>> \in R
      <3>1. \A y \in U : <<y, x>> \in R  BY <1>5, <2>1, <2>2, <2>4
      <3>2. <<x, x>> \in R  BY <2>2
      <3>3. \A y \in T : <<y, x>> \in R  BY <1>5, <3>1, <3>2
      <3> QED  BY <1>3, <1>4, <3>3
    <2> QED  BY <2>2, <2>3, <2>4
  <1> QED  BY <1>9, <1>10, <1>11

\* A folder that has a revision has a head, one of its revisions.
LEMMA HeadIs ==
  ASSUME TypeOK, Finite, NEW d \in Devices, Has(d)
  PROVE  Head(d) \in RevisionsIn(d) /\ Head(d) \in Revisions /\ Head(d) \in folder[d]
  <1> DEFINE S == RevisionsIn(d)
             R == {p \in S \X S : Newer(p[2], p[1])}
  <1>1. \A f \in S : f \in folder[d] /\ f \in Revisions /\ f.number \in Nat /\ f.device \in Nat
    <2> TAKE f \in S
    <2>1. f \in folder[d] /\ f \in Files /\ f.kind = "revision"  BY DEF RevisionsIn, TypeOK
    <2>2. f \in Revisions  BY <2>1, FileIs
    <2> QED  BY <2>1, <2>2, RevisionIs, BoundsAssumption
  <1>2. IsFiniteSet(S) /\ S # {}
    <2>1. S \in SUBSET folder[d]  BY DEF RevisionsIn
    <2> QED  BY <2>1, FS_Subset DEF Finite, Has
  <1>3. \A f, g \in S : <<f, g>> \in R <=> Newer(g, f)  OBVIOUS
  <1> HIDE DEF S, R
  <1>4. \A f, g \in S : <<f, g>> \in R \/ <<g, f>> \in R
    <2> TAKE f, g \in S
    <2>1. f.number \in Nat /\ g.number \in Nat /\ f.device \in Nat /\ g.device \in Nat  BY <1>1
    <2>2. Newer(f, g) \/ Newer(g, f)  BY <2>1 DEF Newer
    <2> QED  BY <1>3, <2>2
  <1>5. \A f, g, h \in S : <<f, g>> \in R /\ <<g, h>> \in R => <<f, h>> \in R
    BY <1>1, <1>3 DEF Newer
  <1>6. \E f \in S : \A g \in S : <<g, f>> \in R  BY <1>2, <1>4, <1>5, GreatestExists
  <1>7. \E f \in S : \A g \in S : Newer(f, g)  BY <1>3, <1>6
  <1>8. Head(d) \in S  BY <1>7 DEF Head, Newest, S
  <1> QED  BY <1>1, <1>8 DEF S

-----------------------------------------------------------------------------
(* Types. *)

\* The run of one device becomes r, and that of the others stays.
Becomes(d, r) == op' \in [Devices -> Running] /\ op'[d] = r /\ \A e \in Devices \ {d} : op'[e] = op[e]
Goes(d, pc)   == /\ op' \in [Devices -> Running] /\ op'[d].pc = pc /\ op'[d].used = op[d].used
                 /\ \A e \in Devices \ {d} : op'[e] = op[e]

LEMMA FirstIs == First \in Revisions /\ First \in Files /\ First \notin Blobs
  BY RevisionIs DEF Revisions, Files

LEMMA IdleIs == Idle \in Running /\ Idle.pc = "idle"
  <1>1. {} \in Texts /\ {} \in SUBSET Texts /\ "idle" \in Steps /\ FALSE \in BOOLEAN
    BY DEF Texts, Steps
  <1> QED  BY <1>1, FirstIs DEF Idle, Running

LEMMA RunBecomes ==
  ASSUME TypeOK, NEW d \in Devices, NEW r \in Running, op' = [op EXCEPT ![d] = r]
  PROVE  Becomes(d, r)
  BY DEF TypeOK, Becomes

LEMMA RunGoes ==
  ASSUME TypeOK, NEW d \in Devices, NEW pc \in Steps, op' = [op EXCEPT ![d].pc = pc]
  PROVE  Goes(d, pc)
  <1> DEFINE r == [op[d] EXCEPT !.pc = pc]
  <1>1. op[d] \in Running  BY DEF TypeOK
  <1>2. r \in Running /\ r.pc = pc /\ r.used = op[d].used  BY <1>1 DEF Running
  <1>3. op' = [op EXCEPT ![d] = r]  OBVIOUS
  <1> HIDE DEF r
  <1>4. Becomes(d, r)  BY <1>2, <1>3, RunBecomes
  <1> QED  BY <1>2, <1>4 DEF Becomes, Goes

LEMMA LinkTyped ==
  ASSUME TypeOK, NEW d \in Devices, NEW n \in 1..MaxRevision, NEW t \in Texts, Linked(d, n, t)
  PROVE  link' \in [Devices -> [base : 1..MaxRevision, hash : Texts, mark : Texts]]
  <1> DEFINE l == [base |-> n, hash |-> t, mark |-> t]
  <1>1. l \in [base : 1..MaxRevision, hash : Texts, mark : Texts]  OBVIOUS
  <1>2. link' = [link EXCEPT ![d] = l]  BY DEF Linked
  <1> HIDE DEF l
  <1> QED  BY <1>1, <1>2 DEF TypeOK

\* What a turn or an edit counts.
LEMMA Counts ==
  ASSUME TypeOK, \/ spent' = [spent EXCEPT !.edits = @ + 1]
                 \/ spent' = [spent EXCEPT !.turns = @ + 1]
  PROVE  spent' \in [edits : Nat, turns : Nat]
  BY DEF TypeOK

LEMMA TypesBegin == Init => TypeOK /\ Finite
  <1> SUFFICES ASSUME Init PROVE TypeOK /\ Finite  OBVIOUS
  <1> USE DEF Init
  <1>1. {} \in Texts  BY DEF Texts
  <1>2. First \in Files /\ Blob({}) \in Files  BY <1>1, FirstIs, BlobIn
  <1>3. IsFiniteSet({First, Blob({})})
    <2>1. IsFiniteSet({First})  BY FS_Singleton
    <2>2. {First, Blob({})} = {First} \cup {Blob({})}  OBVIOUS
    <2> QED  BY <2>1, <2>2, FS_AddElement
  <1>4. 1 \in 1..MaxRevision  BY BoundsAssumption
  <1>5. link \in [Devices -> [base : 1..MaxRevision, hash : Texts, mark : Texts]]  BY <1>1, <1>4
  <1>6. op \in [Devices -> Running]  BY IdleIs
  <1>7. folder \in [Devices -> SUBSET Files] /\ told \in [Devices -> SUBSET Files] /\ cloud \subseteq Files
    BY <1>2
  <1>8. spent \in [edits : Nat, turns : Nat]  OBVIOUS
  <1> HIDE DEF Idle, First
  <1> QED  BY <1>1, <1>3, <1>5, <1>6, <1>7, <1>8 DEF TypeOK, Finite

-----------------------------------------------------------------------------
(* The steps of a run that move no file: they may end a sweep, and begin none. *)

Still == UNCHANGED <<files, stale>> /\ \A e \in Devices : op'[e] = op[e] \/ op'[e].pc # "sweeping"

LEMMA StillTypes ==
  ASSUME TypeOK, Finite, UNCHANGED <<files, stale>>, text' \in [Devices -> Texts],
         link' \in [Devices -> [base : 1..MaxRevision, hash : Texts, mark : Texts]],
         op' \in [Devices -> Running], spent' \in [edits : Nat, turns : Nat]
  PROVE  TypeOK' /\ Finite'
  BY DEF TypeOK, Finite, files

LEMMA GoesIsStill ==
  ASSUME NEW d \in Devices, NEW pc \in Steps \ {"sweeping"}, Goes(d, pc), UNCHANGED <<files, stale>>
  PROVE  Still
  BY DEF Goes, Still

LEMMA BecomesIsStill ==
  ASSUME NEW d \in Devices, NEW r, r.pc # "sweeping", Becomes(d, r), UNCHANGED <<files, stale>>
  PROVE  Still
  BY DEF Becomes, Still

LEMMA EditDoes ==
  ASSUME TypeOK, Finite, NEW d \in Devices, Edit(d)
  PROVE  TypeOK' /\ Finite' /\ Still
  <1> USE DEF Edit
  <1>1. spent' \in [edits : Nat, turns : Nat]  BY Counts
  <1>2. text \in [Devices -> Texts]  BY DEF TypeOK
  <1>3. text' \in [Devices -> Texts]
    <2>1. PICK w : \/ text' = [text EXCEPT ![d] = @ \cup {w}] /\ w \in Words
                   \/ text' = [text EXCEPT ![d] = @ \ {w}]
      OBVIOUS
    <2> QED  BY <1>2, <2>1 DEF Texts
  <1>4. UNCHANGED <<link, files, op, stale>>  OBVIOUS
  <1> QED  BY <1>1, <1>3, <1>4, StillTypes DEF TypeOK, Still

LEMMA HeadTyped ==
  ASSUME TypeOK, Finite, NEW d \in Devices, Has(d)
  PROVE  Head(d).number \in 1..MaxRevision /\ Head(d).text \in Texts
  BY HeadIs, RevisionIs

LEMMA BeginDoes ==
  ASSUME TypeOK, Finite, NEW d \in Devices, Begin(d)
  PROVE  TypeOK' /\ Finite' /\ Still
  <1> USE DEF Begin
  <1>1. PICK pc \in {"sweep", "push", "pull"} : GoOn(d, pc)  OBVIOUS
  <1>2. Goes(d, pc) /\ pc \in Steps \ {"sweeping"}  BY <1>1, RunGoes DEF GoOn, Steps
  <1>3. link' \in [Devices -> [base : 1..MaxRevision, hash : Texts, mark : Texts]]
    <2>1. CASE UNCHANGED link  BY <2>1 DEF TypeOK
    <2>2. CASE Has(d) /\ Linked(d, Head(d).number, text[d])
      <3>1. text[d] \in Texts  BY DEF TypeOK
      <3> QED  BY <2>2, <3>1, HeadTyped, LinkTyped
    <2> QED  BY <2>1, <2>2
  <1>4. UNCHANGED <<text, files, stale, spent>>  OBVIOUS
  <1>5. Still  BY <1>2, <1>4, GoesIsStill
  <1> QED  BY <1>2, <1>3, <1>4, <1>5, StillTypes DEF TypeOK, Goes

LEMMA PushDoes ==
  ASSUME TypeOK, Finite, NEW d \in Devices, Push(d)
  PROVE  TypeOK' /\ Finite' /\ Still
  <1> USE DEF Push
  <1>1. UNCHANGED <<text, link, files, stale, spent>>  OBVIOUS
  <1>2. op' \in [Devices -> Running] /\ Still
    <2>1. CASE Has(d) /\ (SameHead(d) \/ op[d].mine)
      <3> DEFINE r == [op[d] EXCEPT !.pc = "commit", !.text = text[d], !.head = Head(d)]
      <3>1. op[d] \in Running /\ text[d] \in Texts  BY DEF TypeOK
      <3>2. Head(d) \in Revisions  BY <2>1, HeadIs
      <3>3. r \in Running /\ r.pc = "commit"  BY <3>1, <3>2 DEF Running, Steps
      <3>4. op' = [op EXCEPT ![d] = r]  BY <2>1
      <3> HIDE DEF r
      <3>5. Becomes(d, r)  BY <3>3, <3>4, RunBecomes
      <3> QED  BY <1>1, <3>3, <3>5, BecomesIsStill DEF Becomes
    <2>2. CASE ~(Has(d) /\ (SameHead(d) \/ op[d].mine))
      <3>1. Goes(d, "sweep") /\ "sweep" \in Steps \ {"sweeping"}  BY <2>2, RunGoes DEF GoOn, Steps
      <3> QED  BY <1>1, <3>1, GoesIsStill DEF Goes
    <2> QED  BY <2>1, <2>2
  <1> QED  BY <1>1, <1>2, StillTypes DEF TypeOK

LEMMA RecordDoes ==
  ASSUME TypeOK, Finite, NEW d \in Devices, Record(d)
  PROVE  TypeOK' /\ Finite' /\ Still
  <1> USE DEF Record
  <1>1. UNCHANGED <<text, files, stale, spent>>  OBVIOUS
  <1>2. Goes(d, "sweep") /\ "sweep" \in Steps \ {"sweeping"}  BY RunGoes DEF GoOn, Steps
  <1>3. op[d].head.number \in 1..MaxRevision /\ op[d].text \in Texts
    <2>1. op[d].head \in Revisions /\ op[d].text \in Texts  BY DEF TypeOK, Running
    <2> QED  BY <2>1, RevisionIs
  <1>4. link' \in [Devices -> [base : 1..MaxRevision, hash : Texts, mark : Texts]]
    BY <1>3, LinkTyped
  <1> QED  BY <1>1, <1>2, <1>4, GoesIsStill, StillTypes DEF TypeOK, Goes

LEMMA FetchDoes ==
  ASSUME TypeOK, Finite, NEW d \in Devices, Fetch(d)
  PROVE  TypeOK' /\ Finite' /\ Still
  <1> USE DEF Fetch
  <1>1. UNCHANGED <<text, link, files, stale, spent>>  OBVIOUS
  <1>2. op' \in [Devices -> Running] /\ Still
    <2>1. CASE Has(d) /\ op' = [op EXCEPT ![d].pc = "apply", ![d].head = Head(d)]
      <3> DEFINE r == [op[d] EXCEPT !.pc = "apply", !.head = Head(d)]
      <3>1. op[d] \in Running  BY DEF TypeOK
      <3>2. Head(d) \in Revisions  BY <2>1, HeadIs
      <3>3. r \in Running /\ r.pc = "apply"  BY <3>1, <3>2 DEF Running, Steps
      <3>4. op' = [op EXCEPT ![d] = r]  BY <2>1, <3>1 DEF TypeOK, Running
      <3> HIDE DEF r
      <3>5. Becomes(d, r)  BY <3>3, <3>4, RunBecomes
      <3> QED  BY <1>1, <3>3, <3>5, BecomesIsStill DEF Becomes
    <2>2. CASE op' = [op EXCEPT ![d].pc = "sweep"]
      <3>1. Goes(d, "sweep") /\ "sweep" \in Steps \ {"sweeping"}  BY <2>2, RunGoes DEF Steps
      <3> QED  BY <1>1, <3>1, GoesIsStill DEF Goes
    <2> QED  BY <2>1, <2>2
  <1> QED  BY <1>1, <1>2, StillTypes DEF TypeOK

LEMMA ApplyDoes ==
  ASSUME TypeOK, Finite, NEW d \in Devices, Apply(d)
  PROVE  TypeOK' /\ Finite' /\ Still
  <1> USE DEF Apply
  <1>1. UNCHANGED <<files, stale, spent>>  OBVIOUS
  <1>2. Goes(d, "sweep") /\ "sweep" \in Steps \ {"sweeping"}  BY RunGoes DEF GoOn, Steps
  <1>3. op[d].head.number \in 1..MaxRevision /\ op[d].head.text \in Texts
    <2>1. op[d].head \in Revisions  BY DEF TypeOK, Running
    <2> QED  BY <2>1, RevisionIs
  <1>4. /\ text' \in [Devices -> Texts]
        /\ link' \in [Devices -> [base : 1..MaxRevision, hash : Texts, mark : Texts]]
    <2>1. CASE UNCHANGED <<text, link>>  BY <2>1 DEF TypeOK
    <2>2. CASE /\ text' = [text EXCEPT ![d] = op[d].head.text]
               /\ Linked(d, op[d].head.number, op[d].head.text)
      <3>1. text' \in [Devices -> Texts]  BY <1>3, <2>2 DEF TypeOK
      <3> QED  BY <1>3, <2>2, <3>1, LinkTyped
    <2> QED  BY <2>1, <2>2
  <1> QED  BY <1>1, <1>2, <1>4, GoesIsStill, StillTypes DEF TypeOK, Goes

LEMMA EndRunDoes ==
  ASSUME TypeOK, Finite, NEW d \in Devices, EndRun(d) \/ Stop(d)
  PROVE  TypeOK' /\ Finite' /\ Still
  <1> USE DEF EndRun, Stop
  <1>1. UNCHANGED <<text, link, files, stale>>  OBVIOUS
  <1>2. Becomes(d, Idle)  BY IdleIs, RunBecomes
  <1>3. spent' \in [edits : Nat, turns : Nat]  BY Counts DEF TypeOK
  <1> QED  BY <1>1, <1>2, <1>3, IdleIs, BecomesIsStill, StillTypes DEF TypeOK, Becomes

LEMMA SettleDoes ==
  ASSUME TypeOK, Finite, NEW d \in Devices, Settle(d)
  PROVE  TypeOK' /\ Finite' /\ Still
  <1> USE DEF Settle
  <1>1. UNCHANGED <<text, link, files, stale>>  OBVIOUS
  <1>2. PICK pc \in {"push", "pull"} : op' = [op EXCEPT ![d] = [Idle EXCEPT !.pc = pc, !.mine = TRUE]]
    OBVIOUS
  <1> DEFINE r == [Idle EXCEPT !.pc = pc, !.mine = TRUE]
  <1>3. r \in Running /\ r.pc # "sweeping"
    <2>1. pc \in Steps /\ pc # "sweeping" /\ TRUE \in BOOLEAN  BY DEF Steps
    <2> QED  BY <2>1, IdleIs DEF Running
  <1>4. op' = [op EXCEPT ![d] = r]  BY <1>2
  <1> HIDE DEF r
  <1>5. Becomes(d, r)  BY <1>3, <1>4, RunBecomes
  <1>6. spent' \in [edits : Nat, turns : Nat]  BY Counts
  <1> QED  BY <1>1, <1>3, <1>5, <1>6, BecomesIsStill, StillTypes DEF TypeOK, Becomes

-----------------------------------------------------------------------------
(* The steps that move files: what becomes of the types. *)

\* A device's folder becomes S.
FolderBecomes(d, S) ==
    folder' \in [Devices -> SUBSET Files] /\ folder'[d] = S /\ \A e \in Devices \ {d} : folder'[e] = folder[e]

LEMMA FolderIs ==
  ASSUME TypeOK, Finite, NEW d \in Devices, NEW S \in SUBSET Files, folder' = [folder EXCEPT ![d] = S],
         S \subseteq folder[d] \/ \E f : S = folder[d] \cup {f}
  PROVE  FolderBecomes(d, S) /\ Finite'
  <1>1. folder \in [Devices -> SUBSET Files] /\ \A e \in Devices : IsFiniteSet(folder[e])
    BY DEF TypeOK, Finite
  <1>2. FolderBecomes(d, S)  BY <1>1 DEF FolderBecomes
  <1>3. IsFiniteSet(S)  BY <1>1, FS_Subset, FS_AddElement
  <1> QED  BY <1>1, <1>2, <1>3 DEF FolderBecomes, Finite

LEMMA UnlikeIs ==
  ASSUME NEW S, NEW f
  PROVE  /\ f \in S => Unlike(S, {f}) = S \ {f}
         /\ f \notin S => Unlike(S, {f}) = S \cup {f}
  BY DEF Unlike

LEMMA PutBlobDoes ==
  ASSUME TypeOK, Finite, NEW d \in Devices, PutBlob(d)
  PROVE  /\ TypeOK' /\ Finite' /\ FolderBecomes(d, folder[d] \cup {Blob(op[d].text)})
         /\ Blob(op[d].text) \in Blobs
  <1> USE DEF PutBlob
  <1> DEFINE b == Blob(op[d].text)
  <1>1. b \in Blobs /\ b \in Files  BY BlobIn DEF TypeOK, Running
  <1> HIDE DEF b
  <1>2. folder[d] \cup {b} \in SUBSET Files  BY <1>1 DEF TypeOK
  <1>3. folder' = [folder EXCEPT ![d] = folder[d] \cup {b}]  BY DEF b
  <1>4. FolderBecomes(d, folder[d] \cup {b}) /\ Finite'  BY <1>2, <1>3, FolderIs
  <1>5. TypeOK'  BY <1>4 DEF TypeOK, FolderBecomes
  <1> QED  BY <1>1, <1>4, <1>5 DEF b

\* A commit writes a revision of a text whose blob is there, or ends the run's writing.
LEMMA CommitDoes ==
  ASSUME TypeOK, Finite, NEW d \in Devices, Commit(d)
  PROVE  /\ TypeOK' /\ Finite'
         /\ \/ Still
            \/ \E rev \in Revisions :
                  /\ FolderBecomes(d, folder[d] \cup {rev}) /\ Blob(rev.text) \in folder[d]
                  /\ stale' = IF Blob(rev.text) \in once THEN stale \cup {rev} ELSE stale
                  /\ \A e \in Devices : op'[e] = op[e] \/ op'[e].pc # "sweeping"
  <1> USE DEF Commit
  <1>0. UNCHANGED <<text, link, told, cloud, aged, once, spent>>  OBVIOUS
  <1>1. CASE Has(d) /\ HeadIsBase(d)
    <2> DEFINE rev == Rev(Head(d).number + 1, d, op[d].text)
               r == [op[d] EXCEPT !.pc = "prune", !.head = rev]
    <2>1. Head(d).number + 1 \in 1..MaxRevision
      BY <1>1, HeadTyped, BoundsAssumption
    <2>2. op[d] \in Running /\ op[d].text \in Texts  BY DEF TypeOK, Running
    <2>3. rev \in Revisions /\ rev \in Files /\ rev.text = op[d].text  BY <2>1, <2>2, RevIn, RevIs
    <2>4. /\ folder' = [folder EXCEPT ![d] = @ \cup {rev}]
          /\ op' = [op EXCEPT ![d].pc = "prune", ![d].head = rev]
          /\ stale' = IF Blob(op[d].text) \in once THEN stale \cup {rev} ELSE stale
      BY <1>1
    <2> HIDE DEF rev
    <2>5. r \in Running /\ r.pc = "prune"  BY <2>2, <2>3 DEF Running, Steps
    <2>6. op' = [op EXCEPT ![d] = r]  BY <2>2, <2>4 DEF TypeOK, Running
    <2> HIDE DEF r
    <2>7. Becomes(d, r)  BY <2>5, <2>6, RunBecomes
    <2>8. folder[d] \cup {rev} \in SUBSET Files  BY <2>3 DEF TypeOK
    <2>9. folder' = [folder EXCEPT ![d] = folder[d] \cup {rev}]  BY <2>4
    <2>10. FolderBecomes(d, folder[d] \cup {rev}) /\ Finite'  BY <2>8, <2>9, FolderIs
    <2>11. stale' \subseteq Revisions  BY <2>3, <2>4 DEF TypeOK
    <2>12. TypeOK'
      <3>1. \A e \in Devices : aged[e] \subseteq folder'[e]  BY <2>10 DEF TypeOK, FolderBecomes
      <3> QED  BY <1>0, <2>7, <2>10, <2>11, <3>1 DEF TypeOK, FolderBecomes, Becomes
    <2>13. \A e \in Devices : op'[e] = op[e] \/ op'[e].pc # "sweeping"  BY <2>5, <2>7 DEF Becomes
    <2> QED  BY <2>3, <2>4, <2>10, <2>12, <2>13
  <1>2. CASE ~(Has(d) /\ HeadIsBase(d))
    <2>1. UNCHANGED <<files, stale>>  BY <1>2 DEF files
    <2>2. Goes(d, "sweep") /\ "sweep" \in Steps \ {"sweeping"}  BY <1>2, RunGoes DEF GoOn, Steps
    <2> QED  BY <1>0, <2>1, <2>2, GoesIsStill, StillTypes DEF TypeOK, Goes
  <1> QED  BY <1>1, <1>2

LEMMA PruneDoes ==
  ASSUME TypeOK, Finite, NEW d \in Devices, Prune(d)
  PROVE  /\ TypeOK' /\ Finite'
         /\ \E gone \in SUBSET Revisions : FolderBecomes(d, folder[d] \ gone)
         /\ \A e \in Devices : op'[e] = op[e] \/ op'[e].pc # "sweeping"
  <1> USE DEF Prune
  <1>1. PICK gone \in SUBSET Beyond(d) : folder' = [folder EXCEPT ![d] = folder[d] \ gone]  OBVIOUS
  <1>2. gone \subseteq Revisions
    <2>1. ASSUME NEW f \in gone PROVE f \in Revisions
      <3>1. f \in folder[d] /\ f.kind = "revision"  BY <1>1 DEF Beyond, RevisionsIn
      <3>2. f \in Files  BY <3>1 DEF TypeOK
      <3> QED  BY <3>1, <3>2, FileIs
    <2> QED  BY <2>1
  <1>3. folder[d] \ gone \in SUBSET Files  BY DEF TypeOK
  <1>4. FolderBecomes(d, folder[d] \ gone) /\ Finite'  BY <1>1, <1>3, FolderIs
  <1>5. Goes(d, "record")  BY RunGoes DEF GoOn, Steps
  <1>6. \A e \in Devices : op'[e] = op[e] \/ op'[e].pc # "sweeping"  BY <1>5 DEF Goes
  <1>7. \A e \in Devices : aged[e] \subseteq folder'[e]
    <2> TAKE e \in Devices
    <2>1. aged[e] \subseteq folder[e] /\ aged[e] \subseteq Blobs  BY DEF TypeOK
    <2>2. \A f \in gone : f \notin Blobs  BY <1>2, RevisionIs
    <2> QED  BY <1>4, <2>1, <2>2 DEF FolderBecomes
  <1>8. TypeOK'  BY <1>4, <1>5, <1>7 DEF TypeOK, FolderBecomes, Goes
  <1> QED  BY <1>2, <1>4, <1>6, <1>8

LEMMA SweepDoes ==
  ASSUME TypeOK, Finite, NEW d \in Devices, Sweep(d)
  PROVE  /\ TypeOK' /\ Finite' /\ UNCHANGED <<files, stale>>
         /\ op'[d].used = {f.text : f \in RevisionsIn(d)} /\ \A e \in Devices \ {d} : op'[e] = op[e]
  <1> USE DEF Sweep
  <1> DEFINE used == {f.text : f \in RevisionsIn(d)}
             r == [op[d] EXCEPT !.pc = "sweeping", !.used = used]
  <1>1. used \in SUBSET Texts
    <2>1. ASSUME NEW f \in RevisionsIn(d) PROVE f.text \in Texts
      <3>1. f \in Files /\ f.kind = "revision"  BY DEF RevisionsIn, TypeOK
      <3> QED  BY <3>1, FileIs, RevisionIs
    <2> QED  BY <2>1
  <1>2. op' = [op EXCEPT ![d].pc = "sweeping", ![d].used = used]  OBVIOUS
  <1> HIDE DEF used
  <1>3. op[d] \in Running  BY DEF TypeOK
  <1>4. r \in Running /\ r.used = used  BY <1>1, <1>3 DEF Running, Steps
  <1>5. op' = [op EXCEPT ![d] = r]  BY <1>2, <1>3 DEF TypeOK, Running
  <1> HIDE DEF r
  <1>6. Becomes(d, r)  BY <1>4, <1>5, RunBecomes
  <1> QED  BY <1>4, <1>6, StillTypes DEF TypeOK, Becomes, used

LEMMA SweepBlobDoes ==
  ASSUME TypeOK, Finite, NEW d \in Devices, SweepBlob(d)
  PROVE  /\ TypeOK' /\ Finite'
         /\ \E b \in aged[d] : /\ b \in Blobs /\ b.text \notin op[d].used
                               /\ FolderBecomes(d, folder[d] \ {b})
         /\ \A e \in Devices : aged'[e] \subseteq aged[e]
  <1> USE DEF SweepBlob
  <1>1. PICK b \in Sweepable(d) : folder' = [folder EXCEPT ![d] = folder[d] \ {b}]
                               /\ aged' = [aged EXCEPT ![d] = aged[d] \ {b}]
    OBVIOUS
  <1>2. b \in aged[d] /\ b \in Blobs /\ b.text \notin op[d].used  BY DEF Sweepable, TypeOK
  <1>3. folder[d] \ {b} \in SUBSET Files  BY DEF TypeOK
  <1>4. FolderBecomes(d, folder[d] \ {b}) /\ Finite'  BY <1>1, <1>3, FolderIs
  <1>5. aged' \in [Devices -> SUBSET Blobs] /\ \A e \in Devices : aged'[e] \subseteq aged[e]
    BY <1>1 DEF TypeOK
  <1>6. \A e \in Devices : aged'[e] \subseteq folder'[e]  BY <1>1, <1>4 DEF TypeOK, FolderBecomes
  <1>7. TypeOK'  BY <1>4, <1>5, <1>6 DEF TypeOK, FolderBecomes
  <1> QED  BY <1>2, <1>4, <1>5, <1>7

\* One file goes up, or one comes down, new or deleted.
ToldBecomes(d, S) ==
    told' \in [Devices -> SUBSET Files] /\ told'[d] = S /\ \A e \in Devices \ {d} : told'[e] = told[e]

LEMMA UpDoes ==
  ASSUME TypeOK, Finite, NEW d \in Devices, Up(d)
  PROVE  /\ TypeOK' /\ Finite' /\ UNCHANGED <<folder, aged, once, op, stale>>
         /\ \E f \in Files :
               \/ f \in folder[d] /\ f \notin told[d] /\ ToldBecomes(d, told[d] \cup {f}) /\ cloud' = cloud \cup {f}
               \/ f \notin folder[d] /\ f \in told[d] /\ ToldBecomes(d, told[d] \ {f}) /\ cloud' = cloud \ {f}
  <1>1. PICK f \in Unlike(folder[d], told[d]) :
          /\ told' = [told EXCEPT ![d] = Unlike(@, {f})]
          /\ cloud' = IF f \in folder[d] THEN cloud \cup {f} ELSE cloud \ {f}
          /\ UNCHANGED <<text, link, folder, aged, once, op, stale, spent>>
    BY DEF Up
  <1>2. f \in Files  BY DEF Unlike, TypeOK
  <1>3. told \in [Devices -> SUBSET Files] /\ cloud \subseteq Files  BY DEF TypeOK
  <1>4. CASE f \in folder[d] /\ f \notin told[d]
    <2>1. told' = [told EXCEPT ![d] = told[d] \cup {f}]  BY <1>1, <1>4, UnlikeIs
    <2>2. ToldBecomes(d, told[d] \cup {f}) /\ cloud' = cloud \cup {f}
      BY <1>1, <1>2, <1>3, <1>4, <2>1 DEF ToldBecomes
    <2>3. TypeOK' /\ Finite'  BY <1>1, <1>2, <2>2 DEF TypeOK, Finite, ToldBecomes
    <2> QED  BY <1>1, <1>2, <1>4, <2>2, <2>3
  <1>5. CASE f \notin folder[d] /\ f \in told[d]
    <2>1. told' = [told EXCEPT ![d] = told[d] \ {f}]  BY <1>1, <1>5, UnlikeIs
    <2>2. ToldBecomes(d, told[d] \ {f}) /\ cloud' = cloud \ {f}
      BY <1>1, <1>2, <1>3, <1>5, <2>1 DEF ToldBecomes
    <2>3. TypeOK' /\ Finite'  BY <1>1, <1>2, <2>2 DEF TypeOK, Finite, ToldBecomes
    <2> QED  BY <1>1, <1>2, <1>5, <2>2, <2>3
  <1> QED  BY <1>1, <1>4, <1>5 DEF Unlike

LEMMA DownDoes ==
  ASSUME TypeOK, Finite, NEW d \in Devices, Down(d)
  PROVE  /\ TypeOK' /\ Finite' /\ UNCHANGED <<cloud, once, op, stale>>
         /\ \A e \in Devices : aged'[e] \subseteq aged[e]
         /\ \E f \in Files :
               \/ /\ f \in cloud /\ f \notin told[d] /\ f \notin folder[d]
                  /\ ToldBecomes(d, told[d] \cup {f}) /\ FolderBecomes(d, folder[d] \cup {f})
               \/ /\ f \notin cloud /\ f \in told[d] /\ f \in folder[d]
                  /\ ToldBecomes(d, told[d] \ {f}) /\ FolderBecomes(d, folder[d] \ {f})
  <1>1. PICK f \in Unlike(cloud, told[d]) \ Unlike(folder[d], told[d]) :
          /\ told' = [told EXCEPT ![d] = Unlike(@, {f})]
          /\ folder' = [folder EXCEPT ![d] = Unlike(@, {f})]
          /\ aged' = [aged EXCEPT ![d] = @ \ {f}]
          /\ UNCHANGED <<text, link, cloud, once, op, stale, spent>>
    BY DEF Down
  <1>2. f \in Files  BY DEF Unlike, TypeOK
  <1>3. told \in [Devices -> SUBSET Files] /\ folder[d] \subseteq Files  BY DEF TypeOK
  <1>4. aged' \in [Devices -> SUBSET Blobs] /\ \A e \in Devices : aged'[e] \subseteq aged[e] /\ f \notin aged'[d]
    BY <1>1 DEF TypeOK
  <1>5. CASE f \in cloud /\ f \notin told[d] /\ f \notin folder[d]
    <2>1. told' = [told EXCEPT ![d] = told[d] \cup {f}] /\ folder' = [folder EXCEPT ![d] = folder[d] \cup {f}]
      BY <1>1, <1>5, UnlikeIs
    <2>2. ToldBecomes(d, told[d] \cup {f})  BY <1>2, <1>3, <2>1 DEF ToldBecomes
    <2>3. folder[d] \cup {f} \in SUBSET Files  BY <1>2, <1>3
    <2>4. FolderBecomes(d, folder[d] \cup {f}) /\ Finite'  BY <2>1, <2>3, FolderIs
    <2>5. \A e \in Devices : aged'[e] \subseteq folder'[e]  BY <1>4, <2>4 DEF TypeOK, FolderBecomes
    <2>6. TypeOK'  BY <1>1, <1>4, <2>2, <2>4, <2>5 DEF TypeOK, ToldBecomes, FolderBecomes
    <2> QED  BY <1>1, <1>2, <1>4, <1>5, <2>2, <2>4, <2>6
  <1>6. CASE f \notin cloud /\ f \in told[d] /\ f \in folder[d]
    <2>1. told' = [told EXCEPT ![d] = told[d] \ {f}] /\ folder' = [folder EXCEPT ![d] = folder[d] \ {f}]
      BY <1>1, <1>6, UnlikeIs
    <2>2. ToldBecomes(d, told[d] \ {f})  BY <1>2, <1>3, <2>1 DEF ToldBecomes
    <2>3. folder[d] \ {f} \in SUBSET Files  BY <1>2, <1>3
    <2>4. FolderBecomes(d, folder[d] \ {f}) /\ Finite'  BY <2>1, <2>3, FolderIs
    <2>5. \A e \in Devices : aged'[e] \subseteq folder'[e]  BY <1>4, <2>4 DEF TypeOK, FolderBecomes
    <2>6. TypeOK'  BY <1>1, <1>4, <2>2, <2>4, <2>5 DEF TypeOK, ToldBecomes, FolderBecomes
    <2> QED  BY <1>1, <1>2, <1>4, <1>6, <2>2, <2>4, <2>6
  <1> QED  BY <1>5, <1>6 DEF Unlike

LEMMA DayDoes ==
  ASSUME TypeOK, Finite, Day
  PROVE  TypeOK' /\ Finite'
  <1> USE DEF Day
  <1>1. \A d \in Devices : folder[d] = cloud  BY DEF Carried
  <1>2. aged' \in [Devices -> SUBSET Blobs] /\ \A d \in Devices : aged'[d] \subseteq folder'[d]  OBVIOUS
  <1>3. spent' \in [edits : Nat, turns : Nat]  BY Counts
  <1>4. once' \subseteq Blobs  BY DEF TypeOK
  <1>5. UNCHANGED <<text, link, folder, told, cloud, op, stale>>  OBVIOUS
  <1> HIDE DEF Day
  <1> QED  BY <1>2, <1>3, <1>4, <1>5 DEF TypeOK, Finite

-----------------------------------------------------------------------------
(* The invariant. *)

LEMMA StillKeeps ==
  ASSUME Inv, Still
  PROVE  Inv'
  <1>1. UNCHANGED <<folder, told, cloud, aged, once, stale>>  BY DEF Still, files
  <1>2. AgedOnce' /\ Undeleted' /\ Named'  BY <1>1 DEF Inv, AgedOnce, Undeleted, Named, Around
  <1>3. ASSUME NEW f, Older(f)' PROVE Settled(f)' /\ Seen(f)' /\ Together(f)'
    <2>1. Settled(f) /\ Seen(f) /\ Together(f)  BY <1>1, <1>3 DEF Inv, Older
    <2>2. Settled(f)' /\ Together(f)'  BY <1>1, <2>1 DEF Settled, Together, Everywhere
    <2>3. Seen(f)'  BY <1>1, <2>1 DEF Seen, Still
    <2> QED  BY <2>2, <2>3
  <1> QED  BY <1>2, <1>3 DEF Inv

LEMMA SweepKeeps ==
  ASSUME TypeOK, Finite, Inv, NEW d \in Devices, Sweep(d)
  PROVE  Inv'
  <1>1. /\ UNCHANGED <<folder, told, cloud, aged, once, stale>>
        /\ op'[d].used = {f.text : f \in RevisionsIn(d)} /\ \A e \in Devices \ {d} : op'[e] = op[e]
    BY SweepDoes DEF files
  <1>2. AgedOnce' /\ Undeleted' /\ Named'  BY <1>1 DEF Inv, AgedOnce, Undeleted, Named, Around
  <1>3. ASSUME NEW f, Older(f)' PROVE Settled(f)' /\ Seen(f)' /\ Together(f)'
    <2>1. Settled(f) /\ Seen(f) /\ Together(f) /\ f \in Revisions  BY <1>1, <1>3 DEF Inv, Older
    <2>2. Settled(f)' /\ Together(f)'  BY <1>1, <2>1 DEF Settled, Together, Everywhere
    <2>3. f \in folder[d] => f.text \in op'[d].used  BY <1>1, <2>1, RevisionIs DEF RevisionsIn
    <2>4. Seen(f)'  BY <1>1, <2>1, <2>3 DEF Seen
    <2> QED  BY <2>2, <2>4
  <1> QED  BY <1>2, <1>3 DEF Inv

LEMMA PutBlobKeeps ==
  ASSUME TypeOK, Finite, Inv, NEW d \in Devices, PutBlob(d)
  PROVE  Inv'
  <1> DEFINE b == Blob(op[d].text)
  <1>1. UNCHANGED <<told, cloud, aged, once, op, stale>>  BY DEF PutBlob
  <1>2. FolderBecomes(d, folder[d] \cup {b}) /\ b \in Blobs  BY PutBlobDoes
  <1> HIDE DEF b
  <1>3. \A e \in Devices : folder[e] \subseteq folder'[e]  BY <1>2 DEF FolderBecomes
  <1>4. \A f \in Revisions, e \in Devices : f \in folder'[e] <=> f \in folder[e]
    <2>1. \A f \in Revisions : f # b  BY <1>2, RevisionIs
    <2> QED  BY <1>2, <2>1 DEF FolderBecomes
  <1>5. AgedOnce' /\ Undeleted'  BY <1>1, <1>3 DEF Inv, AgedOnce, Undeleted
  <1>6. Named'
    <2> SUFFICES ASSUME NEW f \in Revisions, Around(f)', Blob(f.text) \notin once
                 PROVE  Around(Blob(f.text))'
      BY <1>1 DEF Named
    <2>1. Around(f)  BY <1>1, <1>4 DEF Around
    <2>2. Around(Blob(f.text))  BY <2>1 DEF Inv, Named
    <2> QED  BY <1>1, <1>3, <2>2 DEF Around
  <1>7. ASSUME NEW f, Older(f)' PROVE Settled(f)' /\ Seen(f)' /\ Together(f)'
    <2>1. Settled(f) /\ Seen(f) /\ Together(f) /\ f \in Revisions  BY <1>1, <1>7 DEF Inv, Older
    <2>2. Settled(f)' /\ Seen(f)'  BY <1>1, <1>4, <2>1 DEF Settled, Seen
    <2>3. Together(f)'  BY <1>1, <1>3, <1>4, <2>1 DEF Together, Everywhere
    <2> QED  BY <2>2, <2>3
  <1> QED  BY <1>5, <1>6, <1>7 DEF Inv

LEMMA CommitKeeps ==
  ASSUME TypeOK, Finite, Inv, NEW d \in Devices, Commit(d)
  PROVE  Inv'
  <1>0. CASE Still  BY <1>0, StillKeeps
  <1>1. CASE ~Still
    <2>1. UNCHANGED <<told, cloud, aged, once>>  BY DEF Commit
    <2>2. PICK rev \in Revisions :
            /\ FolderBecomes(d, folder[d] \cup {rev}) /\ Blob(rev.text) \in folder[d]
            /\ stale' = IF Blob(rev.text) \in once THEN stale \cup {rev} ELSE stale
            /\ \A e \in Devices : op'[e] = op[e] \/ op'[e].pc # "sweeping"
      BY <1>1, CommitDoes
    <2>3. \A e \in Devices : folder[e] \subseteq folder'[e]  BY <2>2 DEF FolderBecomes
    <2>4. \A x : \A e \in Devices : x # rev => (x \in folder'[e] <=> x \in folder[e])
      BY <2>2 DEF FolderBecomes
    <2>5. AgedOnce' /\ Undeleted'  BY <2>1, <2>3 DEF Inv, AgedOnce, Undeleted
    <2>6. Named'
      <3> SUFFICES ASSUME NEW f \in Revisions, Around(f)', Blob(f.text) \notin once
                   PROVE  Around(Blob(f.text))'
        BY <2>1 DEF Named
      <3>1. Around(f) => Around(Blob(f.text))  BY DEF Inv, Named
      <3>2. f = rev \/ Around(f)  BY <2>1, <2>4 DEF Around
      <3>3. Around(Blob(f.text))  BY <2>2, <3>1, <3>2 DEF Around
      <3> QED  BY <2>1, <2>3, <3>3 DEF Around
    <2>7. ASSUME NEW f, Older(f)' PROVE Settled(f)' /\ Seen(f)' /\ Together(f)'
      <3>1. f # rev /\ Older(f)  BY <2>1, <2>2, <2>7 DEF Older
      <3>2. Settled(f) /\ Seen(f) /\ Together(f)  BY <3>1 DEF Inv
      <3>3. \A e \in Devices : f \in folder'[e] <=> f \in folder[e]  BY <2>4, <3>1
      <3>4. Settled(f)'  BY <2>1, <3>2, <3>3 DEF Settled
      <3>5. Seen(f)'  BY <2>2, <3>2, <3>3 DEF Seen
      <3>6. Together(f)'  BY <2>1, <2>3, <3>2, <3>3 DEF Together, Everywhere
      <3> QED  BY <3>4, <3>5, <3>6
    <2> QED  BY <2>5, <2>6, <2>7 DEF Inv
  <1> QED  BY <1>0, <1>1

\* What is only taken from folders, or only revisions are, takes nothing from blobs in use.
LEMMA PruneKeeps ==
  ASSUME TypeOK, Finite, Inv, NEW d \in Devices, Prune(d)
  PROVE  Inv'
  <1>1. UNCHANGED <<told, cloud, aged, once, stale>>  BY DEF Prune
  <1>2. PICK gone \in SUBSET Revisions : FolderBecomes(d, folder[d] \ gone)  BY PruneDoes
  <1>3. \A e \in Devices : op'[e] = op[e] \/ op'[e].pc # "sweeping"  BY PruneDoes
  <1>4. \A e \in Devices : folder'[e] \subseteq folder[e]  BY <1>2 DEF FolderBecomes
  <1>5. \A b \in Blobs, e \in Devices : b \in folder'[e] <=> b \in folder[e]
    <2>1. \A b \in Blobs : b \notin gone  BY <1>2, RevisionIs
    <2> QED  BY <1>2, <2>1 DEF FolderBecomes
  <1>6. AgedOnce' /\ Undeleted'  BY <1>1, <1>5 DEF Inv, AgedOnce, Undeleted
  <1>7. \A f \in Revisions : Blob(f.text) \in Blobs  BY RevisionIs, BlobIn
  <1>8. Named'
    <2> SUFFICES ASSUME NEW f \in Revisions, Around(f)', Blob(f.text) \notin once
                 PROVE  Around(Blob(f.text))'
      BY <1>1 DEF Named
    <2>1. Around(f)  BY <1>1, <1>4 DEF Around
    <2>2. Around(Blob(f.text))  BY <2>1 DEF Inv, Named
    <2> QED  BY <1>1, <1>5, <1>7, <2>2 DEF Around
  <1>9. ASSUME NEW f, Older(f)' PROVE Settled(f)' /\ Seen(f)' /\ Together(f)'
    <2>1. Settled(f) /\ Seen(f) /\ Together(f) /\ f \in Revisions  BY <1>1, <1>9 DEF Inv, Older
    <2>2. Settled(f)'  BY <1>1, <1>4, <2>1 DEF Settled
    <2>3. Seen(f)'  BY <1>3, <1>4, <2>1 DEF Seen
    <2>4. Together(f)'  BY <1>1, <1>4, <1>5, <1>7, <2>1 DEF Together, Everywhere
    <2> QED  BY <2>2, <2>3, <2>4
  <1> QED  BY <1>6, <1>8, <1>9 DEF Inv

\* A sweep takes a blob past the grace, and of no revision it has seen.
LEMMA SweepBlobKeeps ==
  ASSUME TypeOK, Finite, Inv, NEW d \in Devices, SweepBlob(d)
  PROVE  Inv'
  <1>1. UNCHANGED <<told, cloud, once, op, stale>> /\ op[d].pc = "sweeping"  BY DEF SweepBlob
  <1>2. PICK b \in aged[d] : /\ b \in Blobs /\ b.text \notin op[d].used
                             /\ FolderBecomes(d, folder[d] \ {b})
    BY SweepBlobDoes
  <1>3. \A e \in Devices : aged'[e] \subseteq aged[e]  BY SweepBlobDoes
  <1>4. b \in once  BY <1>2 DEF Inv, AgedOnce
  <1>5. \A x : \A e \in Devices : x # b => (x \in folder'[e] <=> x \in folder[e])  BY <1>2 DEF FolderBecomes
  <1>6. AgedOnce' /\ Undeleted'  BY <1>1, <1>3, <1>4, <1>5 DEF Inv, AgedOnce, Undeleted
  <1>7. \A f \in Revisions : f # b  BY <1>2, RevisionIs
  <1>8. Named'
    <2> SUFFICES ASSUME NEW f \in Revisions, Around(f)', Blob(f.text) \notin once
                 PROVE  Around(Blob(f.text))'
      BY <1>1 DEF Named
    <2>1. Around(f)  BY <1>1, <1>5, <1>7 DEF Around
    <2>2. Around(Blob(f.text))  BY <2>1 DEF Inv, Named
    <2> QED  BY <1>1, <1>4, <1>5, <2>2 DEF Around
  <1>9. ASSUME NEW f, Older(f)' PROVE Settled(f)' /\ Seen(f)' /\ Together(f)'
    <2>1. Settled(f) /\ Seen(f) /\ Together(f) /\ f \in Revisions  BY <1>1, <1>9 DEF Inv, Older
    <2>2. \A e \in Devices : f \in folder'[e] <=> f \in folder[e]  BY <1>5, <1>7, <2>1
    <2>3. Settled(f)' /\ Seen(f)'  BY <1>1, <2>1, <2>2 DEF Settled, Seen
    <2>4. ASSUME Everywhere(f)' PROVE Everywhere(Blob(f.text))'
      <3>1. Everywhere(f)  BY <1>1, <2>2, <2>4 DEF Everywhere
      <3>2. f.text \in op[d].used  BY <1>1, <2>1, <3>1 DEF Seen, Everywhere
      <3>3. Blob(f.text) # b  BY <1>2, <3>2, BlobIs
      <3> QED  BY <1>1, <1>5, <2>1, <3>1, <3>3 DEF Together, Everywhere
    <2> QED  BY <2>3, <2>4 DEF Together
  <1> QED  BY <1>6, <1>8, <1>9 DEF Inv

LEMMA UpKeeps ==
  ASSUME TypeOK, Finite, Inv, NEW d \in Devices, Up(d)
  PROVE  Inv'
  <1>1. UNCHANGED <<folder, aged, once, op, stale>>  BY UpDoes
  <1>2. PICK x \in Files :
          \/ x \in folder[d] /\ x \notin told[d] /\ ToldBecomes(d, told[d] \cup {x}) /\ cloud' = cloud \cup {x}
          \/ x \notin folder[d] /\ x \in told[d] /\ ToldBecomes(d, told[d] \ {x}) /\ cloud' = cloud \ {x}
    BY UpDoes
  <1>3. \A y : y # x => /\ y \in cloud' <=> y \in cloud
                       /\ \A e \in Devices : y \in told'[e] <=> y \in told[e]
    BY <1>2 DEF ToldBecomes
  <1>4. AgedOnce'  BY <1>1 DEF Inv, AgedOnce
  <1>5. ASSUME NEW b \in Blobs \ once, NEW e \in Devices, b \in told'[e]
        PROVE  b \in folder'[e] /\ b \in cloud'
    <2>1. b \in told[e] => b \in folder[e] /\ b \in cloud  BY DEF Inv, Undeleted
    <2>2. CASE b # x  BY <1>1, <1>3, <1>5, <2>1, <2>2
    <2>3. CASE b = x
      <3>1. b \in told[d] => b \in folder[d]  BY DEF Inv, Undeleted
      <3> QED  BY <1>1, <1>2, <1>5, <2>1, <2>3, <3>1 DEF ToldBecomes
    <2> QED  BY <2>2, <2>3
  <1>6. ASSUME NEW y PROVE Around(y)' => Around(y)
    BY <1>1, <1>2, <1>3 DEF Around
  <1>7. ASSUME NEW b \in Blobs \ once, Around(b) PROVE Around(b)'
    <2>1. b \in told[d] => b \in folder[d]  BY DEF Inv, Undeleted
    <2>2. b \in cloud => b \in cloud'  BY <1>2, <1>3, <2>1
    <2> QED  BY <1>1, <1>7, <2>2 DEF Around
  <1>8. Named'
    <2> SUFFICES ASSUME NEW f \in Revisions, Around(f)', Blob(f.text) \notin once
                 PROVE  Around(Blob(f.text))'
      BY <1>1 DEF Named
    <2>1. Around(Blob(f.text))  BY <1>6 DEF Inv, Named
    <2>2. Blob(f.text) \in Blobs  BY RevisionIs, BlobIn
    <2> QED  BY <1>7, <2>1, <2>2
  <1>9. ASSUME NEW f, Older(f)' PROVE Settled(f)' /\ Seen(f)' /\ Together(f)'
    <2>1. Settled(f) /\ Seen(f) /\ Together(f)  BY <1>1, <1>9 DEF Inv, Older
    <2>2. Seen(f)'  BY <1>1, <2>1 DEF Seen
    <2>3. Settled(f)'
      <3>1. CASE f # x  BY <1>1, <1>3, <2>1, <3>1 DEF Settled
      <3>2. CASE f = x  BY <1>1, <1>2, <2>1, <3>2 DEF Settled, ToldBecomes
      <3> QED  BY <3>1, <3>2
    <2>4. ASSUME Everywhere(f)' PROVE Everywhere(Blob(f.text))'
      <3>1. f # x \/ f \notin told'[d]  BY <1>2, <2>1 DEF Settled, ToldBecomes
      <3>2. Everywhere(f)  BY <1>1, <1>3, <2>4, <3>1 DEF Everywhere
      <3>3. Everywhere(Blob(f.text))  BY <2>1, <3>2 DEF Together
      <3>4. Blob(f.text) # x  BY <1>2, <3>3 DEF Everywhere
      <3> QED  BY <1>1, <1>3, <3>3, <3>4 DEF Everywhere
    <2> QED  BY <2>2, <2>3, <2>4 DEF Together
  <1>10. Undeleted'  BY <1>1, <1>5 DEF Undeleted
  <1> QED  BY <1>4, <1>8, <1>9, <1>10 DEF Inv

LEMMA DownKeeps ==
  ASSUME TypeOK, Finite, Inv, NEW d \in Devices, Down(d)
  PROVE  Inv'
  <1>1. UNCHANGED <<cloud, once, op, stale>> /\ \A e \in Devices : aged'[e] \subseteq aged[e]  BY DownDoes
  <1>2. PICK x \in Files :
          \/ /\ x \in cloud /\ x \notin told[d] /\ x \notin folder[d]
             /\ ToldBecomes(d, told[d] \cup {x}) /\ FolderBecomes(d, folder[d] \cup {x})
          \/ /\ x \notin cloud /\ x \in told[d] /\ x \in folder[d]
             /\ ToldBecomes(d, told[d] \ {x}) /\ FolderBecomes(d, folder[d] \ {x})
    BY DownDoes
  <1>3. /\ \A e \in Devices : e # d => told'[e] = told[e] /\ folder'[e] = folder[e]
        /\ \A y : y # x => (y \in told'[d] <=> y \in told[d]) /\ (y \in folder'[d] <=> y \in folder[d])
    BY <1>2 DEF ToldBecomes, FolderBecomes
  <1>4. x \in told'[d] <=> x \in folder'[d]  BY <1>2 DEF ToldBecomes, FolderBecomes
  <1>5. x \in told'[d] <=> x \in cloud  BY <1>2 DEF ToldBecomes
  <1>6. AgedOnce'  BY <1>1 DEF Inv, AgedOnce
  <1>7. Undeleted'
    <2> SUFFICES ASSUME NEW b \in Blobs \ once, NEW e \in Devices, b \in told'[e]
                 PROVE  b \in folder'[e] /\ b \in cloud
      BY <1>1 DEF Undeleted
    <2>1. b \in told[e] => b \in folder[e] /\ b \in cloud  BY DEF Inv, Undeleted
    <2> QED  BY <1>3, <1>4, <1>5, <2>1
  <1>8. ASSUME NEW y, Around(y)' PROVE Around(y)
    BY <1>1, <1>2, <1>3, <1>8 DEF Around
  <1>9. ASSUME NEW b \in Blobs \ once, Around(b) PROVE Around(b)'
    <2>1. b \in told[d] => b \in cloud  BY DEF Inv, Undeleted
    <2> QED  BY <1>1, <1>2, <1>3, <1>9, <2>1 DEF Around
  <1>10. Named'
    <2> SUFFICES ASSUME NEW f \in Revisions, Around(f)', Blob(f.text) \notin once
                 PROVE  Around(Blob(f.text))'
      BY <1>1 DEF Named
    <2>1. Around(Blob(f.text))  BY <1>8 DEF Inv, Named
    <2>2. Blob(f.text) \in Blobs  BY RevisionIs, BlobIn
    <2> QED  BY <1>9, <2>1, <2>2
  <1>11. ASSUME NEW f, Older(f)' PROVE Settled(f)' /\ Seen(f)' /\ Together(f)'
    <2>1. Settled(f) /\ Seen(f) /\ Together(f)  BY <1>1, <1>11 DEF Inv, Older
    <2>2. f # x \/ f \notin cloud  BY <1>2, <2>1 DEF Settled
    <2>3. \A e \in Devices : f \in folder'[e] => f \in folder[e]
      BY <1>2, <1>3, <2>2 DEF FolderBecomes
    <2>4. Seen(f)'  BY <1>1, <2>1, <2>3 DEF Seen
    <2>5. Settled(f)'
      <3>1. ASSUME NEW e \in Devices PROVE (f \in folder'[e] => f \in told'[e]) /\ (f \in cloud => f \in told'[e])
        <4>1. (f \in folder[e] => f \in told[e]) /\ (f \in cloud => f \in told[e])  BY <2>1 DEF Settled
        <4>2. CASE f # x \/ e # d  BY <1>3, <4>1, <4>2
        <4>3. CASE f = x /\ e = d  BY <1>4, <1>5, <4>3
        <4> QED  BY <4>2, <4>3
      <3> QED  BY <1>1, <3>1 DEF Settled
    <2>6. ASSUME Everywhere(f)' PROVE Everywhere(Blob(f.text))'
      <3>1. Everywhere(f)  BY <1>1, <1>3, <2>2, <2>6 DEF Everywhere
      <3>2. Everywhere(Blob(f.text))  BY <2>1, <3>1 DEF Together
      <3>3. Blob(f.text) # x  BY <1>2, <3>2 DEF Everywhere
      <3> QED  BY <1>1, <1>3, <3>2, <3>3 DEF Everywhere
    <2> QED  BY <2>4, <2>5, <2>6 DEF Together
  <1> QED  BY <1>6, <1>7, <1>10, <1>11 DEF Inv

\* On the day a blob is past the grace it is everywhere or nowhere, and so is what names it.
LEMMA DayKeeps ==
  ASSUME TypeOK, Finite, Inv, Day
  PROVE  Inv'
  <1>1. UNCHANGED <<folder, told, cloud, op, stale>>  BY DEF Day
  <1>2. \A e \in Devices : folder[e] = told[e] /\ told[e] = cloud /\ op[e].pc = "idle"  BY DEF Day, Carried
  <1>3. once' = once \cup (cloud \cap Blobs) /\ aged' = [e \in Devices |-> folder[e] \cap Blobs]  BY DEF Day
  <1>4. AgedOnce'  BY <1>2, <1>3 DEF AgedOnce
  <1>5. Undeleted'  BY <1>1, <1>2 DEF Undeleted
  <1>6. Named'
    <2>1. \A f \in Revisions : Around(f) /\ Blob(f.text) \notin once => Around(Blob(f.text))  BY DEF Inv, Named
    <2> QED  BY <1>1, <1>3, <2>1 DEF Named, Around
  <1>7. ASSUME NEW f, Older(f)' PROVE Settled(f)' /\ Seen(f)' /\ Together(f)'
    <2>1. f \in Revisions /\ f \notin stale  BY <1>1, <1>7 DEF Older
    <2>2. Settled(f)'  BY <1>1, <1>2 DEF Settled
    <2>3. Seen(f)'  BY <1>1, <1>2 DEF Seen
    <2>4. Together(f)'
      <3>1. CASE Older(f)
        <4>1. Together(f)  BY <3>1 DEF Inv
        <4> QED  BY <1>1, <4>1 DEF Together, Everywhere
      <3>2. CASE ~Older(f)
        <4>1. Blob(f.text) \notin once  BY <2>1, <3>2 DEF Older
        <4>2. Blob(f.text) \in cloud  BY <1>3, <1>7, <4>1 DEF Older
        <4> QED  BY <1>1, <1>2, <4>2 DEF Together, Everywhere
      <3> QED  BY <3>1, <3>2
    <2> QED  BY <2>2, <2>3, <2>4
  <1> QED  BY <1>4, <1>5, <1>6, <1>7 DEF Inv

LEMMA InvBegins == Init => Inv
  <1> SUFFICES ASSUME Init PROVE Inv  OBVIOUS
  <1> USE DEF Init
  <1>1. AgedOnce /\ Undeleted  BY DEF AgedOnce, Undeleted
  <1>2. Named
    <2> SUFFICES ASSUME NEW f \in Revisions, Around(f) PROVE Around(Blob(f.text))  BY DEF Named
    <2>1. f # Blob({})
      <3>1. {} \in Texts  BY DEF Texts
      <3> QED  BY <3>1, BlobIn, RevisionIs
    <2>2. f \in {First, Blob({})}  BY DEF Around
    <2>3. f.text = {}  BY <2>1, <2>2, RevIs DEF First
    <2> QED  BY <2>3 DEF Around
  <1>3. \A f : ~Older(f)  BY DEF Older
  <1> QED  BY <1>1, <1>2, <1>3 DEF Inv

LEMMA Step ==
  ASSUME TypeOK, Finite, Inv, [Next]_vars
  PROVE  TypeOK' /\ Finite' /\ Inv'
  <1>1. ASSUME NEW d \in Devices, Edit(d) PROVE TypeOK' /\ Finite' /\ Inv'
    BY <1>1, EditDoes, StillKeeps
  <1>2. ASSUME NEW d \in Devices, Begin(d) PROVE TypeOK' /\ Finite' /\ Inv'
    BY <1>2, BeginDoes, StillKeeps
  <1>3. ASSUME NEW d \in Devices, Run(d) PROVE TypeOK' /\ Finite' /\ Inv'
    <2>1. CASE Push(d)  BY <2>1, PushDoes, StillKeeps
    <2>2. CASE PutBlob(d)  BY <2>2, PutBlobDoes, PutBlobKeeps
    <2>3. CASE Commit(d)  BY <2>3, CommitDoes, CommitKeeps
    <2>4. CASE Prune(d)  BY <2>4, PruneDoes, PruneKeeps
    <2>5. CASE Record(d)  BY <2>5, RecordDoes, StillKeeps
    <2>6. CASE Fetch(d)  BY <2>6, FetchDoes, StillKeeps
    <2>7. CASE Apply(d)  BY <2>7, ApplyDoes, StillKeeps
    <2>8. CASE Sweep(d)  BY <2>8, SweepDoes, SweepKeeps
    <2>9. CASE SweepBlob(d)  BY <2>9, SweepBlobDoes, SweepBlobKeeps
    <2>10. CASE EndRun(d)  BY <2>10, EndRunDoes, StillKeeps
    <2> QED  BY <1>3, <2>1, <2>2, <2>3, <2>4, <2>5, <2>6, <2>7, <2>8, <2>9, <2>10 DEF Run
  <1>4. ASSUME NEW d \in Devices, Settle(d) PROVE TypeOK' /\ Finite' /\ Inv'
    BY <1>4, SettleDoes, StillKeeps
  <1>5. ASSUME NEW d \in Devices, Stop(d) PROVE TypeOK' /\ Finite' /\ Inv'
    BY <1>5, EndRunDoes, StillKeeps
  <1>6. ASSUME NEW d \in Devices, Up(d) PROVE TypeOK' /\ Finite' /\ Inv'
    BY <1>6, UpDoes, UpKeeps
  <1>7. ASSUME NEW d \in Devices, Down(d) PROVE TypeOK' /\ Finite' /\ Inv'
    BY <1>7, DownDoes, DownKeeps
  <1>8. CASE Day  BY <1>8, DayDoes, DayKeeps
  <1>9. CASE UNCHANGED vars
    <2>1. Still /\ UNCHANGED <<text, link, op, spent>>  BY <1>9 DEF vars, Still
    <2> QED  BY <2>1, StillTypes, StillKeeps DEF TypeOK, Still
  <1> QED  BY <1>1, <1>2, <1>3, <1>4, <1>5, <1>6, <1>7, <1>8, <1>9 DEF Next

-----------------------------------------------------------------------------

\* A run works on revisions and texts that there are, whatever reaches the folder and
\* in whatever order: the head it reads is one of the revisions of the folder.
THEOREM Typed == Spec => []TypeOK
  <1>1. Init => TypeOK /\ Finite /\ Inv  BY TypesBegin, InvBegins
  <1>2. TypeOK /\ Finite /\ Inv /\ [Next]_vars => (TypeOK /\ Finite /\ Inv)'  BY Step
  <1> QED  BY <1>1, <1>2, PTL DEF Spec

\* The invariant: a blob is never taken away before it is past the grace, and from then
\* on the revisions that were there and their blobs go together.
THEOREM Invariant == Spec => []Inv
  <1>1. Init => TypeOK /\ Finite /\ Inv  BY TypesBegin, InvBegins
  <1>2. TypeOK /\ Finite /\ Inv /\ [Next]_vars => (TypeOK /\ Finite /\ Inv)'  BY Step
  <1> QED  BY <1>1, <1>2, PTL DEF Spec

LEMMA InvGives == ASSUME TypeOK, Inv PROVE BlobsStay
  <1> SUFFICES ASSUME NEW f \in Revisions \ stale, Lasts(f) PROVE Lasts(Blob(f.text))
    BY DEF BlobsStay
  <1>1. Blob(f.text) \in Blobs  BY RevisionIs, BlobIn
  <1>2. CASE Blob(f.text) \notin once
    <2>1. \A d \in Devices : Blob(f.text) \in told[d] => Blob(f.text) \in folder[d] /\ Blob(f.text) \in cloud
      BY <1>1, <1>2 DEF Inv, Undeleted
    <2>2. Around(f)  BY DEF Lasts, Around
    <2>3. Around(Blob(f.text))  BY <1>2, <2>2 DEF Inv, Named
    <2> QED  BY <2>1, <2>3 DEF Lasts, Around
  <1>3. CASE Blob(f.text) \in once
    <2>1. Settled(f) /\ Together(f)  BY <1>3 DEF Inv, Older
    <2>2. Everywhere(f)  BY <2>1 DEF Lasts, Settled, Everywhere
    <2>3. Everywhere(Blob(f.text))  BY <2>1, <2>2 DEF Together
    <2> QED  BY <2>3 DEF Lasts, Everywhere
  <1> QED  BY <1>2, <1>3

\* Whoever sees a revision that is to stay will get its text: for any number of devices,
\* in any order the files arrive, with runs stopped anywhere and sweeps and prunes at once.
THEOREM BlobsAreThere == Spec => []BlobsStay
  <1>1. TypeOK /\ Inv => BlobsStay  BY InvGives
  <1> QED  BY <1>1, Typed, Invariant, PTL
==============================================================================
