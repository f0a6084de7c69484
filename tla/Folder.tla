-------------------------------- MODULE Folder --------------------------------
(***************************************************************************)
(* A work kept in a folder that something else carries between the         *)
(* writer's devices (vault/store_dir.go; Git is the same store with a      *)
(* round around it).  There is no server to compare and swap: revisions    *)
(* and blobs are files, a name is never written twice with two contents,   *)
(* and each device works on the files that have reached it.                *)
(*                                                                         *)
(* The carrier takes one file at a time from a device to the cloud or from *)
(* the cloud to a device, a deleted file like a new one, in any order and  *)
(* with any delay.  (A pull or a push of Git is many such steps at once.)  *)
(* A run of a device is cut into the steps between which the carrier or    *)
(* another device may act and the engine may stop.  What else a run does,  *)
(* and the edits that come in the middle of it, are in module Vault.       *)
(***************************************************************************)
EXTENDS Integers, FiniteSets

CONSTANTS
    Devices,      \* numbers: the names of devices are compared
    Words,
    Kept,         \* dirRestorePoints
    Recur,        \* may a text come back to what it was before
    MaxRevision,  \* bound: revisions
    MaxEdits,     \* bound: edits
    MaxTurns      \* bound: days that pass, runs cut short, conflicts the writer settles

ASSUME DevicesAssumption == Devices \subseteq Nat
ASSUME KeptAssumption == Kept \in Nat \ {0}
ASSUME BoundsAssumption == MaxRevision \in Nat \ {0}

Texts == SUBSET Words
\* A text has one blob, named by its content.  A revision file is named by its
\* number, its device and its blob.
Blob(t)   == [kind |-> "blob", text |-> t]
Rev(n, d, t) == [kind |-> "revision", number |-> n, device |-> d, text |-> t]
Blobs     == {Blob(t) : t \in Texts}
First     == Rev(1, 0, {})
Revisions == {First} \cup {Rev(n, d, t) : n \in 1..MaxRevision, d \in Devices, t \in Texts}
Files     == Blobs \cup Revisions

VARIABLES
    text,    \* each device's text of the work
    link,    \* its link: base_revision, last_hash and mark
    folder,  \* the files in its folder
    told,    \* the files it and the cloud agreed on last
    cloud,   \* the files as the carrier holds them
    aged,    \* the blobs of a folder that are older than dirBlobGrace
    op,      \* its run
    once,    \* history: the blobs that have been past the grace somewhere
    stale,   \* history: revisions committed over one of those
    spent    \* counters for the bounds

files == <<folder, told, cloud, aged, once>>
vars  == <<text, link, files, op, stale, spent>>

Steps   == {"idle", "sweep", "sweeping", "push", "commit", "prune", "record", "pull", "apply"}
Running == [pc : Steps, text : Texts, head : Revisions, used : SUBSET Texts, mine : BOOLEAN]
Idle == [pc |-> "idle", text |-> {}, head |-> First, used |-> {}, mine |-> FALSE]

Init ==
    /\ text = [d \in Devices |-> {}]
    /\ link = [d \in Devices |-> [base |-> 1, hash |-> {}, mark |-> {}]]
    /\ folder = [d \in Devices |-> {First, Blob({})}] /\ told = folder
    /\ cloud = {First, Blob({})}
    /\ aged = [d \in Devices |-> {}]
    /\ op = [d \in Devices |-> Idle]
    /\ once = {} /\ stale = {}
    /\ spent = [edits |-> 0, turns |-> 0]

-----------------------------------------------------------------------------
(* What a device reads in its folder. *)

RevisionsIn(d) == {f \in folder[d] : f.kind = "revision"}

\* listRevisionFiles: newest first, by number and then by name: device, then blob.
\* (Blobs are named by a hash: of two texts one is first, and always the same one.)
Newer(f, g) == f.number > g.number \/ (f.number = g.number /\ f.device >= g.device)
Newest(S) == CHOOSE f \in S : \A g \in S : Newer(f, g)
Head(d) == Newest(RevisionsIn(d))
Has(d)  == RevisionsIn(d) # {}

\* compare
Changed(d)  == text[d] # link[d].hash
SameHead(d) == Head(d).number = link[d].base /\ Head(d).text = link[d].mark

Conflict(d) == /\ ~SameHead(d) /\ (Changed(d) \/ Head(d).number <= link[d].base)
               /\ Blob(Head(d).text) \in folder[d] /\ Head(d).text # text[d]

Linked(d, n, t) == link' = [link EXCEPT ![d] = [base |-> n, hash |-> t, mark |-> t]]
GoOn(d, pc)     == op' = [op EXCEPT ![d].pc = pc]

-----------------------------------------------------------------------------
\* The writer types a word nobody has typed before, or takes one out again.
Edit(d) ==
    /\ spent.edits < MaxEdits /\ spent' = [spent EXCEPT !.edits = @ + 1]
    /\ \/ \E w \in Words :
             /\ \A t \in {f.text : f \in cloud \cup UNION {folder[e] : e \in Devices}}
                          \cup {text[e] : e \in Devices} : w \notin t
             /\ text' = [text EXCEPT ![d] = @ \cup {w}]
       \/ /\ Recur
          /\ \E w \in text[d] : text' = [text EXCEPT ![d] = @ \ {w}]
    /\ UNCHANGED <<link, files, op, stale>>

\* A run begins: what it finds decides where it goes.  (An item that is gone while
\* there is a link is only reported.)
Begin(d) ==
    /\ op[d].pc = "idle"
    /\ \/ ~Has(d) /\ GoOn(d, "sweep") /\ UNCHANGED link
       \/ /\ Has(d)
          /\ \/ SameHead(d) /\ ~Changed(d) /\ GoOn(d, "sweep") /\ UNCHANGED link
             \/ SameHead(d) /\ Changed(d) /\ GoOn(d, "push") /\ UNCHANGED link
             \/ /\ Head(d).number > link[d].base /\ ~Changed(d)
                /\ GoOn(d, "pull") /\ UNCHANGED link
             \/ /\ ~SameHead(d) /\ (Changed(d) \/ Head(d).number <= link[d].base)
                /\ GoOn(d, "sweep")
                /\ \* matchesHead; or a conflict, or a blob that is still on its way
                   IF Head(d).text = text[d] /\ Blob(text[d]) \in folder[d]
                   THEN Linked(d, Head(d).number, text[d]) ELSE UNCHANGED link
    /\ UNCHANGED <<text, files, stale, spent>>

\* push: the text as it is now; the head once more.
Push(d) ==
    /\ op[d].pc = "push"
    /\ IF Has(d) /\ (SameHead(d) \/ op[d].mine)
       THEN op' = [op EXCEPT ![d] = [@ EXCEPT !.pc = "commit", !.text = text[d], !.head = Head(d)]]
       ELSE GoOn(d, "sweep")
    /\ UNCHANGED <<text, link, files, stale, spent>>

\* Commit says what is missing, and PutBlob writes it: new, so not yet old.
PutBlob(d) ==
    /\ op[d].pc = "commit" /\ Blob(op[d].text) \notin folder[d]
    /\ folder' = [folder EXCEPT ![d] = @ \cup {Blob(op[d].text)}]
    /\ UNCHANGED <<text, link, told, cloud, aged, once, op, stale, spent>>

\* Commit's check is by number: it cannot tell two revisions of one number apart.
\* Mutant of HeadIsBase: against the number the new revision will have.
HeadIsNext(d) == Head(d).number = op[d].head.number + 1
HeadIsBase(d) == Head(d).number = op[d].head.number

Commit(d) ==
    /\ op[d].pc = "commit" /\ Blob(op[d].text) \in folder[d]
    /\ IF Has(d) /\ HeadIsBase(d)
       THEN LET rev == Rev(Head(d).number + 1, d, op[d].text) IN
            /\ Head(d).number < MaxRevision
            /\ folder' = [folder EXCEPT ![d] = @ \cup {rev}]
            /\ op' = [op EXCEPT ![d].pc = "prune", ![d].head = rev]
            /\ stale' = IF Blob(op[d].text) \in once THEN stale \cup {rev} ELSE stale
       ELSE GoOn(d, "sweep") /\ UNCHANGED <<folder, stale>>
    /\ UNCHANGED <<text, link, told, cloud, aged, once, spent>>

\* pruneRevisions: of those beyond the newest some are the last of their day.
Beyond(d) == {f \in RevisionsIn(d) : Cardinality({g \in RevisionsIn(d) : Newer(g, f)}) > Kept}

Prune(d) ==
    /\ op[d].pc = "prune"
    /\ \E gone \in SUBSET Beyond(d) : folder' = [folder EXCEPT ![d] = @ \ gone]
    /\ GoOn(d, "record")
    /\ UNCHANGED <<text, link, told, cloud, aged, once, stale, spent>>

Record(d) ==
    /\ op[d].pc = "record"
    /\ Linked(d, op[d].head.number, op[d].text)
    /\ GoOn(d, "sweep")
    /\ UNCHANGED <<text, files, stale, spent>>

\* pull: the head once more, then its blob, which may not have come yet.
Fetch(d) ==
    /\ op[d].pc = "pull"
    /\ op' = IF Has(d) /\ Blob(Head(d).text) \in folder[d] /\ Head(d).number >= link[d].base
             THEN [op EXCEPT ![d].pc = "apply", ![d].head = Head(d)]
             ELSE [op EXCEPT ![d].pc = "sweep"]
    /\ UNCHANGED <<text, link, files, stale, spent>>

\* refuseIfChanged, and the text is replaced.
Apply(d) ==
    /\ op[d].pc = "apply"
    /\ IF ~Changed(d) \/ op[d].mine
       THEN /\ text' = [text EXCEPT ![d] = op[d].head.text]
            /\ Linked(d, op[d].head.number, op[d].head.text)
       ELSE UNCHANGED <<text, link>>
    /\ GoOn(d, "sweep")
    /\ UNCHANGED <<files, stale, spent>>

\* sweepBlobs: first the revisions are read, then what none of them uses and is old
\* enough goes, blob by blob.
\* Mutant of Sweepable: whatever its age.
SweepableAny(d) == {b \in folder[d] \cap Blobs : b.text \notin op[d].used}
Sweepable(d) == {b \in folder[d] \cap aged[d] : b.text \notin op[d].used}

Sweep(d) ==
    /\ op[d].pc = "sweep"
    /\ op' = [op EXCEPT ![d].pc = "sweeping", ![d].used = {f.text : f \in RevisionsIn(d)}]
    /\ UNCHANGED <<text, link, files, stale, spent>>

SweepBlob(d) ==
    /\ op[d].pc = "sweeping"
    /\ \E b \in Sweepable(d) :
          /\ folder' = [folder EXCEPT ![d] = @ \ {b}]
          /\ aged' = [aged EXCEPT ![d] = @ \ {b}]
    /\ UNCHANGED <<text, link, told, cloud, once, op, stale, spent>>

EndRun(d) ==
    /\ op[d].pc = "sweeping" /\ Sweepable(d) = {}
    /\ op' = [op EXCEPT ![d] = Idle]
    /\ UNCHANGED <<text, link, files, stale, spent>>

\* The writer settles a conflict: this device's text goes on top of the head, or
\* the head's is taken.
Settle(d) ==
    /\ op[d].pc = "idle" /\ spent.turns < MaxTurns
    /\ Has(d) /\ Conflict(d)
    /\ spent' = [spent EXCEPT !.turns = @ + 1]
    /\ \E pc \in {"push", "pull"} : op' = [op EXCEPT ![d] = [Idle EXCEPT !.pc = pc, !.mine = TRUE]]
    /\ UNCHANGED <<text, link, files, stale>>

\* A run is cut short.
Stop(d) ==
    /\ op[d].pc # "idle" /\ spent.turns < MaxTurns
    /\ spent' = [spent EXCEPT !.turns = @ + 1]
    /\ op' = [op EXCEPT ![d] = Idle]
    /\ UNCHANGED <<text, link, files, stale>>

Run(d) ==
    \/ Push(d) \/ PutBlob(d) \/ Commit(d) \/ Prune(d) \/ Record(d)
    \/ Fetch(d) \/ Apply(d) \/ Sweep(d) \/ SweepBlob(d) \/ EndRun(d)

-----------------------------------------------------------------------------
(* The carrier, and time. *)

Unlike(S, T) == (S \ T) \cup (T \ S)

\* A change of the device's goes up.
Up(d) ==
    \E f \in Unlike(folder[d], told[d]) :
        /\ told' = [told EXCEPT ![d] = Unlike(@, {f})]
        /\ cloud' = IF f \in folder[d] THEN cloud \cup {f} ELSE cloud \ {f}
        /\ UNCHANGED <<text, link, folder, aged, once, op, stale, spent>>

\* A change in the cloud comes down, if the device has none of its own.
Down(d) ==
    \E f \in Unlike(cloud, told[d]) \ Unlike(folder[d], told[d]) :
        /\ told' = [told EXCEPT ![d] = Unlike(@, {f})]
        /\ folder' = [folder EXCEPT ![d] = Unlike(@, {f})]
        /\ aged' = [aged EXCEPT ![d] = @ \ {f}]
        /\ UNCHANGED <<text, link, cloud, once, op, stale, spent>>

Carried == \A d \in Devices : folder[d] = told[d] /\ told[d] = cloud

\* A day goes by.  The grace is what sweepBlobs takes it to be: longer than a commit
\* and longer than the carrier holds anything back.
Day ==
    /\ spent.turns < MaxTurns /\ spent' = [spent EXCEPT !.turns = @ + 1]
    /\ Carried /\ \A d \in Devices : op[d].pc = "idle"
    /\ aged' = [d \in Devices |-> folder[d] \cap Blobs]
    /\ once' = once \cup (cloud \cap Blobs)
    /\ UNCHANGED <<text, link, folder, told, cloud, op, stale>>

Next ==
    \/ \E d \in Devices :
          Edit(d) \/ Begin(d) \/ Run(d) \/ Settle(d) \/ Stop(d) \/ Up(d) \/ Down(d)
    \/ Day

Spec == Init /\ [][Next]_vars

\* A device goes on with its run and begins the next, and the carrier carries,
\* be it for the other device first.
FairSpec ==
    /\ Spec
    /\ \A d \in Devices : WF_vars(Begin(d) \/ Run(d))
    /\ WF_vars(\E d \in Devices : Up(d) \/ Down(d))

-----------------------------------------------------------------------------
(* Properties *)

\* Every variable has its type: what a run works on are revisions and texts that
\* there are, and what is old enough to be swept are blobs of the folder.
TypeOK ==
    /\ text \in [Devices -> Texts]
    /\ link \in [Devices -> [base : 1..MaxRevision, hash : Texts, mark : Texts]]
    /\ folder \in [Devices -> SUBSET Files] /\ told \in [Devices -> SUBSET Files]
    /\ cloud \subseteq Files /\ once \subseteq Blobs /\ stale \subseteq Revisions
    /\ aged \in [Devices -> SUBSET Blobs] /\ \A d \in Devices : aged[d] \subseteq folder[d]
    /\ op \in [Devices -> Running]
    /\ spent \in [edits : Nat, turns : Nat]

\* The blobs go first and the revision last, and only old unused blobs are swept:
\* a revision that is to stay has its blob, in the cloud or on its way there, and
\* nobody has deleted it, so whoever sees the revision will get its text.  (Unless
\* the name of its blob had once been past the grace: it may be swept somewhere.)
Lasts(f) ==
    /\ f \in cloud \/ \E d \in Devices : f \in folder[d] \ told[d]
    /\ \A d \in Devices : f \notin told[d] \ folder[d]
BlobsStay == \A f \in Revisions \ stale : Lasts(f) => Lasts(Blob(f.text))

\* store_dir.go: blobs are swept "once they are old enough that no commit can still
\* be on its way to them".
AllBlobsStay == \A f \in Revisions : Lasts(f) => Lasts(Blob(f.text))

\* When the writer stops typing every device ends up in step with the head, or in a
\* conflict that shows it a text it can read.
InStep(d)   == SameHead(d) /\ ~Changed(d) /\ text[d] = Head(d).text
Settles == <>[](stale # {} \/ (Carried /\ \A d \in Devices : Has(d) /\ (InStep(d) \/ Conflict(d))))

\* store_dir.go: of two devices that write one number "the one that lost finds the
\* head is not what it sent".  So what a run takes by itself has every word of what
\* was here.
LoserFindsOut ==
    [][\A d \in Devices : Apply(d) /\ ~op[d].mine => text[d] \subseteq text'[d]]_vars
=============================================================================
