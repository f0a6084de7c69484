---------------------------- MODULE LibraryItem ----------------------------
(* What a writer has outside any work - the profile, the skills' files, the    *)
(* choice of what to carry - kept in step between devices without asking       *)
(* (internal/vault/library.go and internal/vaultbundle/library.go). One item,  *)
(* one merge: a part only one side changed goes that way, and where both did   *)
(* the newer wins.                                                             *)
(*                                                                             *)
(* A device runs one of these at a time (Service.begin); the writer types and  *)
(* deletes in the middle of it. One action is one write of a file or a row, or *)
(* one request. A text stands for its bytes and for the time it bears, which a *)
(* take carries over (Chtimes), so clocks that disagree are texts typed in any *)
(* order. Revisions never share a number: what tells a head from one of the    *)
(* same number (Mark) is part of it.                                           *)
(*                                                                             *)
(* Left out: sealing, which part of a request failed, mirrors, sizes.          *)
EXTENDS Naturals

CONSTANTS
    Devices,
    Parts,          \* the profile and the skills' files, each its own category
    Linkers,        \* the devices that have the work linked
    Profile,        \* the profile, which is no file and has no history
    Logged,         \* the skills' own files (SKILL.md), which have one
    Unparsed,       \* the texts that make no skill
    Symlinks,       \* <<device, part>>: the skill is a symlink there
    Texts,          \* what a part can say: numbers, in the order of their hashes
    Stamp,          \* the time a text was written
    AtFirst,        \* what the parts say at first, on every device
    TooLong,        \* the profiles a device refuses to take in
    Choices,        \* the selections a writer makes: what to leave out
    MaxEdits,       \* bound: parts typed or deleted, works edited by hand
    MaxChoices,     \* bound: calls of SetItems
    MaxFaults       \* bound: operations that stop half way

None == 0
Never == {"never"}  \* the selection of a device that never sent or took
Rounds == 3         \* maxLibraryRounds
Work == "work"      \* the categories of a work's own bundle, together

VARIABLES
    files,          \* what each device's disk and database hold
    selection,      \* sync_selection: what is left out, and since when
    base,           \* vault_library: the revision last met, and its parts
    op,             \* the operation each device is in: what it read, and for the
                    \* properties what was typed meanwhile and what it last kept
    head,           \* the item at the target
    revision,       \* the last number the target gave out
    work,           \* each device's work: changed by hand, the selection it is linked under
    done,           \* how often each of the bounded things happened
    history         \* what happened, for the properties

device == <<files, selection, base, op>>
vars == <<device, head, revision, work, done, history>>

Bundle == [parts : [Parts -> Texts \cup {None}], omit : (SUBSET (Parts \cup {Work})) \cup {Never}]
NoBundle == [parts |-> [p \in Parts |-> None], omit |-> Never]
Unlinked(d) == {p \in Parts : <<d, p>> \notin Symlinks}

-----------------------------------------------------------------------------
(* ExportLibrary.                                                              *)
Export(d, omit) ==
    [parts |-> [p \in Parts |-> IF p \in Unlinked(d) \ omit THEN files[d][p] ELSE None],
     omit |-> omit]

Empty(b) == b.omit = {} /\ \A p \in Parts : b.parts[p] = None

Newer(t, u) == Stamp[t] > Stamp[u] \/ (Stamp[t] = Stamp[u] /\ t > u)

DeleteWins(local, remote, was) ==
    IF remote \in {local, was} THEN "keep"
    ELSE IF remote = None THEN "remove"
    ELSE IF local \in {was, None} \/ Newer(remote, local) THEN "take" ELSE "keep"

(* mergePart: one part, by what is here, what is there and what both had. One  *)
(* that was deleted there and changed here is kept.                            *)
Verdict(local, remote, was) ==
    IF remote \in {local, was} THEN "keep"
    ELSE IF remote = None THEN IF local = was THEN "remove" ELSE "keep"
    ELSE IF local \in {was, None} \/ Newer(remote, local) THEN "take" ELSE "keep"

(* The parts a take is to change, as the device stood when it read itself.     *)
ToChange(d, there) ==
    {p \in Parts \ (selection[d].omit \cup there.omit) :
        Verdict(Export(d, {}).parts[p], there.parts[p], base[d].parts[p]) # "keep"}

-----------------------------------------------------------------------------
Idle == [at |-> "idle"]
Looking(round) == [at |-> "look", round |-> round]

Init ==
    /\ files = [d \in Devices |-> AtFirst]
    /\ selection = [d \in Devices |-> [omit |-> {}, at |-> 0]]
    /\ base = [d \in Devices |-> [parts |-> NoBundle.parts, omit |-> Never, rev |-> None]]
    /\ op = [d \in Devices |-> Idle]
    /\ head = [parts |-> NoBundle.parts, omit |-> Never, rev |-> None, at |-> 0] /\ revision = 0
    /\ work = [d \in Linkers |-> [edited |-> FALSE, under |-> {}, half |-> FALSE, touched |-> FALSE]]
    /\ done = [edits |-> 0, choices |-> 0, faults |-> 0]
    /\ history = [dropped |-> {}, unmet |-> {}]

-----------------------------------------------------------------------------
(* The writer.                                                                 *)

Type(d, p, t) ==
    /\ done.edits < MaxEdits /\ files[d][p] # t
    /\ p = Profile => t \notin TooLong
    /\ files' = [files EXCEPT ![d][p] = t]
    /\ done' = [done EXCEPT !.edits = @ + 1]
    /\ op' = IF op[d].at = "taking" THEN [op EXCEPT ![d].raced = @ \cup {p}] ELSE op
    /\ history' = IF t = None THEN [history EXCEPT !.dropped = @ \cup {<<d, p>>}] ELSE history
    /\ UNCHANGED <<selection, base, head, revision, work>>

EditWork(d) ==
    /\ d \in Linkers /\ done.edits < MaxEdits /\ ~work[d].edited
    /\ done' = [done EXCEPT !.edits = @ + 1] /\ work' = [work EXCEPT ![d].edited = TRUE, ![d].touched = TRUE]
    /\ UNCHANGED <<device, head, revision, history>>

(* A push of the work ends with the link at the hash of what went up.          *)
UploadWork(d) ==
    /\ d \in Linkers /\ op[d].at = "idle" /\ work[d].touched
    /\ work' = [work EXCEPT ![d] = [edited |-> FALSE, under |-> selection[d].omit \cap {Work},
                                    half |-> FALSE, touched |-> FALSE]]
    /\ UNCHANGED <<device, head, revision, done, history>>

(* SetItems, up to the library round that follows it when there is a key.      *)
SetItems(d, omit) ==
    /\ op[d].at = "idle" /\ done.choices < MaxChoices /\ omit # selection[d].omit
    /\ done' = [done EXCEPT !.choices = @ + 1]
    /\ selection' = [selection EXCEPT ![d] = [omit |-> omit, at |-> done'.choices]]
    /\ op' = [op EXCEPT ![d] = Looking(1)]
    /\ work' = IF d \in Linkers THEN [work EXCEPT ![d].touched = TRUE] ELSE work
    /\ UNCHANGED <<files, base, head, revision, history>>

-----------------------------------------------------------------------------
(* One round.                                                                  *)

(* What is still to be done once this device stands at the head: nothing, when *)
(* it would send what is there already, or a library with nothing in it.       *)
Onward(d, last, rev, round) ==
    LET out == Export(d, selection[d].omit)
    IN IF out = last \/ (rev = None /\ Empty(out)) THEN Idle
       ELSE [at |-> "out", bundle |-> out, chosen |-> selection[d].at, rev |-> rev, round |-> round]

MovedText(d) == head.rev # None /\ head.parts # base[d].parts

Moved(d) == head.rev # None /\ head.rev # base[d].rev

Known(d) == IF head.rev = None THEN NoBundle ELSE [parts |-> base[d].parts, omit |-> base[d].omit]

Standing(d) == IF head.rev = None THEN None ELSE base[d].rev

(* syncLibrary, or pullLibrary, which only takes. The head and this device are *)
(* read here, and the merge goes by what was read.                             *)
Look(d, sends) ==
    /\ \/ op[d].at = "idle"
       \/ op[d].at = "look" /\ sends
    /\ LET round == IF op[d].at = "idle" THEN 1 ELSE op[d].round
       IN \/ /\ Moved(d)
             /\ op' = [op EXCEPT ![d] = [at |-> "taking", there |-> head, sends |-> sends,
                            round |-> round, todo |-> ToChange(d, head), raced |-> {}, kept |-> {}]]
          \/ /\ ~Moved(d) /\ sends
             /\ op' = [op EXCEPT ![d] = Onward(d, Known(d), Standing(d), round)]
    /\ UNCHANGED <<files, selection, base, head, revision, work, done, history>>

(* remember: a SKILL.md that parses goes into the skill's history, and nothing *)
(* else does.                                                                  *)
Keeps(d, p) ==
    IF p \in Logged /\ files[d][p] \notin Unparsed \cup {None} THEN {<<p, files[d][p]>>} ELSE {}

(* What the history has of the text that is about to go: nothing, when it was  *)
(* typed after remember's look, or when the record fails, which stops nothing. *)
Remembers(d, p, kept) ==
    \/ kept = Keeps(d, p) /\ UNCHANGED done
    \/ kept = {} /\ p \in op[d].raced /\ UNCHANGED done
    \/ kept = {} /\ p \in Logged /\ done.faults < MaxFaults /\ done' = [done EXCEPT !.faults = @ + 1]

(* A skill that is a symlink is left alone, and a profile too long to be taken *)
(* in is refused, whole.                                                       *)
Stays(d, p) == <<d, p>> \in Symlinks \/ (p = Profile /\ op[d].there.parts[p] \in TooLong)

(* ApplyLibrary, one part.                                                     *)
Apply(d, p) ==
    /\ op[d].at = "taking" /\ p \in op[d].todo
    /\ \/ /\ Stays(d, p)
          /\ op' = [op EXCEPT ![d].todo = @ \ {p}]
          /\ history' = [history EXCEPT !.unmet = @ \cup {p}]
          /\ UNCHANGED <<files, done>>
       \/ /\ ~Stays(d, p)
          /\ files' = [files EXCEPT ![d][p] = op[d].there.parts[p]]
          /\ \E kept \in {Keeps(d, p), {}} :
                /\ Remembers(d, p, kept)
                /\ op' = [op EXCEPT ![d].todo = @ \ {p}, ![d].kept = kept]
          /\ UNCHANGED history
    /\ UNCHANGED <<selection, base, head, revision, work>>

(* For the properties: parts of categories that were left out when the head    *)
(* was taken, so that what the base will say of them is not so here.           *)
Strange(d, left) == {p \in left \cap Parts : op[d].there.parts[p] # Export(d, {}).parts[p]}

Adopts(d) == op[d].there.at > selection[d].at

RelinkAll(d, old, new) == TRUE

(* The link of a work still at its old selection's hash.                       *)
Unchanged(d, old, new) == ~work[d].edited /\ work[d].under = old

(* adoptSelection: works left unchanged here are hashed again under the new    *)
(* selection, in statements of their own; then the selection is written.       *)
Relink(d) ==
    LET old == selection[d].omit \cap {Work}
        new == op[d].there.omit \cap {Work}
    IN /\ op[d].at = "taking" /\ op[d].todo = {} /\ Adopts(d)
       /\ op' = [op EXCEPT ![d].at = "adopting"]
       /\ work' = IF d \in Linkers /\ old # new /\ Unchanged(d, old, new)
                  THEN [work EXCEPT ![d].under = new, ![d].half = TRUE, ![d].edited = FALSE]
                  ELSE work
       /\ UNCHANGED <<files, selection, base, head, revision, done, history>>

Adopt(d) ==
    /\ op[d].at = "adopting" /\ op' = [op EXCEPT ![d].at = "adopted"]
    /\ selection' = [selection EXCEPT ![d] = [omit |-> op[d].there.omit, at |-> op[d].there.at]]
    /\ work' = [e \in Linkers |-> [work[e] EXCEPT !.half = @ /\ (e = d => work[e].under # op[d].there.omit \cap {Work})]]
    /\ history' = [history EXCEPT !.unmet = @ \cup Strange(d, selection[d].omit)]
    /\ UNCHANGED <<files, base, head, revision, done>>

(* takeLibrary's last write. The base is all the item holds, the parts that    *)
(* were left alone too.                                                        *)
Settle(d) ==
    /\ \/ op[d].at = "adopted"
       \/ op[d].at = "taking" /\ op[d].todo = {} /\ ~Adopts(d)
    /\ LET there == op[d].there
       IN /\ base' = [base EXCEPT ![d] = [parts |-> there.parts, omit |-> there.omit, rev |-> there.rev]]
          /\ op' = [op EXCEPT ![d] =
                IF op[d].sends
                THEN Onward(d, [parts |-> there.parts, omit |-> there.omit], there.rev, op[d].round)
                ELSE Idle]
          /\ history' = [history EXCEPT !.unmet = @ \cup Strange(d, selection[d].omit \cup there.omit)]
    /\ UNCHANGED <<files, selection, head, revision, work, done>>

(* For the properties: what a head left out and the next has in again, with    *)
(* nothing of it.                                                              *)
BackEmpty(d) == {p \in (head.omit \cap Parts) \ op[d].bundle.omit : op[d].bundle.parts[p] = None}

(* Commit: the target takes a revision only on top of the one it was made on.  *)
Send(d) ==
    /\ op[d].at = "out"
    /\ IF head.rev = op[d].rev
       THEN /\ revision' = revision + 1
            /\ head' = [parts |-> op[d].bundle.parts, omit |-> op[d].bundle.omit, rev |-> revision', at |-> op[d].chosen]
            /\ op' = [op EXCEPT ![d].at = "sent", ![d].rev = revision']
            /\ history' = [history EXCEPT !.unmet = @ \cup BackEmpty(d)]
       ELSE /\ op' = [op EXCEPT ![d] = IF op[d].round < Rounds THEN Looking(op[d].round + 1) ELSE Idle]
            /\ UNCHANGED <<head, revision, history>>
    /\ UNCHANGED <<files, selection, base, work, done>>

Record(d) ==
    /\ op[d].at = "sent" /\ op' = [op EXCEPT ![d] = Idle]
    /\ base' = [base EXCEPT ![d] = [parts |-> op[d].bundle.parts, omit |-> op[d].bundle.omit, rev |-> op[d].rev]]
    /\ UNCHANGED <<files, selection, head, revision, work, done, history>>

(* A request, the disk or the engine fails: what was written stays written. A  *)
(* failure before the first write is an operation that never began.            *)
Fail(d) ==
    /\ op[d].at \in {"taking", "adopting", "adopted", "sent"} /\ done.faults < MaxFaults
    /\ op' = [op EXCEPT ![d] = Idle] /\ done' = [done EXCEPT !.faults = @ + 1]
    /\ UNCHANGED <<files, selection, base, head, revision, work, history>>

-----------------------------------------------------------------------------
Step(d) ==
    \/ \E p \in Parts : Apply(d, p)
    \/ Relink(d) \/ Adopt(d) \/ Settle(d) \/ Send(d) \/ Record(d)

Next ==
    \/ \E d \in Devices :
        \/ \E p \in Parts, t \in Texts \cup {None} : Type(d, p, t)
        \/ EditWork(d) \/ UploadWork(d)
        \/ \E omit \in Choices : SetItems(d, omit)
        \/ \E sends \in BOOLEAN : Look(d, sends)
        \/ Step(d) \/ Fail(d)

Spec == Init /\ [][Next]_vars

(* Automatic sync comes round again and again on every device (SyncRunner).    *)
FairSpec == Spec /\ \A d \in Devices : WF_vars(Look(d, TRUE)) /\ WF_vars(Step(d))
-----------------------------------------------------------------------------
TypeOK ==
    /\ files \in [Devices -> [Parts -> Texts \cup {None}]]
    /\ \A d \in Devices :
        /\ selection[d].omit \in Choices \cup {{}} /\ selection[d].at \in 0 .. MaxChoices
        /\ [parts |-> base[d].parts, omit |-> base[d].omit] \in Bundle
        /\ base[d].rev \in 0 .. revision
        /\ op[d].at \in {"idle", "look", "taking", "adopting", "adopted", "out", "sent"}
    /\ [parts |-> head.parts, omit |-> head.omit] \in Bundle
    /\ head.rev \in 0 .. revision /\ head.at \in 0 .. MaxChoices
    /\ DOMAIN work = Linkers

Removes(d, p) == files[d][p] # None /\ files'[d][p] = None
Replaces(d, p) == files[d][p] # None /\ files'[d][p] \notin {None, files[d][p]}
Takes(d) == op[d].at = "taking" /\ op'[d].at = "taking" /\ op'[d].todo # op[d].todo

(* A take removes a part only because a writer once took it away somewhere: an *)
(* edit beats a deletion, and what a device never had is no deletion. Left out *)
(* are the parts some device's base names a text of that it was never given    *)
(* (omitted, refused, linked), and those that were taken in again, empty, by a *)
(* device that had left them out: the next take them for deleted.              *)
GoneByHand ==
    [][\A d \in Devices, p \in Parts : Takes(d) /\ Removes(d, p) =>
            \/ p \in history.unmet
            \/ /\ \E e \in Devices : <<e, p>> \in history.dropped
               /\ files[d][p] = base[d].parts[p] \/ p \in op[d].raced]_vars

(* What a take replaces or removes is in a revision or in the skill's history, *)
(* or it was typed while the take was under way. Otherwise it only goes to a   *)
(* newer text, and a SKILL.md that parses not even then unless its record      *)
(* failed; the profile, the other files of a skill and a SKILL.md that does    *)
(* not parse have no history.                                                  *)
TextsKept ==
    [][\A d \in Devices, p \in Parts : Takes(d) /\ (Removes(d, p) \/ Replaces(d, p)) =>
            \/ files[d][p] = base[d].parts[p] \/ <<p, files[d][p]>> \in op'[d].kept \/ p \in op[d].raced
            \/ /\ Newer(files'[d][p], files[d][p])
               /\ p \notin Logged \/ files[d][p] \in Unparsed \/ done' # done]_vars

(* vaultbundle/library.go on ApplyLibrary: when both changed a part, the loser *)
(* stays in the skill's history here and among the restore points there.       *)
LoserStays ==
    [][\A d \in Devices, p \in Parts : Takes(d) /\ Replaces(d, p) =>
            files[d][p] = base[d].parts[p] \/ <<p, files[d][p]>> \in op'[d].kept]_vars

(* An adopted selection is not an edit: a work nobody touched here does not    *)
(* read as changed, so its own upload meets no conflict; and one that was      *)
(* changed by hand never reads as unchanged. Between the two writes of an      *)
(* adoption, and after a stop there, the first part waits for the next take.   *)
ReadsChanged(d) == work[d].edited \/ work[d].under # selection[d].omit \cap {Work}

AdoptionIsNoEdit ==
    [][\A d \in Linkers :
        /\ ~work'[d].half /\ ReadsChanged(d)' => work'[d].touched
        /\ work[d].edited /\ ~work'[d].edited => ~work'[d].touched]_vars

(* A take removes only what a writer took away, what it replaces was sent, is  *)
(* in a skill's history or is older, and an adopted selection is no edit.      *)
LibraryKept == []TypeOK /\ GoneByHand /\ TextsKept /\ AdoptionIsNoEdit

(* Once the writers leave it alone, every device that syncs comes to hold what *)
(* the item holds, under one selection, however the rounds fell.               *)
InStep(d) == base[d].rev = head.rev /\ Export(d, selection[d].omit).parts = head.parts

Settles == <>[](\A d \in Devices : op[d].at = "idle" => head.rev = None \/ InStep(d))

=============================================================================
