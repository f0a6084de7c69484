# Linetta: a formal model

TLA+ models of [Linetta](../src/README.md), the writing studio, with the TLC
runs that check them on small instances and TLAPS proofs of what matters most
for instances of any size. Paths below are relative to `src/engine/internal/`
unless they begin with `src/`.

    tlasany Vault.tla                                  parse a module
    tlc -workers 2 -config VaultCalm.cfg MCVault.tla   check one run
    tlapm VaultProofs.tla                              check the proofs

`PROJECT.json` lists the components, the runs, the source lines each definition
stands for (`map`), one seeded bug for every property (`mutants`: the operators
marked *Mutant of* in the modules), the places where code and comments part
(`findings`), the hazards and the theorems.

## 1. The system

Linetta is one Go engine per device (`src/engine`), a SQLite library, and a
window (`src/apps/desktop`) that calls it over JSON-RPC. The engine answers every
request on a goroutine of its own (`rpc/server.go`); so do the agents' tool calls
(the built-in agent's, and those of outside agents over MCP); the sync loop and
the summarizer run beside them. The database has one connection: a statement is
atomic, a transaction is atomic, and *everything between two of them is not*. That
is the cut in every model here: an action is one statement or transaction, one
request to a site, one file written, or one critical section.

| Component | State | Operations | Talks to | What makes it correct | Model |
|---|---|---|---|---|---|
| **vault** (`vault/service.go`, `auto.go`, `repo.go`) | per work and target a link: base revision, last hash; queued deletions; a busy flag; revisions at the store | push, pull, answer to a conflict, deletion marker, automatic run | rows through vaultbundle, a store, a snapshot before a pull | no word lost, no update lost, "in step" is true, every device gets there | `Vault`, `WordCopies` |
| **syncauto** (`syncauto/runner.go`) | works on screen, edits and their times, flags to go at once, `closed`, `woken` | tick, touch, open, close, flush, shutdown | vault's `SyncAll`, mirrors, agents at work | no wake missed, every edit goes up | `SyncRunner` |
| **folder and Git stores** (`vault/store_dir.go`) | files that another program carries | commit, prune, sweep of blobs | the file system | a sweep takes no blob in use; devices settle though files come in any order | `Folder` |
| **library item** (`vault/library.go`, `vaultbundle/library.go`) | profile, skills, the choice of what to carry, a base | look, take, send | the store | nothing removed that must not be, what is replaced was sent, remembered or older; agreement | `LibraryItem` |
| **vaultbundle, restore** | none of their own | export, apply, copy of a work | every table of a work | lands whole, without what is the device's own | `WorkCopy` |
| **scenes and summaries** (`node/repo.go`, `summarizer/`, `manuscriptedit/`, `src/apps/desktop/src/lib/sceneSaveQueue.ts`) | text, version, summary and the version it is for, snapshots; the editor's save queue | save, agent's write, replace, restore, relink, summarize | each other | a fresh summary is of the text, words that go are in a snapshot | `SceneText` |
| **manuscript tree, storyops** (`node/repo.go`, `storyops/`) | rows with parent and ordinal; a window of undoable batches | every move, delete, convert and repair; a batch, its rollback, its undo | people, mentions, bonds | a tree, one row at each place; an undo is exact | `Outline`, `OutlineOrder` |
| **proposals** (`proposals/`) | items, their status and what they made | accept, reject, undo, the start's reconciliation | storyops, nodes, people | the inbox tells the truth, nothing stays half undone | `Proposals` |
| **publish** (`publish/`) | token, account, pairing, saved rows | connect, disconnect, publish in order | the site | disconnected stays so; numbers follow the outline | `Publish` |
| **illustrations** (`illustration/`) | requests, gallery, places that name a picture | submit, approve, reject, draw, place, delete | a provider, the scene's text | drawn once, decided for good, no word taken, what is drawn is decided | `Illustrations` |
| **agent** (`agent/`) | run registry, wait group, tool session and its references | a turn, the passes after it, stop, close | tools | one turn writes a work; no session closed under a turn or left open | `AgentTurns` |
| **codexauth** | one attempt, its listener, `auth.json` | start, callback, sign out | browser, provider | the newest sign-in holds; a sign-out lasts | `CodexLogin` |
| **mcphost, its tools** (`mcphost/`) | a server, a port, a token, the discovery file | enable, disable, regenerate | outside agents | the file names what runs | `McpHost` |
| **ledger, settlement** (`ledger/`) | facts, pins, replacements; which scenes were read | add, edit, pin, replace; a pass and its record | agents' tools | pins hold; what is let off was read | `Ledger`, `Settlement` |
| **continuity, forecast** (`continuity/`, `forecast/`) | checks and observations, compared pairs, forecasts and hashes of the canon | report, decide, sample, save, list, choose | scenes | a quote stood in the text; what is stale says so | `Continuity`, `Samples`, `Forecasts` |
| **storycontext** (`storycontext/`) | none | the brief of a scene | everything | nothing the scene cannot know but what is next to it, no summary twice, what is left out counted | `Brief` |
| **settings** (`settings/`) | file, memory, secret store | load with migration, set, publishing account | the system's secret store | every key is where it may be; a refusal changes nothing | `Settings` |
| **skills** (`agentskills/`) | files, a log | write, create, delete, restore; edits by hand | agents, the pane | what the app wrote can be gone back to | `Skills` |
| **import and export** (`export/`, `importmd/`) | none | write Markdown, read it | the tree | a work comes back | `Transfer`, `Markdown` |
| keys, sealing, the site's client (`vault/crypto.go`, `client.go`) | | | | cryptography, HTTP | – |
| store, rpc, engine assembly; desktop shell and window; clio | | | | plumbing; the window's calls appear as the writer's actions | – |

What is hard here, and what the properties are for:

- **No lock on the text.** A pull asks the vault, checks the work, takes a
  snapshot, replaces the rows, exports them again and records a hash; a
  replacement reads all scenes and writes each; a relink lists all texts first;
  a batch of an agent is many transactions. Window and agents act in between.
- **Looks that go stale.** A handler reads a row, decides, and writes: a limit is
  counted before the insert, a status read before the update, an id looked up
  before the transaction, a file read before it is removed.
- **Another device**, which a device learns of only when it looks, and over a
  folder in whatever order a carrier brings the files.
- **Failure.** A site acts and its answer is lost; a run is cancelled, times out
  or dies with the engine between any two steps; one write of several fails.
- **Memory of what was done**: a number and a hash for what was synced, a version
  for what was summed up or read, a captured outline for what can be taken back.
- **Flags read by one party and cleared by another** (`flushing`, `closed`,
  `woken`; `current`; `byProject`).

The hazards in `PROJECT.json` name each such place at its line and the properties
that would catch it going wrong.

## 2. The modules

A component is one module, its bounds and parameters CONSTANTS; `MC…` modules give
them values; `…Proofs` modules extend the component and TLAPS. `WordCopies` and
`OutlineOrder` are abstract specifications, which `Vault` and `Outline` implement
under the refinement mappings they define (`Copies`, `Order`).

| Run's module | Holds |
|---|---|
| `MCVault` | `VaultProofs` over `Vault` |
| `MCSyncRunner` | `SyncRunner` |
| `MCOutline`, `MCProposals`, `MCPublish` | `Outline`, `Proposals`, `Publish` with small works and casts |
| `MCSceneText`, `MCFolder` | `SceneText`, `Folder` with a constraint |
| `Illustrations` | run as it is |
| `MCAgent` | `AgentTurns` and `CodexLogin` |
| `MCEngine` | `Engine`: `Settings`, `McpHost`, `Ledger`, `Continuity`, `Samples`, `Forecasts`, `Skills` and `Settlement` |
| `MCLibrary` | `MCItem` (`LibraryItem`), `WorkCopy`, `Brief`, `Transfer` and `Markdown` |

In the last three the components share no state. A behaviour is of one of them,
which the variable `part` names, and the others stand still: checking them in one
run is checking each, and says nothing of what they would do to one another.
`Engine` is a module of its own so that `ComponentProofs` can be about the same
formulas the run checks. `MCSyncRunner`, `MCItem` and `MCProposals` give
`SyncRunner`, `LibraryItem` and `Proposals` names no other component has, so that
what is proved of them stands with what is proved of another: in `ComponentProofs`,
in `SceneTextProofs` (both merge what two sides wrote) and in `AgentTurnsProofs`
(agents propose).

Where components do meet, one is abstracted in the other: `SyncRunner` reduces
what a run does to a work to three sets (`unsent`, `behind`, `unmirrored`), whose
detail is `Vault`; `Vault` takes for granted that `SyncAll` is called again and
again, which `EverythingGoesUp` shows of `SyncRunner`; `Folder` is the store in
which two devices may write one revision number, which `Vault`'s site refuses;
`Proposals` calls `storyops` in one step, which `Outline` cuts; `Illustrations`
keeps one scene's text, which `SceneText` details.

### Vault

A text is the set of words in it; two exports hash alike exactly when the sets are
equal; a word is lost when no text that can be opened has it. `Conversation` is
the words of a category only newer versions carry. `hist` is the vault, a sequence
of revisions, each alive or a deletion marker; a commit is taken only on the head
it names. Per device: the row (`held`, `text`), the link (`linked`, `base`,
`last`), the queue of deletions (`pending`, and `leaving` until the row goes), the
snapshots (`kept`, `today`) and `op`, what the one operation its `Service` may be
running holds in its locals.

| Operation | Steps | Code |
|---|---|---|
| push; keep local | `BeginPush` · `PushResolve` · `PushMatch` or `PushCommit`/`PushRefused` · `PushRecord` | `Push`, `resolve`, `matchesHead`, `send`, `recordPushed` |
| pull; take remote; restore an older revision | `BeginPull` or `PullOpen` · `PullCheck` · `PullSnapshot` · `PullApply` · `PullRehash` | `Pull`, `fetch`, `refuseIfChanged`, `snapshot`, `applyBundle`, `finishPull` |
| automatic run | `BeginMarker` · `MarkerCommit`/`MarkerRefused` · `Scan` · `DecidePush`/`Pull`/`Match`/`Archive`/`Back`/`Nothing` | `flushDeletions`, `scanRemote`, `syncWork`, `compare`, `takeDeletion` |
| deleting a work | `QueueDeletion` · `DeleteRow` or `DeleteFails` | `rpc/handlers/projects.go` |
| a scene saved | `Write`, between any two steps | `node/repo.go` |
| errors, cancellation, crash | `Abort` in any step; a lost answer in `PushCommit` and `MarkerCommit` | |

History variables name what the code gives no promise of, and a reader should look
at them first. `forfeited` collects the words written in a step of a pull that no
longer looks at the text (`Exposed`), those unsent when a marker is taken
(`DecideArchive`) and those unsent in a work its writer deletes; `discarded` the
words an answer of the writer took out of the head. `Racers` are the devices where
a write may fall inside a pull. *Left out:* `WorkStatus`, which may write a link
without the busy flag; `DeleteItem` and a second item for one work; two targets
over one library; the site's pruning of old revisions.

### SyncRunner

`pc` is the loop of `Start`, `phase` the life of the engine; `active`, `edited`,
`flushing`, `closed`, `woken` are the fields of `Runner`, an edit having two ages,
fresh and settled (`SettleAfter`). A run takes each work in two steps, `Turn` (the
policy is asked) and `PushLands`/`PullLands` (it is done). `Write`, `BeginOpen`/
`OpenSync`/`MarkOpen`, `Close`, `Flush`, `RunNow`, `SetAuto` are the calls; a
`Close`, a `Flush` and a `SetAuto` let go of the lock between the flag they set
and the `RunNow` they end with, so they are two steps, and `calling` has those
that are between them (`Calls`, `CallsRunNow`). `Touch` is one step with the save
it follows. `Tick`, `Turn`, `RunFails`, `RunEnds` the run and `finish`;
`RunMirrors`…`MirrorsDone` the mirrors; `FallAsleep`, `Wake`, `GetUp` the sleep;
`Stop`, `LastFlush`, `GoDown` the way out. *Left out:* Git's timetable, the daily
export, the status record, a change of targets.

### Folder

`folder[d]` and `cloud` are sets of files (blobs named by their content, revisions
by number, device and blob), `told[d]` what the two agreed on last; `Up` and `Down`
carry any one file, or its deletion, at a time. A run is `Begin` · `Push` ·
`PutBlob` · `Commit` · `Prune` · `Record`, or `Fetch` · `Apply`, and the `Sweep` of
blobs older than the grace; `Stop` cuts it anywhere. Git is many `Up` or `Down`
steps at once.

### SceneText

`text`, `ver`, `sum`, `snaps` are the row and `node_snapshots`; `editor`, `late`,
`saves`, `expects`, `notice`, `reload` the desktop's debounce, save queue and
reload; `call` the requests, each a read, often a snapshot, and a write. The
editor is `Type`, `Fire`, `Send`, `SaveCommits`/`SaveRefused`, `SaveAnswered`,
`Hear`, `Answer`, `Reloaded`; the requests are an agent's write
(`AgentReads`/`Snapshots`/`Writes`), `Replace…`, `Restore…`, `Relink…`,
`Summary…`; the summarizers `SumsUpNow`/`SumsUp`, which may fail (`SumFails`). The
summarizer's queue is one for all scenes: `queue.line` has this one and others
(`OthersEnqueue`, `ServesOther`), and a save of this scene that finds it full of
others is dropped, which `queue.lost` remembers until the scene is in line again.
*Left out:* summaries rolled up to parts, mentions as rows.

### Outline

`tree` is the rows of `nodes`; `people`, `bonds`, `mentions` stand for every
record a batch can delete with what hangs off it; `batch` is the batch under way
with what it captured, `window` `undoState`. The writer's calls are
`CreateSibling`, `CreateChild`, `Rename`, `Delete`, `MoveDown`, `MoveTo`,
`MoveUnder`, `Convert`, `Write`, the repair and its undo (a child may be made
under any row, as `nodes.CreateChild` does not look at the kind; only the desktop
and a batch do); a batch is `BeginBatch`, `Op…` for each kind of op, `OpFails`,
`EndBatch` or the rollback `PutBack`; an undo is `UndoOutline` then `UndoWorld`.
Three services of storyops exist (`engineapp/engineapp.go`); the model has one.
*Left out:* search, the trash of whole works; ops on storylines, beats, facts and
notes are those on people.

### Proposals

`row` is an item's status, result and undo batch; `things` what was made; `window`
the outlines storyops can still go back to; `call` the callers' steps: accept
(`OpenProposal` · `ApplyOutline` or `RefuseOutline` · `ApplyItem`, which is
`RefuseItem`, `LinkItem` or `MakeItem` · `Persist`, once for each statement that
writes down what was done · `EndAccept`), `Reject`, undo (`Revert` · `UndoApply` ·
`Check` · `Restore` · `DeleteBeat` · `Finish`), and the start's reconciliation
(`Boot`, `BootNext`, then the steps of an undo from `Check` on). `Abort` is a write
that fails, `Crash` stops the engine between any two steps; `torn` has the items a
call was cut off at before it said what it had done. `Drop`, `Name`, `OtherBatch`
and `OtherUndo` are what the writer and agents do outside the inbox. `MCProposals`
has one call at a time, and batches are undone latest first: with two callers
`StartSettles` fails, and in another order an undo takes a later batch's scenes
too, which are findings. *Left out:* an edit by which a beat loses its own ref; the
inbox sends an edit on top of the item as it is (`ProposalInbox.tsx`), so there is none.

### Publish

Pairing is `StartBegin`/`StartEnd`, the site's `Answer`, `Poll`, `Approve`, `Fail`,
`Disconnect`; a publish holds `mu` from `Free` on and goes `Register` · `Read` ·
`Patch` · `Desired` · `Put` · `Reorder` · `Refresh` · `Keep`. The site is external.
`Lost` loses a request before or after it acts; `Other` is another device.

### Illustrations

`request`, `gallery`, `chosen` are tables; `op[t]` is the goroutine `t`: `SubmitCount`
· `SubmitInsert`; `ApproveBegin` · `Claim` · `Paint` · `Add` · `PlaceRead` ·
`PlaceAppend` · `Done` or `Fail`, or `Leave` when the statement that was to say so fails
(`request.unclosed`, which is no column: such a request says "generating", nobody draws
it, and the next start opens it again); `DeleteBegin` · `DeleteCheck` · `DeleteRow`;
`CoverBegin` · `CoverSet`. `Crash` and `Start` (`RecoverInterrupted`).

### AgentTurns and CodexLogin

`byProject` and `cancels` are the run registry, `wg` the wait group, `tools` and
`session` the cached tool session and every session's reference count, `pc` and
`holds` where each job is. `Arrives`, `Start`, `Enter`, `Comes`, `Release`,
`ReleaseSession`, `Leave` are a turn; `Track`, `Admit`, `Launch` the passes; `Close`,
`CancelAll`, `CloseReturns` the end. In `CodexLogin` `Begin`/`Starting` are `Start`,
`Arrive`/`Handling` the browser's callback with its exchange, `SignOut`/`Delete`
`Logout`; `mu` lies within an action, `fileMu` is a variable. One call of `Start` is
under way at a time (`Together`), since the pane waits for its answer.

### LibraryItem, Skills, Settlement

`LibraryItem`: `Look` reads the head and decides; `Apply` takes one part, then
`Relink`, `Adopt`, `Settle`; `Send`, `Record`; `Type` and `SetItems` are the
writer in between. A text stands for its bytes and its time, so clocks that
disagree are texts typed in any order. `Keeps` is what `remember` writes down
before a file is replaced or removed: a SKILL.md (`Logged`) that parses (not in
`Unparsed`), and not even that when the record fails, which is logged and stops
nothing. `history` is no state of the code: its `unmet` keeps the parts a base
names a text of that its device was never given, as they were omitted, refused,
linked, or emptied by a device that took a category in again. `Skills`: a call is
`Look` · `Compare` · `Room` · `Put` or `Delete` · `Record`; `ByHand` edits the
file. `Settlement`: a pass looks up versions in `Begin`, reads, writes, and
`Record`s what it looked up.

### Settings, McpHost, Ledger, WorkCopy

`Settings`: one call of the secret store, one write of the file, or the assignment
to memory is an action; any may fail, with its effect or without. One caller, as a
patch holds the lock. `McpHost`: several engines in one home with one discovery
file. An enable, a disable and a new token go through `Mint`, `Cycle`, `Stop` ·
`Look` (the file is read and compared) · `Remove` (whatever is there by then) ·
`Shutdown`, `ReadMode` · `Listen` (the lock, the port, and the file opened, which
empties it) · `WriteFile` (its contents land, or only some of them; a file two
engines have open may be a mixture); an engine comes by `Launch` and goes by
`Die`. `Ledger`: `Looks`, `Gets`, `Writes`, `Pins`, `Replaces`, `Deletes` of facts
about one thing, none in a transaction. `WorkCopy`: a table stands for those that
behave like it; `Push`, `Pull` (clear and put back under foreign keys), `Copy`
(`MergeProject`).

### Brief, Continuity, Samples, Forecasts, Transfer, Markdown

`Brief` is the pure function of what a scene is told, over every work that `Write`,
`Outline`, `Look`, `Add` and `Pay` lead to. The scene after this one is in it by design,
as its neighbour: by its summary or by how it begins; a subject has one line with all its
values, and is left out, and counted, as one; a plan that was cut is neither shown nor
counted. `Continuity` is reports, observations and
the writer's decisions, `Samples` which pairs are compared, `Forecasts` the hashes
of the canon at saving and at listing. `Transfer` and `Markdown` are two pairs of
algorithms, write and read, checked one against the other over bounded works and
documents. `Markdown`'s prose is bold, italic and struck text and links over words, stars,
tildes and brackets; `Escaped` is what `escapeText` does, which leaves brackets and a
tilde that stands alone as they are, and a link is read by the depth of its brackets
(`CloseAt`), as `parseLink` does. Their exemptions (two lists of one kind next to each
other, a bare fence, empty paragraphs, breaks at the start or two in a row; for the marks
a `BareBracket` in a link and a `BareTilde` at either end of struck text, where the code
does lose them) are named at the definitions.

## 3. What is checked

State counts are of distinct states, with the configuration as it is.

| Run | Instance and bounds | What it shows |
|---|---|---|
| `vault_calm` | 2 devices (one by hand as well), 2 words, one newly carried, 4 revisions, 1 fault; no deletion, nobody writes within the last steps of a pull; after the fault 3 revisions (`ThreeAfterFault`); 629 k | `NoWordLost`, `NoLostUpdate`; `InStep`: what reads as in step is; `PullSparesUnsent`: a pull without the writer's word replaces only what the vault has; `MovesWords`: it implements `WordCopies` |
| `vault_settles` | 2 automatic devices, 2 words, 10 revisions, a fault or a deletion (`OneSetback`); 258 k | `Settles`: each device ends at the head or in a conflict, a deletion reaches the other or is undone by what that one writes, no marker stays queued |
| `runner` | 2 works, an agent in one, uploads of the other elsewhere, text left over, 2 moves and a setback; 333 k | `NoMissedWake`, `EverythingGoesUp` |
| `scene_text` | 2 words, 2 requests at once, 2 moves, or 3 with one word and without the brief's summary (`Bounds`), a queue of 1, which other scenes fill too; 829 k | `FreshIsTrue`, `WordsKept` with its three ways out, `SummaryCatchesUp` unless the queue dropped the scene |
| `outline` | 4 rows, 3 people, two of one name, 2 batches of 3 ops in all, a window of 2, 1 event of the writer, 5 of these in all; 132 k | `OutlineWhole`, `UndoIsExact` when nothing came between, `KeepsOrder`: it implements `OutlineOrder` |
| `proposals` | a forecast of a scene and a beat, one of a scene, a cast; one caller, window 1, 3 calls, 1 event outside, 1 fault, 4 of these in all; 595 k | `Honest`: what the inbox says is so when nothing is under way; `StartSettles` |
| `folder` | 2 devices, 2 words, 2 restore points, 4 revisions, 2 edits, 1 turn; of two like words one is typed first (`Bounds`); 265 k | `BlobsStay`, `Settles` over files that arrive in any order |
| `publish` | 3 episodes, 2 accounts, 2 calls at once, which are symmetric, 2 pairings, 2 turns, 5 calls, pairings and turns in all; 1.08 M | `StaysDisconnected`; `Numbering`: a publish puts an episode where the outline has it and leaves the others' order |
| `illustrations` | 2 goroutines, 2 requests, 2 pictures, 2 tries, 2 writes, or one and a fault, a stop or a statement that fails; 388 k | `DrawnOnce`, `Decided`, `PlacingSpares`, `DrawingEnds`, where a request that was left is no drawing |
| `agent` | 2 turns and a sample check at 1 work with 2 tool budgets; one of the turns arrives only where the other is without one of its passes (`Bounds`); 3 sign-ins and a sign-out; 178 k | `SessionsServe`, `TurnsKeepToTheirWork`, `SignInHolds`, `EverythingEnds` |
| `library` | 2 devices, 2 parts, 2 texts, 2 edits and 1 fault, or 1 choice and one of these (`Bounds`); each of the other four with the instance its `INSTANCE` in `MCLibrary` gives; 378 k | `LibraryKept`, `Settles`, `Travels`, `BriefSound`, `ComesBack` |
| `engine` | 3 keys, 2 patches, 2 faults; 2 engines, 2 ports; 3 facts, 4 calls of 3 callers; 2 checks with 2 callers; 4 scenes to sample; 2 works and 2 forecasts; 2 calls at 2 skills; 2 passes at 1 scene; callers, and what is alike, are symmetric; 1.25 M | `SettingsAccounted`, `Advertised`, `FactsHold`, `ChecksHold`, `ForecastsTold`, `SkillsKept`, `SettledWasRead` |

### Why the bounds are enough

- *Two* of what races (devices, requests, goroutines, turns): every race here is
  of two parties, a step of one between two of the other, and a third would meet
  either of them in the same place. Where a theorem covers the property it holds
  for any number.
- *Two words* make texts that differ in both directions, each side with one of its
  own. *Four revisions* are a first upload, another device's on top, a third that
  could undo the first, and one to see it. `vault_settles` has room for more
  revisions than its words, deletion and lost answer can use, so that the bound
  never is what stops it.
- *Two people of one name* are what an undo can fail on; *four rows* are a part, two
  scenes and one more to be made, moved under any of them; a *window of two* is
  full after two batches, a *queue of one* after one save, of this scene or of another, a
  limit of one pending request after one call.
- *One fault* in a run with room for it at every step is a stop in any state; two
  only repeat it, but where a second is what a retry has to survive (the proposals'
  start, the illustrations' `RecoverInterrupted`) the step that recovers may be cut
  short like any other.
- *In all* (`StepsLeft`, `TimeLeft`) bounds what several kinds of event share, so
  that any one of them may come as often as its own bound says, and all of them
  once, but not each as often as it may: in `proposals` two calls, an event
  outside and a fault, or three calls and one of these; in `illustrations` two
  writes, or a write and a stop.
- The constraints (`OneSetback`, `ThreeAfterFault`, and `Bounds` of `MCSceneText`,
  `MCFolder`, `MCAgent`, `MCLibrary` and `MCEngine`) keep apart what is checked in
  the same run at different sizes. Where liveness is checked they cut only steps
  without fairness (an edit, a request, a fault, a day), so whatever is fair in a
  state that is left can still be taken there, and what is left still settles for
  the reason the code gives.
- *Symmetry* is used in `publish` and `engine`, whose properties are safety, of
  values nothing in the modules tells apart.

`CHECK_DEADLOCK FALSE` is in every configuration, as the systems stop: words,
revisions and calls run out, an engine that is down stays down, a document that
was read is read.

`TypeOK` of a module with proofs is proved for all values of its constants instead
of run; the others are conjuncts of what is checked.

### Fairness

| Specification | Fair | Why the code justifies it |
|---|---|---|
| `Vault!LiveSpec` | weak: each device's push, pull, marker and run, and `DeleteRow`; strong: what `syncWork` decides | an operation begun goes on, and `Runner.Start` calls `SyncAll` over and over, with no exit but `stop`; a run may put a work off any number of times as on screen, unsettled or under an agent, but its writer does leave it |
| `SyncRunner!LiveSpec` | weak: the loop, the end of a manual run, an `Open`, an edit's settling, an agent's end | a goroutine whose sleeps have timers; operations with timeouts; time |
| `SceneText!FairSpec` | weak: what the summarizer takes from its queue, be it this scene or another; the answer to a save | a goroutine over a channel; a call that returns |
| `Folder!FairSpec` | weak: each device's run, `Begin` or a step of it; the carrier's `Up` or `Down` of some device | as `Vault`; and the carrier, which is outside, has to carry for anything to arrive, be it for the other device first |
| `Illustrations!FairSpec` | weak: `Start` and each goroutine's next step | goroutines whose requests have timeouts; an engine that stops is started again |
| `MCAgent!Fair`, implied by `AgentTurns!FairSpec` and | weak: some job's own steps, some provider's answer, `CancelAll`, `CloseReturns` | goroutines; a cancelled or timed-out request returns |
| `CodexLogin!FairSpec` | weak: some attempt's `Starting`, some window's end, `Delete`; strong: the handling of each callback | as above; `fileMu`, which several wait for, is handed on |
| `LibraryItem!FairSpec` | weak: an automatic look and each device's next step | as `Vault` |

Writers, agents' wishes, failures, crashes, deletions, days and the way down have
none.

### Where code and comments part

47 places are recorded in `PROJECT.json` under `findings`, with the line that
makes the promise and the one that does not keep it. No run is built to fail; a
promise that is not kept stands in its module as a documented, unchecked
definition (`Vault!AutoPullReplacesUnchanged`, `SyncRunner!PulledOffScreen`,
`SceneText!RelinkKeepsWords`, `Outline!RollbackBringsBack`,
`Folder!LoserFindsOut`, `SceneText!DroppedComesAgain`, `Proposals!RejectedStays`,
`Publish!FailedMeansNothing`, `Illustrations!NamedExists`,
`Illustrations!FailedIsOpen`, `McpHost!LiveEndpointStays`,
`LibraryItem!LoserStays`, `Markdown!MarksComeBack` and others), and what is
checked is what remains true. The ones with the widest reach:

| Where | What happens |
|---|---|
| `vault/auto.go:556` | A scene saved between an automatic pull's check and its transaction is replaced; if the day's snapshot has been taken, nothing keeps it. |
| `vault/service.go:942` | A scene saved between a pull's transaction and its second export is in the hash that is recorded: the work reads as in step and the scene is not sent. |
| `vault/auto.go:181` | A work deleted between two reads of one run is downloaded again by it. |
| `vault/store_dir.go:455`, `service.go:406` | Over a folder, a blob typed again after its grace may be swept by a device that has not seen why; of two devices with one revision number the loser may not find out. |
| `syncauto/runner.go:413`, `:261` | A work left soon after its last edit is passed over by the mirror; a run that has asked goes on to pull a work that has been opened since. |
| `rpc/handlers/mentions.go:39` | A relink lists all texts first and writes each without its version: a scene saved in between goes back, without a snapshot. |
| `storyops/apply.go:238` | A batch that fails puts the tree back, and not the people, storylines or facts it had deleted. |
| `proposals/undo.go:97`, `accept.go:289` | Undoing a forecast takes a later batch's scenes too; an item rejected while it is accepted becomes accepted. |
| `publish/service.go:469`, `connect.go:222` | A publish that failed may have changed the site; one under way at a switch of accounts writes the old account's row. |
| `summarizer/summarizer.go:86` | A scene saved while the queue is full of other scenes is dropped; if that was its last save, its summary stays behind until a brief asks for it. |
| `vaultbundle/library.go:364` | Of two changes to a skill's other file, to a SKILL.md that does not parse or to the profile the loser is replaced without a copy. |
| `illustration/requests.go:386`, `:412` | When the statement that ends a drawing fails, the request stays "generating", to be neither approved nor rejected before the next start. |
| `illustration/repo.go:316` | A picture chosen between the look and the delete is deleted. |
| `mcphost/host.go:186`, `:100` | `Stop` may remove the discovery file of a server just started; an enable under way outlives the kill switch. |
| `mcphost/discovery.go:59` | An engine that stops removes what another wrote to the discovery file after it looked, or has just emptied to write. |
| `export/markdown.go:560` | A link whose text has a bracket without its other, and struck text with a tilde at an end, come back without the mark. |
| `importmd/tree.go:147`, `export/project.go:313` | A part named like the appendix of people is dropped on import; more than fifty fact cards do not come back. |

## 4. What is proved

Everything here holds for any values of the constants that satisfy the named
assumptions, and those only fix types and say that bounds are numbers (`Vault`:
`ConversationAssumption`, `BoundsAssumption`; `SyncRunner`: `RunnerAssumption`;
`Folder`: `DevicesAssumption`, `KeptAssumption`, `BoundsAssumption`; `SceneText`:
`SceneAssumption`; `Outline`: `StartAssumption`; `Publish`: `NobodyIsNoOne`,
`SomeAccounts`, `CountedCalls`, `SomePairings`, and `EpisodesOnce`: there are
finitely many episodes and a list names one once; `Illustrations`: `SomeCalls`,
`Limits`, `Bounds`; `AgentTurns`: `Sets`; `Engine`: a number bounds what is
counted (`RowsAssumption`, `ChecksAssumption`, `ForecastsAssumption`), scenes to
sample are finitely many numbers, as their order is what counts
(`ScenesAssumption`), and what stands for nobody, no work or no skill is none
(`NameAssumption`, `ForecastsAssumption`, `SkillsAssumption`); `MCAgent`:
`LoginLimits`, by which one call of `Start` is under way at a time, as the
settings pane has it: its button is off until the last has answered,
`ProviderSection.tsx:802`; `MCItem`: `ItemAssumption`, by which parts, texts and
devices are sets, the linkers are devices and the profile is no skill's file;
`MCProposals`: `InboxAssumption`, by which the items are finitely many and what
`Submit` lets in (`LetIn`)).

`MCProposals` is also an instance: one call at a time, batches undone latest first.
Its theorems say nothing of two calls at once, for which the code keeps neither
property.

| Module | Theorem | Property | Argument |
|---|---|---|---|
| `VaultProofs` | `Typed`, `Invariant` | | per device `Inv` is `Rows` (a link's words are in the work unless discarded), `Carried` (what a bundle holds is where it came from), `PushSound` (what may be committed builds on what it names), `PullSound` (what is about to be replaced can be opened or was excepted) |
| | `WordsSurvive` | `NoWordLost` | not inductive alone: that a pull may replace the text rests on what its check saw and on the snapshot, steps earlier |
| | `UpdatesSurvive` | `NoLostUpdate` | a commit undoes nothing because of what the link said when the push began |
| | `LinksTellTheTruth` | `InStep` | with `Racers = {}`; with writes inside a pull the code does not keep it |
| | `PullsSpare` | `PullSparesUnsent` | for any `Racers` and `Deleters`: the words a link vouches for are in the vault or were given up (`LinkSent`), wherever a write or a deletion falls |
| | `OnlyMoved` | `MovesWords` | refinement of `WordCopies`: every step writes a word, moves words out of and into one device, or stutters |
| `ComponentProofs` | `RunnerTyped`, `WakesUp` | `NoMissedWake` | a flag the loop has not set out for is still in `woken`, or the loop is at `tick`, or the call that set it has its `RunNow` still to come (`calling`), and a sleep over one of these is what remains; a sleep begun is cancelled if `woken` is set |
| | `SettingsSafe` | `SettingsAccounted` | a patch under way knows what each key was and which of them it has stored (`SettingsPatching`), so that taking back what it did is exact whatever failed |
| | `HostSafe` | `Advertised` | what the discovery file says of an engine that is not about to remove it is what that engine serves (`HostTold`), and a server that runs is named by it or about to be, or its file was not written, or another engine emptied, replaced or removed it (`HostFindable`) |
| | `LedgerSafe` | `FactsHold` | a row is put aside for a later one only (`LedgerRows`); a row pinned for as long as an agent's call has run is pinned (`LedgerHolds`), and a call that got past the look is not at such a row (`LedgerGoing`) |
| | `ChecksSafe` | `ChecksHold` | what a check quotes stood in the version it names, whose prose does not change (`ChecksDated`); what is marked as compared was handed to a pass (`PairsHanded`) |
| | `PlansSafe` | `ForecastsTold` | what a call has read is the canon of now unless an edit has overtaken it (`PlansDrawing`) |
| | `SkillsSafe` | `SkillsKept` | a call that has decided to write knows that what it saw is in the log, or was nothing, and stands there unless it was moved since (`SkillsGoing`) |
| | `SettlementSafe` | `SettledWasRead` | a pass that looked up the version of now has read the text of now (`SettlementKnows`), so a row that calls it done is of a text a pass has read (`SettlementLetOff`) |
| `FolderProofs` | `Typed`, `Invariant`, `BlobsAreThere` | `BlobsStay` | two regimes, parted by the day a blob is first past the grace: before it nothing is swept (`Undeleted`, `Named`); after it revisions and blobs are seen together (`Settled`, `Seen`, `Together`) or the revision is one of those committed over an old blob |
| `SceneTextProofs` | `Typed`, `FreshSummaries`, `WordsStay` | `FreshIsTrue`, `WordsKept` | nobody holds a version ahead of the row's (`NoneAhead`); what was read at a version is the text of that version (`ReadsTrue`, `DocsHold`); documents only grow (`DocsGrow`) |
| | `LibrarySafe` | `LibraryKept` | what a device lacks although its base, the head or a bundle under way has it was deleted somewhere or is not of its choice (`ItemGiven`), and so is what the item has lost since its first head (`ItemGone`); the verdict of a look holds until the writer types in between (`ItemMerges`); a device linked to a head has the parts of its choice as they are there, unless it has touched them since (`ItemLinks`); what is replaced was sent, or is in the skill's history, or goes to a newer text where nothing is remembered (`ItemMerges`) |
| `OutlineProofs` | `Typed`, `Invariant`, `StaysWhole` | `OutlineWhole` | every outline that is kept to go back to (`batch`, `window`, `kept`) is whole too, and captures name people there ever were; each operator on trees has a lemma that it keeps a forest a forest |
| | `OrderKept` | `KeepsOrder` | refinement of `OutlineOrder`: a step adds, removes or moves one thing and leaves the order of the others |
| | `UndoneAsMeant` | `UndoIsExact` | what a batch that is alone has to go back by, and hands to the window (`Undoable`): the rows that stood and are there still are what they were but for the words it set, and whatever hung off a deleted record hung from somebody who is there or was deleted after it, and in a scene of the outline it goes back to |
| `PublishProofs` | `Invariant`, `Disconnected`, `NothingHangs` | `StaysDisconnected` | what a pairing under way may still do (`Quiet`), and what a pane waits for (`WaitedFor`) |
| | `NumbersRight` | `Numbering` | two halves. Of the algorithm: the loop of `desiredOrder` exists as a function of how far it has come (`Recursion`), each round keeps that nothing is named twice and nothing stands in front of what it belongs behind, and such a list is the one that is wanted (`DesiredIs`, `DesiredPlaced`). Of the protocol: `Kept`; `Service.mu` keeps this device's other calls away, so what a publish has read of the site's order (`At`) stays true until another device comes between, and then the counter says so |
| `IllustrationsProofs` | `Typed`, `OneDrawingEach`, `DecidedForGood`, `PlacingTakesNothing` | `DrawnOnce`, `Decided`, `PlacingSpares` | each drawing under way has a request it alone claimed (`Served`), the pictures are counted by approvals and stops (`Counted`), and what was read at a version is the text of it (`Current`). The limit of waiting requests that does hold, one more for each call, is in `Typed` |
| `AgentTurnsProofs` | `Typed`, `Invariant`, `SessionsAreKept`, `TurnsKeep` | `SessionsServe`, `TurnsKeepToTheirWork` | where each job stands says what it holds (`HoldPcs`), which references a session counts (`Standing`), who follows whom (`Following`), and what is over (`Kept`) |
| | `SignInIsKept` | `SignInHolds` | of `MCAgent!Parts`: an attempt in flight is the newest begun and a call of `Start` under way leaves nothing in flight (`InFlight`); who is inside `fileMu` to write is of an attempt no sign-out has come after, and no later one has stored (`Inside`) |
| | `InboxHonest` | `Honest` | `InboxInv` is about the rows as they will be once the call under way has written down what it did (`InboxNow`), and what it has said or cannot say any more (`torn`): every record the inbox made is the one its row names (`InboxNamed`), a beat shares its scene's batch, so that the two go together (`InboxBatches`, `InboxBeats`), and what an accepted item made is there, deleted by the writer, or in every outline that an undo of another batch would bring back (`InboxStands`) |
| | `InboxSettlesAll` | `StartSettles` | a row that is reverting names its batch and what it made (`InboxRows`), and either all of the batch stands or nothing of it is left or can come back (`InboxStanding`): so the start's look at the outline decides right, and it misses no batch |

The step case is cut in the same way everywhere: one lemma per action, under it
one step per conjunct the action can disturb; frame lemmas (`StepLeavesOthers`,
`UntouchedKeeps` in `VaultProofs`) carry over what belongs to other devices or
goroutines. Every invariant was checked by TLC on a small instance before it was
proved. Two devices of the proofs are worth knowing: facts about counts go by
bijections that are kept as definitions, and where a recursive function has to be
reasoned about (`Outline!PutRight`, `Publish!DesiredOrder`) the proof takes a least
counterexample in a finite set, as induction theorems with operator parameters are
out of reach.

### Only model-checked

- Liveness, which is out of the prover's reach: `Settles` (three times),
  `EverythingGoesUp`, `SummaryCatchesUp`, `DrawingEnds`, `EverythingEnds`.
- `ComesBack`, `BriefSound` and `Travels`, which are about recursive definitions
  over documents, trees and tables: induction over data.

## 5. What is not modelled, and what comes next

Keys, sealing and the site's client are cryptography and HTTP, and the properties
take a sealed blob to be the text it seals. The store, the RPC server and the
assembly of the engine are plumbing; handlers appear as the actions of the
components they call. The desktop shell, the window and clio are user interfaces;
their calls are the writer's actions, and the one part of the window that has a
protocol of its own, the save queue, is in `SceneText`. Prompts and what models
answer, rendering and wording are in no module. What a module abstracts or leaves
out is said at its head and in section 2.

Assumed and not shown: that two commits to one target never share a revision
number but over a folder, where they may (`Folder`); in `LibraryItem`, that a mark
tells two such heads apart, and that a file's read and write in one take are one
step; in `Brief`, that one brief reads one state of the work; in `Forecasts`, works
of at most a hundred facts.

Next: `WorkStatus` as an unlocked operation of `Vault`; an outline with the two
more undo services the engine runs; Git's timetable in `SyncRunner`; what remains
true of `Proposals` with two calls at once.
