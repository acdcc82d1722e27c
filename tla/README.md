# Verification of md-mcp

md-mcp is a Rust server that gives language-model clients (over MCP and a small
HTTP API) a Markdown vault: a directory of notes, often a git repository. Here
are TLA+ models of it, TLC runs and TLAPS proofs.

## 1. The system

| part | code | state | operations |
|---|---|---|---|
| transaction engine | `md-core/src/transaction.rs`, `vault.rs` | notes on disk; `.md-mcp/journal`, `backup`, `trash`; the flock | `commit_batch`, `recover_transactions`, `open`, `open_read_only`, `create_note`, `write_atomic` |
| write tools | `md-server/src/tools_write.rs` | none | `create_notes`, `append_notes`, `edit_sections`, `replace_text`, `edit_properties` |
| restructuring tools | `tools_organize.rs` | none | `delete_notes`, `move_notes` with link rewriting and pruning |
| server state | `lib.rs` | write guard (`RwLock`), sync health, push channel | `emit_event`, `auto_commit`, `report_sync_*` |
| git automation | `sync.rs`, `tools_sync.rs` | the repository, retry timer and backoff | `run_sync`, `run_pull`, `auto_push_task`, `interval_sync_task`, `startup_sync_task` |
| event journal | `events.rs` | `events.jsonl`, rotated file, `seq`, hook queue | `emit`, `open`, hook consumer |
| OAuth server | `oauth.rs` | clients, tokens, codes, tickets; `oauth-state.json` | `register`, `authorize`, `token`, `redeem`, `mint`, `persist`, `load` |
| note API, transfer | `api.rs`, `tools_transfer.rs` | none | `GET`/`PUT` of notes, archive, tickets |
| document model and editing | `document.rs`, `section.rs`, `patch.rs`, `replace.rs`, `frontmatter.rs`, `text.rs` | none | parsing, address resolution, splices, property edits: pure functions on one note |
| links, listing, search | `links.rs`, `relink.rs`, `listing.rs`, `tools_search.rs`, `tools_read.rs`, `cjk_fold.rs` | a client's cursor | queries, pages, link rewriting |
| transport, configuration | `http.rs`, `main.rs`, `config.rs`, `envelope.rs` | one immutable record | parsing, routing |

A tool call takes the server's write guard, reads and computes, hands a list of
operations to `commit_batch` (which takes the cross-process flock for its own
duration), appends a record to the event journal, commits the touched paths with
git (taking the flock again) and signals the auto-push task. `run_sync` fetches
without a lock, sweeps and rebases under guard and flock, pushes without. The tool and
the tasks call it, the auto-push task when its push is rejected.

What makes each part correct:

* *engine*: a batch takes effect as a whole or not at all, across failures and
  crashes, a crash during recovery included; originals are never overwritten,
  nothing is left behind, every call ends;
* *move_notes*: the final tree is the declared one, no accepted batch fails
  half-way, nothing is lost without `overwrite`, links lead to where their targets went;
* *git automation*: commits name their author, markers of a conflict are never
  served, events account for every change, a reported success is one, a backlog
  reaches the remote by itself;
* *event journal*: a reader finds rising numbers, what is missing shows as a gap, a
  hook that hangs holds up nobody;
* *note API and tools together*: no update is lost, an index is a snapshot, a
  listing complete, reports, journal and commits agree with the notes;
* *editing and search*: what an edit does not name stays as and where it was, what
  it gives lands where it was given for, addresses, hashes and line numbers lead
  back to what they were taken from, and search finds what is there;
* *OAuth*: every credential is good for one issue, rotation is final,
  authorization survives restarts, a ticket's bearer stays within its scope.

What is hard: `hazards` in `PROJECT.json`.

## 2. The modules

| module | models | built on |
|---|---|---|
| `VaultOps` | paths, bodies, `enum Op`, the declared effect of a batch | |
| `AtomicBatch` | the abstract specification of `commit_batch`: one indivisible effect per batch | `VaultOps` |
| `Transaction` | the engine, one journal write, rename or unlink per step | `VaultOps`, refines `AtomicBatch` |
| `ToolBatches` | the batches the tools build and what they validate | `VaultOps` |
| `Relink` | where a link points and how it is spelled after a move | |
| `MoveBatch` | one `move_notes` call on a tree of notes that link to each other | `Relink` |
| `VaultSync` | write guard, tool calls, git, syncs, auto-push | |
| `OAuthStore` | the credential store and its state file | |
| `EventJournal` | sequence numbers, rotation, appends, the hook | |
| `NoteApi` | note API, tools, listings and outside programs on shared notes | |
| `Document` | sections, addresses, outlines, hashes of one note | |
| `Patch`, `Frontmatter` | `edit_sections` and `replace_text`; `edit_properties` | `Document` |
| `Search` | keywords, CJK folding, snippets | `Document` |
| `Links` | links in a text and their rewriting | `Document`, `Relink` |
| `NoteEdits` | calls of the edit tools, reads and searches on a vault | the five above |
| `*Proofs` | the theorems | the module of that name; `TransactionProofs` also `ToolBatches` |
| `Folding` | what a fold computes | used by the proofs of engine, `move_notes`, edits |
| `MC*` | the instances TLC checks; `EventJournal` needs none | |

`Bug:` in a comment marks a variant that a plausible mistake would give; for every
property one breaks it (`mutants` in `PROJECT.json`).

### Transaction

`disk` maps locations to bodies: a note's path, a slot of `backup/<id>/`, a
numbered name of the trash. A path stands for a note or a
directory moved as a unit. `journal` holds the
journal files, `undo` the in-memory copy `apply_op` extends, `pc` the place in
the code. A journal write, a rename, the removal of one backup and the removal
of the journal are each one action, so a crash (`Die`) can fall between any two
of them, and `FaultPoints` says which of those calls may fail. The pairs
`Record*` / `SetAside` / `Land` are the two halves of each arm of `apply_op`:
the undo step is recorded in memory and on disk, then the mutation is done; a
failed journal write leaves the step in memory.
`UndoOne` replays one step with the tolerance of `rollback` (`HasWork`).
`promised` is a history variable: the notes as of the last commit point.

`CrashConsistent` says that replaying the one open journal over the disk, at any
moment, gives exactly `promised`. It is also the refinement mapping: `Recovered`
is the vault of `AtomicBatch`, whose `Commit` is the flip of the journal's flag.

### MoveBatch and Relink

A path is the sequence of its names, a tree a function from existing paths to
bodies; a body is a directory or a note: where it was at first and its links. Only
the spelling check (`KindKept`) goes by the name. `ItemOk` is
`compute_move` with the checks of `run_move`, `Collide` is
`check_move_collisions`, `Sorted` the `sort_by_key`, `MoveOne` one `Op::Move` as the
engine performs it (whatever is at the destination is set aside), `PruneOne` and
`PruneNext` the climb of `prune_emptied_dirs`. `Declared` is the reference: for
every path, the item with the deepest destination above it says which path of
the original tree it reads from; `Plain` excludes the three shapes of calls for
which it is not what comes out (section 3). The links are rewritten as
`plan_link_rewrites` does it, before the moves and at the notes' old places,
with its scan for the sources' last names; `Relink` holds `resolve_dest`,
`relative_dest` and `MoveMap.apply`.

### VaultSync

History is linear, so `remote` is a sequence of commits, the tracking ref and
the base of HEAD are lengths, `local` the commits on top. HEAD's base may be ahead
of the tracking ref: a push whose answer was lost (`PushLost`) left the commits on
the server. A commit maps notes to bodies, and every body names its writer. One
step is one git command or the code between two awaits. What git does is external
and modelled from its documented behaviour: a rebase detaches HEAD while it runs
(also when it only fast-forwards), so `@{u}` does not resolve and
`rev-parse`, `rev-list` and a plain push fail; a conflict leaves markers in the
notes until the abort. A read-only server runs `run_pull` instead (`Pull`).
Outside editors are excluded by the flock while a sync has it, not between a
tool's two uses of it.

### OAuthStore

A step is one critical section of the store's mutex, or one file write.
Credentials are numbers drawn from a counter; a refresh token and the access
token of the same response share one. A scope says whether its holder may write,
is delegated, and to which subtree it is confined; `Tools`, `Reads` and `Writes`
are what the guards of the surfaces let it do. What is checked before that (PKCE, redirect
URI, gate token) is a choice. `held` is the mutex kept for good by a request
that locks it twice.

### EventJournal

A file is the sequence of its lines, a line the `seq` of its record or garbage;
`cut` says that the last line has no newline, so the next record is glued to it,
and `mangled` that the file is not valid UTF-8. `emit` holds its mutex
throughout, so `Number`, `Rotate`, `AppendLine`, `HandOver` are one emit's steps
with failures and a crash between any two; the hook's consumer runs beside it.
`dropped` and `acked` are histories.

### NoteApi

Every write adds a mark of its own and a note is the set of its marks, so a lost
update is a mark that vanishes. `queue` and `inside` are the fair `RwLock`,
`flock` the cross-process lock, which PUT, `create_notes` and `append_notes` do
without until the commit. A call takes one await per step; `HangUp` is axum dropping the handler of a PUT
at an await with its guards, while the git command it waited for goes on as a
`stray`. `Page` is a page of `list_notes` or `search_notes`. An outside program
takes the flock, reads, writes, commits. `commit_batch` is one step (`tx_tools`). An item says what its request expects of the note.

### NoteEdits and what it is built from

A text is a sequence of `Tokens`: newline, heading markers, fence, frontmatter
delimiter, keys, brackets, backticks, words. `Document` is
the parser, `resolve` and the spans; `Patch` turns items into splices, refuses
those that meet and applies the rest from the end, with the blank lines of
`span_seams` and `pad_block_seams`; `Frontmatter` edits lines; `Search` scans
for keywords in small letters (of the text, ASCII capitals alone count as small),
folds gaps inside CJK terms and maps back; `Links` rewrites destinations outside
code. `NoteEdits` groups the items of a
call by the path as spelled, works every group out on the text as it was and
writes all groups or none. `OthersStay` and `EditsLand` name words by the chain
of titles over them, not by how they were spliced.

## 3. The runs

| run | instance | what it shows |
|---|---|---|
| `tx_tools` | two notes and a free name, all batches the tools build from two items and one link rewrite, validated against the vault, one batch, crashes anywhere; journal writes and renames may fail | `CrashConsistent`, `NothingLeft`, refinement of `AtomicBatch` with its fairness |
| `tx_any` | one-item batches with a rewrite that nobody validated, a self-move, a name deleted twice; every failure | `WriteAhead`, `NoClobber`, `AlwaysReturns` |
| `move_plain` | all trees over seven paths, three levels deep, whose notes link up, down, across, from the root and past it; pairs of items outside three shapes | `LandsAsDeclared`, `NeverFailsMidway`, `NoBodyLost`, `LinksFollow`, `PrunesOnlySources` |
| `sync_pair` | a sync caller and the pusher, one write each by tool, editor and another clone, pushes whose answer is lost | `Attributed`, `OnlyEditsUncommitted` |
| `sync_solo` | the pusher alone, two tool calls and an edit of one note, two remote commits, network flaps, lost answers, one restart | `EventsComplete` (up to a restart), `HealthHonest`, `BacklogDrains` |
| `sync_faults` | a server that is read-only or not; tool, editor and another clone write one note; commits, rebases and diffs fail, one restart outside a rebase | `NoMarkers`, `EditsKept` |
| `oauth_serial` | one request at a time, one restart, expiry | `SurvivesRestart`, `RotationFinal`, `Confined` |
| `oauth_race` | two requests, failing disk, one restart | `SingleUse` |
| `journal` | six records, a live file of two lines, three starts, refused, unsynced and torn appends | `SeqIncreasing`, `OneLostPerTear`, `GapVisible`, `HookServed` |
| `edits` | eight longer texts under every item of a set and many pairs of items; every text of up to five tokens as it is read, searched, echoed and relinked | `OthersStay`, `EditsLand`, `EchoIsNeutral`, `HashesMatch`, `HitsAreThere`, `OtherKeysKept`, `SearchFinds`, `LinksReadBack` |
| `note_api` | an agent with create, append, edit, delete and paging, a script with PUT, GET and the index, an outside program; two notes, one in a directory that need not exist; two marks | `IndexIsSnapshot`, `ListingComplete`, `ReportsTrue`, `AllCommitted`, `NothingLost`, `CallsEnd` |
| `oauth_expired` | one request and an expired refresh token | `AllAnswered` is violated |

All but `edits` (about four minutes) end within a minute; the largest is
`sync_pair` with 1.9 million states.

### The bounds

Two items are where items interact: collision check, undo order and
overlaps relate two operations, and a link rewrite makes three. What a later batch could meet one leaves (`NothingLeft`): the trash alone, and a name
deleted, written and deleted again in one batch meets its own. Two
syncs are the least that overlap. One or two writes per writer suffice for a
conflict, a sweep and a second attempt. In the OAuth runs lifetimes of one or two ticks make expiry
happen, a `MAX_CLIENTS` of one eviction. Six
records fill three files of two lines, so that rotation replaces lines, also after
a restart. In `note_api` two notes are a page boundary, and two marks are what
two writers need to get in each other's way. The longer texts of `edits` have a
title twice, text on either side of a subsection, a heading in a fence,
frontmatter with a list and a comment, an image in a link, reference definitions,
letters in both cases; the short ones are all over the alphabets of `MCNoteEdits`.
`Max*` bound counters in guards; only `MaxClients` is the code's.

`CHECK_DEADLOCK FALSE` is set where the instance stops: a call that was
answered (`move_plain`, `edits`), an OAuth instance at its bounds, a journal that
has its records.

### Fairness

`Transaction`: the engine's own steps are weakly fair, since nothing waits once
the flock is held. Reopening is not assumed. `VaultSync`:
a tool call goes on, a sync that runs goes on, the pusher's timers fire, and the
queue of tokio's `RwLock` is fair (strong fairness of taking the guard); nobody is
obliged to write or to call `sync_vault`, and the network may stay down.
`OAuthStore`: an accepted request keeps running. `EventJournal`: `emit` ends, the consumer is polled, a command that reads is done
with its input, a timeout fires.
`NoteApi`: a call goes on, and an outside program gives the flock back; a git
command left behind may take for ever.

### Disagreements between code and documentation

`oauth_expired` expects a violation: an expired refresh token locks the store's
mutex twice, and no later request that needs the store is answered (`findings`).

More states that the repository, or what a caller would expect, excludes are seen
by changing a run as the third column says; the passing runs leave out just these
circumstances.

Engine and `move_notes`:

| code | what happens | seen with |
|---|---|---|
| `transaction.rs:408` | undo steps are not idempotent (ADR-0007:44-46 says they are): a replayed `ReverseMove` of a move whose source had gone moves another note away | `tx_tools`, `Admissible <- Unvalidated`: `CrashConsistent` |
| `transaction.rs:419` | `rollback` goes on after a step that failed and the next renames a backup over what stayed, though "the backups/journal are kept so the next open can retry rather than losing the original" (`transaction.rs:390`) | `tx_tools`, `FaultPoints = {"undo", "journal"}`: `CrashConsistent` |
| `transaction.rs:428` | a journal whose removal failed silently is replayed over later commits ("either fully committed or rolled back to no effect, never partial", ADR-0007) | `tx_tools`, `MaxBatches = 2`, `MaxItems = 1`, `{"apply", "unlink"}`: `Refines` |
| `transaction.rs:227` | a journal that cannot be read is skipped and the vault opens, though it is kept "for the next attempt rather than opening a half-rolled-back vault as healthy" (`transaction.rs:239`) | `tx_tools`, `{"read"}`: `Refines` |
| `tools_organize.rs:616` | with `overwrite`, a destination above another item's source sets that source aside, and the later item moves what took its place ("the batch declares a final tree", ADR-0024) | `move_plain`, `Allowed <- AnyCall`: `LandsAsDeclared` |
| `tools_organize.rs:429` | a note brought along by a directory is overwritten without `overwrite` (ADR-0024:43-44), and links to it end up elsewhere | `move_plain`, `Allowed <- AnyCall`: `NoBodyLost`, `LinksFollow` |
| `tools_organize.rs:486` | a destination that leads through a place another item gives a note (`y.md` to `x.md`, `e` to `x.md/f`) is accepted and fails half-way, though the check is there "so the failure is an indexed validation rejection, not a late create_dir_all IO error at commit time" (`tools_organize.rs:483`) | `move_plain`, `Allowed <- NestedPlain`: `NeverFailsMidway` |
| `tools_organize.rs:707` | the scan that picks the notes to relink looks for the sources' names as they are spelled, so a link with percent escapes other than `%20` is missed (ADR-0022) | `move_plain`, links with `coded \|-> TRUE`: `LinksFollow` |
| `relink.rs:70` | a name that reads as `scheme:` is a URL where a relative spelling starts with it | `move_plain`, `Schemed = {"y"}`: `LinksFollow` |
| `listing.rs` | notes in a directory whose name starts with a dot can be moved but are not relinked | `move_plain`, `Hidden = {"e"}`: `LinksFollow` |

Git automation:

| code | what happens | seen with |
|---|---|---|
| `lib.rs:251` | an edit before the auto-commit is committed as the tool's ("path-scoped staging keeps concurrent external edits out", `lib.rs:221`) | `sync_pair`, `EditPath = {p}`: `Attributed` |
| `tools_sync.rs:117` | a sync that asks for the upstream during another's rebase never announces what it fetched (ADR-0018:70) | `sync_solo`, `Task = {task}`: `EventsComplete` |
| `tools_sync.rs:127` | a sync whose sweep or rebase fails after the fetch, or whose diff does (`sync.rs:299`), never announces what it fetched ("so the stream stays a complete account", `tools_sync.rs:141`) | `sync_solo`, `"commit"`, `"rebase"` or `"diff"` added to `Faults`: `EventsComplete` |
| `tools_sync.rs:141` | after a lost push answer the server's own commits are fetched, announced again, as `sync_vault`, counted as pulled | `Publish` after `PushLost` (no property counts announcements) |
| `sync.rs:293` | killed between the conflicting rebase and its abort, the server restarts on markers ("conflict markers never reach a note", `sync.rs:280`) | `sync_faults`, `Faults = {"kill_rebase"}`: `NoMarkers` |
| `sync.rs:215` | the count of unpushed commits fails during another sync's rebase, is taken for zero and reported as success ("the vault is on the remote", `lib.rs:189`) | `sync_solo`, `Task = {task}`: `HealthHonest` |
| `sync.rs:381` | for the same reason the auto-push task goes idle without a retry while the other sync's push fails ("transient outages self-heal without new writes", ADR-0019) | `sync_solo`, `Task = {task}`: `BacklogDrains` |

Credentials and events:

| code | what happens | seen with |
|---|---|---|
| `oauth.rs:247` | of two concurrent persists the older snapshot can be renamed last ("persist issued tokens and registered clients to disk", ADR-0014) | `oauth_serial`, two requests, `MaxTime = 0`: `SurvivesRestart` |
| `events.rs:172` | a write cut inside a UTF-8 character makes the file unreadable, and `seq` goes on from the rotated file or from nothing ("monotonically increasing", ADR-0017) | `journal`, `"mangle"` in `Faults`: `SeqIncreasing` |
| `events.rs:152` | after a torn line the next acknowledged record is glued to it, and after a restart its `seq` is given out again | `journal`, `GapVisible` without `tears = 0` |
| `events.rs:212` | the record is written to the hook's stdin outside the timeout ("Each invocation has a timeout", ADR-0017): a hook that does not read blocks the queue | `journal`, `"deaf"` in `Faults`: `HookServed` |

Notes and clients:

| code | what happens | seen with |
|---|---|---|
| `tools_write.rs:741`, `api.rs:274`, `vault.rs:414` | what a call read is older than the flock it takes, or it takes none: it overwrites an outside program's edit ("a checkout can never interleave with a transaction", ADR-0016) | `note_api`, `NothingLost` without `stirred` or `base` in `Excused` |
| `api.rs:364` | a client that hangs up drops its PUT at the commit: the note stays uncommitted ("Each PUT rides the vault's per-write auto-commit", `tools_transfer.rs:96`) | `note_api`, `AllCommitted` without `~hungup` |
| `tools_write.rs:684`, `791`, `901` | two spellings of one note (NFC and NFD) are two groups, and the second write overwrites the first | `edits`, `MCNoteOf` with both at one note: `EditsLand` |
| `patch.rs:540` | an insertion has no width for the overlap check and may sit inside a section that another item replaces, deletes or moves | `edits`, `EditsLand` without `Shaken` |
| `tools_write.rs:248` | the hash an edit returns is looked up by the old address and may be another section's | `edits`, `At(<<A, s>>, 1)` added to `Ats`: `HashesMatch` without its premise on the other items |
| `patch.rs` | a block put before the root takes over the text above the first heading | `edits`, `Singles` without `Usual`: `OthersStay` |
| `frontmatter.rs:97` | removing the last property of a note whose body begins with a block between `---` lines makes that block frontmatter, unless it holds properties | `edits`, a start text of that shape (`---`, `k: 1`, and three more `---`): `OtherKeysKept` |
| `tools_search.rs:244` | a keyword's capital outside ASCII is put in small letters, the body's is not, so `École` standing in a body is not found ("a document matches when **every** keyword is found", ADR-0010:26; ADR-0010:45 only limits case-insensitivity) | `edits`, `q` for `keywords` in the last `InBody`: `SearchFinds` |
| `tools_search.rs:394` | matches that overlap hide each other, so a note that holds all keywords may not be found | `edits`, the query `ga na`, `na ga` added: `SearchFinds` without `Apart` |
| `links.rs:52` | of links whose destinations overlap (`[[](d](d))`) the later offsets are stale when the earlier ones are used | `edits`, that text, `LinksReadBack` without the second half of `Apiece` |
| `links.rs:317` | a backtick in a destination opens a code span that ends elsewhere once the link is rewritten | `edits`, the text ``[](d`)[](e`)`` and a move of ``d/d` `` to `x`: `LinksReadBack` without the first half of `Apiece` |

## 4. The proofs

TLAPS proves these for every value of the constants, from the assumptions of the
modules and what the third column adds (`NothingClobbered`,
`OnlySourcesArePruned`, `EditsSurviveSyncs`, `HealthIsHonest` and `NoUpdateIsLost`
are action properties).

| module | theorem | also assumed |
|---|---|---|
| `TransactionProofs` | `TypeCorrect`, `EngineCorrect`, `WriteAheadHolds`, `NothingClobbered` | |
| | `RecoveryCorrect`, `CrashesAreConsistent`, `PromisedIsServed`, `NothingIsLeft`, `EngineIsAtomic` (every step is one of `AtomicBatch` or a stutter) | `RecoveryUndisturbed`: only journal writes and forward renames fail; `Careful`: the engine gets batches sound for its vault |
| | `ToolsAreSound`: the tools' validated batches are, at any size | |
| `MoveBatchProofs` | `MovesCorrect`, `MovesLand`, `NoBatchFails`, `NoBodyIsLost`, `OnlySourcesArePruned` | `PlainCalls`: no call of the three shapes |
| | `LinksAreFollowed` | also `PlainLinks`: no name reads as a scheme, no hidden directory, no coded link |
| `VaultSyncProofs` | `SyncInductive`, `NoMarkersReachNotes`, `EditsSurviveSyncs` | `NoRebaseIsKilled` |
| | `HealthIsHonest` | also `[]OneSync`: syncs do not overlap |
| | `EventsAreComplete` (up to a restart) | also `GitSucceeds`: no commit, rebase or diff fails |
| | `OnlyEditsAreUncommitted`, `CommitsAreAttributed` | `CommitsSucceed`: no commit fails, no kill, tools and editors write different notes |
| `OAuthStoreProofs` | `StoreInductive`, `StoreTypeCorrect`, `CredentialsAreSingleUse`, `GrantsAreConfined` | |
| | `FileInductive`, `RotationIsFinal`, `AuthorizationSurvives` | `[]Alone`: one request at a time; `FileIsWritten` |
| `EventJournalProofs` | `JournalInductive`, `JournalTypeCorrect`, `SeqNeverRestarts`, `GapsAreVisible`, `TearsLoseOne` | `WholeCharacters`: no append is cut inside a character |
| `NoteApiProofs` | `NoteApiCorrect`, `TypeCorrect`, `ReportsAreTrue`, `WritesAreCommitted`, `IndexesAreSnapshots`, `ListingsAreComplete`, `NoUpdateIsLost` | |
| `NoteEditsProofs` | `TextsStay`, `AddressLeadsBack`, `EchoReplacesItself`, `EchoesAreNeutral`, `SearchesFind` | |
| | `HitsStand`, `RestIsKept` | `OneSpelling`: no note has two |
| | `OthersAreKept` | `[]PlainBodies`: no body begins with a block between `---` lines (`edits` meets none) |

What is added are circumstances of section 3.

*Transaction.* That a slot about to be filled is named in the journal on disk
depends on the journal being the one in memory, on its last step being this
operation's, and on later slots being free (`EngineInv`).

*Recovery.* A rollback is a chain of disks, from the one there is to the one it
leads to; the chain is no part of the state, so the invariant says that one exists
(`BringsBack`) and each action takes off or puts on a link. `Settled` says that what is done has no work left
when a crash starts the replay again. `Ahead` is what the operations to come rely on, `Sound` what makes it
true at the start.

*MoveBatch.* After k moves the tree is `Built(tree, k)`, the declared tree of the
first k items; `Orderly` gives what the sort and the collision check say of two
items, and `Pruned` that only directories went since. A link is resolved as a
chain of positions; rewritten, it climbs to the common prefix and comes down
again.

*VaultSync.* `LockInv` says who may be in the middle of what, `CleanInv` that a
sync with the guard has committed everything and that only a conflict's notes
differ from the commits, by markers. `AuthorInv` adds whose bodies a commit holds;
`HealthInv` what an attempt that will report success has seen; `AccountInv` that
all up to the tracking ref is announced or about to be.

*OAuthStore.* A credential presented is gone from the store, nobody else in flight
carries it and ids are drawn once (`IdsInv`, `UseInv`); `GrantInv` follows a
ticket's scopes into store, snapshots and file; `FileInv` says that between requests
the file is as good as the store.

*EventJournal.* `FilesInv` and `SeqInv`: the last readable line of the live file,
or else of the rotated one, bounds the journal; a file without one holds too few
lines to be rotated (`MaxTears < RotateAt`). `LostInv` charges each torn append once.

*NoteApi.* `Relies`: the lock admits a writer alone, so what a call looked at holds
until it saves, unless an outside program wrote (`stirred`). `Circulation` says
who put a mark where; `Uncommitted`, `Indexing` and `Walking` what a commit, an
index and a listing half done still owe.

*NoteEdits.* The functions and folds over texts are chains of values, so what one
computes follows from a least length at which it would fail (`Folding`). The lines of a
text cover it without gap or overlap (`LinesAre`), and its headings, spans and
addresses are read off them. A section given back brings its seams along. Splices
that do not meet split in front of a match (`HitsStand`) or a token none takes
(`RestIsKept`): the first ones leave the rest alone, and what they add is the shift
`replaced_text` reports. For `OthersAreKept`, a note put together reads back line by
line, and another key's extent is glued from parts the replaced block leaves empty.
For `SearchesFind`, keywords that cannot overlap leave each other's matches alone;
an offset of the folded text counts what is in no gap; a page and those
behind it are the row the one before it cut.

Model-checked only: liveness (`AlwaysReturns`, `BacklogDrains`, `HookServed`,
`CallsEnd`, `AllAnswered`, the fairness of `Refines`), which the prover does not
reach; and `OthersStay`, `EditsLand`, `HashesMatch` and `LinksReadBack`, which parse
the new text afresh.

## 5. Not modelled, and why

* Path validation: a library's tables decide; two spellings of one note enter
  `NoteEdits` as `Spellings` and `NoteOf`.
* HTTP routing, sessions, configuration, deployment: no state beyond a request, or
  a library's.
* CommonMark beyond the rules `document.rs` and `links.rs` implement themselves,
  and of those: tabs and indents, CRLF, titles and fragments of links, angle
  brackets, escapes, indented code. Text below the size of a token (so no byte
  offset inside a character), YAML beyond lines of keys and items.
* Date and glob filters, facets of `list_properties`, truncated answers, `dry_run`.
* Engine: NFC resolution, the refusal of `.md-mcp/`, directory entries lost in a
  power failure (ADR-0007 leaves them to the system). Sync: batches of several
  notes, the length of the backoff. OAuth: PKCE and redirect matching (they only
  decide whether a request passes), the pages of the gate. A failing
  `rebase --abort`. Notes `update_links` cannot read or list. NFC and small letters of
  another length in a search.

## 6. What is left

* A second process in `Transaction`: recovery lists the journals before it takes
  the flock.
* The composition of `NoteApi` with `VaultSync`: a sweep between the look and the
  save of a PUT.
