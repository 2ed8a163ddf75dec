# Notewise: models, checks and proofs

Notewise records meetings on the user's own machine, transcribes and summarises
them, keeps everything in one SQLite file, and passes results on: to trackers,
mail drafts, a folder of markdown files, and external MCP servers. One engine
(`core/crates/api-server`) serves a desktop app, a CLI and a browser extension
over HTTP on localhost. Requests run concurrently with a few background passes,
they share one database, and each statement of it is atomic while nothing longer
is unless a lock is held over it. That is where this project looks.

Paths below are relative to `src/core/crates/` unless they start with another
directory of the repository.

## 1. Inventory

For each part: the state it keeps, what it does, what is hard about it, and
what makes it correct.

**Outbound queue and dispatcher** (`storage/src/repositories/outbox.rs`,
`connectors/src/dispatcher.rs`, `api-server/src/sync.rs`).
*State*: `connector_outbox` rows (status, attempts, next attempt, lease), the
`external_items` and `synced_to` edges that record what a push made, and the
artifacts in the other system. *Operations*: enqueue, claim under a lease,
deliver (look for an existing item, push, record item and edge, complete), retry
later, dead-letter. *Interaction*: the background pass drains every 30 s on a
connection of its own; requests that enqueue drain too. *Hard*: two drains of
one table, leases that lapse, statements addressed by row id alone, a crash or a
failed statement between the push and its record. *Correct when* a row is in
one drain's hands, settles once, is tried a bounded number of times, and a node
joined to its artifact never gets a second.

**Model downloads** (`api-server/src/downloads.rs`, `transcription/src/models.rs`).
*State*: the manager's one entry for an artifact, its watchers, a partial file
and a final one. *Hard*: presses during and after a transfer, a transfer of the
command line over the same partial file, a break and a resume, a removal
between a check and a rename, a connection that goes silent. *Correct when* an artifact
that is trusted is whole, and whoever waits is told the end unless the connection is silent.

**Indexing** (`api-server/src/indexing.rs`,
`storage/src/repositories/embedding.rs`, `note.rs`, `meeting.rs`). *State*: embeddings with a stamp, the texts they were made
of. *Hard*: a pass lists under the lock, lets go of it, and writes after model
calls; texts change and are trashed meanwhile; the clock ticks in seconds.
*Correct when* a vector that is stale is seen by the next pass.

**Scheduled jobs** (`storage/src/repositories/job.rs`, `api-server/src/jobs.rs`,
`api-server/src/schedule.rs`).
*State*: jobs, and `job_runs`, which is both history and the scheduler's memory
(when a job last started, whether it runs). *Operations*: create, switch, delete,
run now, the pass of every minute, start, finish, skip, prune to 50 rows.
*Hard*: the pass, people and running tasks interleave on the history; a prune, a
crash or a finish that is not written changes what the next pass decides; many missed
occurrences; more jobs due than a pass starts. *Correct
when* a job never runs twice at once, never runs a backlog, and what is owed is
served.

**Recording and retained audio** (`api-server/src/recording.rs`,
`recorder/src/lib.rs`, `storage/src/repositories/meeting.rs`, `storage/src/audio.rs`).
*State*: the engine's slot, the capturing thread, the meeting's row, the audio
file, the retention policy. *Hard*: they change at different times; a stop
returns before the thread has flushed; a sweep, a purge and a crash fall between
any two of them. *Correct when* kept audio is named by a meeting until it goes,
the tail before a stop is stored up to the cap on it, and a stopped meeting ends.

**Dictation** (`api-server/src/dictation.rs`, `os-input/src/insert.rs`,
`pasteboard.rs`, `apps/desktop/src-tauri/src/assistant.rs`). *State*: one slot, a
thread, the clipboard that words travel by, the hotkey's flag. *Correct when* the
clipboard comes back or the user is told, the flag is right unless something
else drove dictation, and the microphone is let go.

**External tool calls** (`storage/src/repositories/tool_execution.rs`,
`api-server/src/tools.rs`, `mcp-client/src/`).
*State*: `tool_executions` rows, the server's configuration and allowlist, the
map of sessions, one transport for each. *Operations*: propose, confirm, reject,
resend, claim, send, receive, time out, record; turn the server on and off, start,
stop, remove. *Hard*: three locks taken in turn, replies of calls already timed
out on the same pipe, handlers dropped by their client or ended by a statement that fails,
effects that come late.
*Correct when* only what a person approved is sent, once, and the record of it is
true and final.

**Sync versions and conflict resolution** (`sync-client/src/version.rs`,
`resolve.rs`).
*State*: a version vector and content for each device's copy. *Operations*: edit,
compare, merge, resolve under one of four policies. There is no transport in the
repository. *Correct when* versions compare exactly as the histories behind them,
conflicts stay resolved, and no edit is discarded unreported.

**Vault mirror** (`connectors/src/sinks/vault.rs`, `api-server/src/vault.rs`,
`storage/src/repositories/document.rs`, the dispatcher).
*State*: files the user edits too, the fingerprint last written (the external
item's `remote_version`), divergences, and outbox rows. *Operations*: mirror on
request, background drain, check, write, record, refuse, and the answers keep,
overwrite and copy to a note. *Hard*: check-then-write on files, answers of
several statements each, two drains with different renders, a rename that moves
the file. *Correct when* nothing the user wrote is overwritten unasked.

**Connected accounts** (`api-server/src/connectors.rs`, `connectors/src/config.rs`,
`oauth.rs`, `storage/src/repositories/comms.rs`). *State*: the rows of accounts, the
keys in the keychain, the registry built from both, sign-ins under way, mail drafts.
*Operations*: connect, disconnect, sign in at Microsoft, approve and discard a draft.
*Hard*: row and key lie in two stores that no transaction spans; a sign-in holds the
lock for neither its token nor its registry; whoever delivers keeps the registry it
took. *Correct when* what delivers is what is connected, also after a restart, with a
key that fits, and a draft is in one mailbox.

**Import** (`connectors/src/importer.rs`, `connectors/src/sources/`).
*State*: a cursor for an account, the documents it brought. *Hard*: two pulls
over one cursor, a walk that is capped, that cannot list everything and that the folder
changes under, items that fail, files that move in with an old time, a
reconnection under a pull. *Correct when* a file is stored or still ahead of the
cursor.

**Workspace location and adoption** (`storage/src/location.rs`) and **merge**
(`storage/src/merge.rs`). *State*: the database and its log as two files at
several places; the rows of two workspaces. *Hard*: a crash between the two
files, two surfaces launching, ids that differ for one person. *Correct when* no
workspace is destroyed, what could not be adopted is told, and a merge keeps who
attended what.

**Workspace rows and graph** (`api-server/src/workspace.rs`, `routes.rs`,
`vault.rs`, `mcp-server/src/`, `storage/src/repositories/`). *State*: meetings,
notes, tickets, summaries, action items, people, and edges that no foreign key
guards. *Hard*: handlers are several statements without a transaction, with
another process between them. *Correct when* an edge joins rows that exist and
an item is promoted once.

**Model routing** (`ai-router/src/router.rs`, `policy.rs`,
`api-server/src/routing.rs`). *State*: the stored rules and keys, the router in
force, a remembered probe. *Correct when* the router in force is what is stored,
and text leaves the machine unmasked only where a rule says so.

**Join detection** (`api-server/src/join.rs`, `apps/browser-extension/src/join.js`). *State*: the
tracker's signals, queued notifications, the offers shown. *Correct when* one
meeting is told once to each source.

**Streaming audio** (`transcription/src/stream.rs`, `audio-capture/src/pacing.rs`).
*State*: buffers of samples with a clock origin. *Correct when* no sample is
lost or doubled, utterances are what the gate took for speech, and sound is
stamped near its time.

What is not modelled, and why, is in section 6.

## 2. Modules

| Module | Models | Composition |
|---|---|---|
| `Delivery` | what the outbound queue promises | abstract |
| `Outbox` | the queue and its drains, with a mail-draft sink | refines `Delivery` |
| `Downloads` | one artifact's transfers | in `Transfers` |
| `Accounts` | accounts, keys, the registry, sign-ins, mail drafts | in `Transfers`, under three scopes |
| `Transfers` | the three above beside each other | extends `Outbox` |
| `Indexing` | passes, vectors, what makes a text pending | |
| `Jobs` | scheduler, run history, manual runs | |
| `Recording` | slot, thread, row, audio file, sweeps, purges | |
| `Dictation` | session, insertion, clipboard, hotkey | in `Microphone`, under two scopes |
| `Microphone` | the two above beside each other | extends `Recording` |
| `Approval` | what a person is promised of a tool call | abstract |
| `ToolCalls` | rows, sessions, transport, configuration | refines `Approval` |
| `SyncVersions` | version vectors and policies on wandering copies | |
| `VaultMirror` | mirror, divergence, answers, over the queue's rows | in `Stores` |
| `Importer` | pulls of a watched folder | in `Parts` |
| `Adoption` | moving an older workspace to where it belongs | in `Stores` |
| `Workspace` | rows, edges, handlers of several statements | in `Stores`, under two scopes |
| `Selection` | what a filter keeps of a sequence | extended by the next two |
| `Router` | settings, routers, requests | in `Parts` |
| `JoinDetection` | pages, polls, tracker, offers | in `Parts` |
| `Merging` | folding one workspace into another | in `Parts` |
| `Utterances` | cutting streaming audio | in `Parts` |
| `Pacing` | system audio on the wall clock | in `Parts` |
| `Parts` | the six above beside each other | extends `Router` |
| `Stores` | vault, adoption and workspace beside each other | extends `VaultMirror` |
| `…Proofs` (eight) | theorems | extend theirs |
| `MC…` | instances for TLC | extend or instantiate theirs |

Every module takes its sizes and bounds as CONSTANTS under one named assumption.
An action is one atomic step of the code: an SQL statement, a span under one
taking of a lock, one operation of the file system, or one call to another
system. The operators named as a faulty variant of the next one
(`ReadyWithoutLease`, `RestoreTextOnly`, `MergedLocal`, ...) are used by no
specification; they are the bugs each property was seen to catch, and
`PROJECT.json` pairs them.

**Sums.** `Transfers`, `Microphone`, `Parts` and `Stores` put parts that share
no state beside each other: a variable `part` is chosen at the start, the next-state
relation is the chosen part's, and the others stay as they began. The states add
up where a product would multiply, and a property of one part is trivially kept in
the behaviours of the others. Fairness of a part is stated of its own steps
guarded by `part`. Where a component is too large with everything at once, its part
comes in several *scopes*: `Scopes` maps the name of a part to what it may make use of
(which accounts, sessions, drafts, and how many faults), and `Within` refuses a step that
goes beyond; `Stores` does the same with the ids a part of the graph gives rows. `Parts` has
`Subjects`, the parts a run looks at, and `Together`, which keeps pulls from overlapping where
many files are in play. Scopes and these bound TLC's instance and are CONSTANTs; the theorems
hold for any, hence also for one that leaves everything in. `MCTransfers`, `MCRecording`, `MCParts` and
`MCStores` only give values to the constants of theirs.

### Outbox

A row is named by its idempotency key. For the mail-draft connectors the key is
made from the draft's own id, so row and node are one element of `Keys`. `status`,
`attempts`, `nextIn` and `leaseIn` are the row's columns, the two times as what is
left until they pass; `items` and `edges` are the external items and graph edges;
`drafts` counts what the mailbox holds. Each drain has a `pc`, its `batch` with
the attempts `seen` at the claim, the row in hand, the reference it was handed and
the one it got. `Claim` is `claim_ready`; `Begin` … `Complete` follow `deliver` and
`record_success`; `DeadLetter` and `RetryLater` follow `record_failure`; `Abandon`
is a crash or the early return of `drain`; `Tick` is time. `PushReplyLost` makes
the draft and loses the answer. Vault rows, whose sink behaves differently, are
`VaultMirror`'s.

### Downloads

A file is an inode, a path names one or none, so that a rename under an open file
does what it does. `entry` and `state` are the manager's watch channel; a transfer
goes `looking → asking → writing → checking`, where `resume` is the length the
partial file had when it was looked at and `fd` what it has open since. Byte *i* of
the artifact is *i*. A connection may fail (`Break`), or go silent for good (`Stall`):
the client has no timeout (`models.rs:392`), so a `silent` transfer stays the manager's
entry and bars every later press until the connection breaks or the engine restarts, which
nothing promises and `WatcherIsTold` says. Transfers of the command line share the files and not the
manager. `clashed` is a ghost: two processes fetched at once, which nothing keeps
them from and which `TrustedIsWhole` excuses.

### Accounts

`account` is a row's target and whether its scopes allow mail, `key` the keychain, and a
key that belongs to a target is named by it; generated ones are numbered. `Build` is
`build_registry`, and `registry` what `set_connectors` last put in force. A request is one
action, for it holds the database lock to its end; `how` is where it fails. A sign-in goes
`waiting → stored → built`: the token is put down without the lock, the row written and
the registry built under it, and the registry put in force after it. A worker is an
approval (`picking → taking → queueing`) or a pass, and both go `claiming → delivering` with
the registry they hold. `torn` and `behind` are ghosts that name what is excused: a key
and a row that one request did not put down together, and a registry that an error, a
sign-in or a restart kept from following.

### Indexing

A text is the number of edits behind it, a vector the text and the stamp it was
made of. A pass is `checked`, `begun` (status taken, under the manager's lock), then
`writing` with `todo`, the copies it listed. `Fire` is the debounced refresh.
`unseen` marks what the next pass is known to pass over: a change within the
second of the stamp, and those changes of a text that do not move `updated_at`.

### Jobs

`runs` is each job's history, oldest first; `owed` counts occurrences since the
last start, capped at 2 because `schedule::due` tells 0, 1 and more apart; `live`
is what this process drives. `Scan` is the locked half of `tick`, `StartChosen` one
start of its unlocked half, `PressRunNow` and `RunNow` the check and the start of
`run_now`, which take the lock separately. `unserved` is a ghost: an occurrence
fell and the scheduler has not started the job since. Any statement may fail, as an
action of its own beside the one that succeeds: `FinishFails` only warns and leaves the
row running, `StartRunFails` leaves nothing or, when its prune fails, a running row and
no task, and `ScanFails` ends the pass at the failing job or passes over a skip.
`stranded` holds the runs whose row says running and that nobody will end: a crash and
these failures add to it. `NoRoom` keeps a run that
would be pruned while driven out of the model when `RunsTimeOut`: with a pass a
minute and 50 rows kept that takes a timeout of 50 minutes. `create_job` allows such a
timeout, which is why the assumption is a constant and section 7 says what comes of it.
`CatchUpServed` names what a job is not promised: a pass starts the first
`MAX_CONCURRENT` due jobs by name, so that others can crowd one out (`Crowded`) for ever.

### Recording

Four things describe one recording and change at different times: `slot`, `thread`,
the `row`, the audio `file` with `named`, the path in the row. The thread goes
`opening → capturing → draining → flushed → filed → attached → done`, or ends `marred`
(an error), or `dead` (a panic or a crash). `heard`, `taken` and `stored` count frames:
delivered, read, and stored as transcript, and `tail` those read since the stop was seen:
at `MaxTail` of them (`MAX_TAIL_MS`) the reader gives no more and the rest is dropped.
`Stop` empties the slot and sets the flag (`told`); that the request then waits up to its
own limit changes nothing. A purge reads the
path, deletes the row, then the file; the sweep lists, unlinks, then clears the path,
one meeting at a time, under the policy it read at its start.

### Dictation

Three actors place words: a box's session (whose words stay in the box), the
hotkey's, and the assistant's replacement of a selection, each by way of the clipboard:
`snapped → written → pasted`, and back. `Place(x)` is the next step of an insertion. A
clipboard is whose text it is and whether all of its representations are there; the
copies in `Rich` are those a snapshot cannot capture whole. `flag` is what the hotkey's
thread believes. `mixed`, `warned` and `amiss` are ghosts naming what is excused: an
insertion that met another, a user who was told, and a dictation driven by another.

### ToolCalls

`status` and `claimed` are the row; `server`, `toolOn`, `leaving` the configuration,
with the window between turning off (or removing) and what follows; `session` and
`starts` the map; `wire`, `done` and `refused` what the transport carried. A handler
goes `claiming → calling → waiting → sending → recording`. `TransportFree` is the
transport lock, held from the write to the answer or the timeout. A server may
`Serve` any request at any time after it was written, also after the timeout. Four
faults end a handler: `Drop`, `Restart`, `ClaimThenFails` (the claim is written and reading
the row, the server or the allowlist fails, `tools.rs:931-934`) and `FinishFails`
(`tools.rs:977`, `982`). `broken` is a ghost: the calls that one of them took out of a
handler's hands after the claim. A row that is claimed and unfinished otherwise violates
`StrandedNeedsFault`.

### SyncVersions

`copy` holds for each device the version, and beside it what the version stands
for: the edits it descends from (`history`) and those still shown (`content`). A
sent copy stays in `sent` for good, which makes delay, loss, repetition and
reordering the same thing. `met` and `told` record what was merged and what was
reported discarded.

### VaultMirror

One meeting. A title has a file name and hence a file, an item and at most one
divergence; contents stand for fingerprints, the meeting's renders for themselves.
A request or drain claims all pending rows (they are taken to fit a batch of 25), then
per row `Look` (existing item), `Passes` or `Refuse…` (the comparison), `Write`,
`Record`, `Link`. Answers go `copy → adopt → settle → push`. The ghosts are
`agreed`, the edits the user let go with the answer that said so, and `unguarded`:
edits no check could see, because they were made between the check and the write,
or the push had no item to check against.

### Importer

A content is the time of its last edit. A pull goes `begun → asking → walking → reading →
storing`: the cursor, the walk, the reads, the items one by one, and the cursor again. It
reads the folder of the registry (`registered`), which a restart empties until some account
is changed (`CatchUp`). A walk (`scan`) takes one file at a time in any order (`Look`), old
ones as well, until it is `Full` or has seen what there is; `left` is what was there when it
began and it has not come to, `seen` what it found. `Deep` files it never comes to, and of
what it cannot list or ask for its time it says nothing (`CannotLook`). What is newer than
the cursor is `todo`, and the newest of that the next cursor.

Two ghosts name what is excused. `lost`: a file that could not be listed, read or stored, one
moved in with an old time, one that two pulls stored in the wrong order, and a cursor used
for another folder than its own, which a reconnection leaves behind. `overlooked`: a file the
cursor passes because the walk had no room for it, or because it changed behind the walk. Both
are forgotten once the file is edited or stored as it is.

### Adoption

A workspace is a database and a log; a file is a set of commits, `Torn`, or `None`. A
launch looks at each legacy place, and moves the database and then the log by a
rename, or by a copy and a removal. `parted` (a launch stopped between the two) and
`overlapped` (two surfaces launching at once) are ghosts that name what is excused.

### Workspace

A handler is the sequence of statements it makes; `Make` takes the next one of a
process, `Cut` drops the rest. The engine runs one handler at a time under its lock,
the MCP server is the other process. `awaiting` holds the handlers that let go of the
lock for a model call (`summarize_meeting`) or between two takings
(`copy_to_note`). A foreign key's cascade is part of the statement that causes it.
`muddled` is a ghost: rows two handlers were about at once, or one cut short.
A purge lists what the meeting owns and becomes one statement for each (`ListOwned`).
Embeddings are `Indexing`'s; decisions have no edges; tickets without a meeting have
none either. Drafts, templates and projects are left out.

### Router

A router is a default backend and rules, and is replaced whole; `live` is in force, a
request keeps the one it began with. A change of the rules or of the default saves,
builds, swaps, remembers, in the order of its handler. `muddled` is a ghost: since a
change last went through alone, two overlapped, one was not remembered, or a restart
could not build what is stored. A request is judged by the first rule that matches,
may probe, is sent, and falls back once.

### JoinDetection

A page announces its meeting until it is heard or gives up (`tab`, `post`); a `poll` tells
of the events that are happening. `pending` and `notified` are the tracker's. A post goes
`sent → queueing → offering → replying`. The two sources never use one key, so each
property is about one of them.

### Merging

Two workspaces edited by people before, between and after merges. `Merge(w, v)` is the
whole of `merge_into`, which is one transaction: people by id or by address, then what
refers to them. `merged` remembers the last merge while nothing has changed since.

### Utterances

The unit is half a sub-frame, 10 ms, in which samples and milliseconds convert exactly.
`Push` takes a frame, discards silence, and hands out what is due; `Flush` ends.
Which sub-frames are speech, and where the quietest place to cut is, is any choice.
Frames have a longest, by which the error of a cut is bounded: what is handed out at a
pause falls short of `MinSpeech` by less than that error, and what is dropped exceeds it by
less than that error or the pre-roll, whichever is more. A chunk that is pre-roll is never also a share, so that the
two do not add up.

### Pacing

A sample is the tick it was captured in. `Tick` is the clock, with what the platform
delivers; `Read` the source's poll; `Stop` and `ReadRest` the end. The stream fills
with silence what is overdue by more than the allowance.

## 3. Runs

Passing runs:

| Run | Instance | Shows |
|---|---|---|
| `transfers` | queue: 2 rows, 2 drains, 3 attempts, batch 2, backoff 1 to 3 ticks, lease 2, 1 fault; downloads: 2 presses, 1 stranger, 3 inodes, size 2, 2 faults; both fair; accounts: 2 sign-ins to 2 clients, 1 fault; 2 connectors, 2 targets, 2 generated keys, 2 faults; and 2 mail vendors, 1 sign-in, 1 draft, 1 worker, 1 fault; 227 947 states | leases exclude, extra drafts cost faults, no second draft for a joined node, `Delivery` is implemented, every row settles; what is trusted is whole, and who watches is told unless the connection is silent; what delivers is what is connected, and a draft is in one mailbox |
| `indexing` | 1 entity, 2 passes, 2 edits, clock to 3, slack 1, quiet 2, 1 fault, fair; 675 310 states | a stale vector is seen by the next pass; a pass ends |
| `jobs` | 2 jobs (a catch-up one with history, and a new one named before it), 1 start a pass, 2 rows kept, run now, 1 crash or failed statement, fair; 305 012 states | a driven run is in the history and nothing else says it runs but what that fault stranded, no start beside a run the pass can see or without an occurrence, a catch-up job that owes is served unless a pass is full of jobs before it |
| `recording` | 1 meeting, 2 frames, 1 of them read after a stop, 1 fault, 1 crash, fair; dictation: 1 session, 1 replacement, 2 copies, 1 fault, and 2 sessions, 1 rich copy; 294 434 states | kept audio is named, nothing heard is lost but what the cap on a tail cuts, switching off clears audio, a stopped meeting ends; the clipboard comes back, the flag is right, the microphone is released |
| `sync` | 3 devices under all choices of policies, 3 edits, devices symmetric; 399 444 states | comparison tells history, conflicts stay resolved, loss is reported |
| `tools` | 2 calls, 2 handlers, 1 start of the server, 1 dropped handler, failed statement or restart, fair; 493 652 states | a call is stranded only by a fault of its own handler, `Approval` is implemented, every request ends |
| `stores` | vault: 2 requests, 1 title, 2 renders, 2 edits, 1 fault; adoption: 2 legacy places, 2 surfaces, 2 faults; workspace: 1 meeting with 1 item and 2 tickets, and 1 meeting with a summary, an item, a note and a person, 1 fault each; 2 053 004 states | edits are kept, a copy loses nothing; no workspace is destroyed and what is missing is told; edges are true and an item is promoted once |
| `parts` | router: 3 kinds, 1 request, 2 changes, 3 routers; joins: 1 meeting, 1 page, 2 posts, clock to 3, 1 fault; importer: 2 files of one folder, another folder to connect, 2 pulls, 1 file a walk, 2 edits, 1 fault, two pulls at a time while one file is in play (`Together`); merging: 2 workspaces, 3 people, 2 spellings of one address, 1 meeting, 1 template; utterances: frames of 1 to 3 sub-frames, 20 pushed; pacing: frame 2, allowance 2, delay 4, stall 2, lead 3, 12 ticks; 1 931 310 states | the router in force is what is stored; a meeting is told once; the cursor passes no file over but those named; what merges is known and attended; speech is counted; sound is stamped near its time |

Runs that end in the violation they are about:

| Run | Property | What the code does |
|---|---|---|
| `outbox_overrun` | `SettledIsFinal` | A drain that outlives its lease writes over a row another settled: the three statements that end a delivery match by row id alone. 25 rows at a client timeout of 15 s outlast a lease of 300 s. |
| `jobs_missed` | `EveryJobServed` | A job without catch-up that owes two occurrences is "missed" at every later pass, since a skip does not move the last start. |
| `accounts_restart` | `RestartRebuilds` | The registry begins empty and only a change of an account builds one, so that after a restart connected accounts neither pull nor deliver, and a draft that is approved is dead-lettered. |
| `vault_again` | `DivergesAgain` | A file edited again after its divergence was settled is refused for ever and no open divergence asks about it. |

`PROJECT.json` quotes the line each contradicts.

**Bounds.** Two of each actor is what every race here needs: each property speaks
of one row, call, file or job against at most two drains, handlers or requests, and
the theorems of section 4 remove the bound where they exist. Three attempts tell a
first, a middle and a last apart; a history of two or three rows is pruned over and over;
three devices are the least on which a merge can meet a merge; two edits of one file
are needed for an edit after an answer; a file more than a walk takes is what a cap leaves out, and
two pulls over one file are what overlapping pulls can do to it; two frames, of which one is read after a stop, tell a tail that is lost from one
that is late and from one that is cut; three inodes are what a removal and a resume can leave behind. Two sign-ins to different clients are what puts one's
token under the other's row; two mail vendors and one draft are what two mailboxes need. A clock
of 3 with a slack of 1 holds an edit in the second of a stamp and one after it. Twenty
sub-frames pass every limit of the cut more than once, and 12 ticks hold a silence
longer than delay, allowance and hold-up together. Fault bounds of one allow the fault
at any step. A second entity, meeting or file would add nothing to what one row's
property can see except in `Workspace`, where edges join rows and a row of each kind is
there. Deadlock is not checked where the system may come to rest: all rows settled,
all edits made, all calls ended.

**Symmetry** is over devices, in `stores` over the vault's requests and edits, and in
`parts` over the pulls and over the two files, which
nothing tells apart and which no liveness property is checked with; runs with a
liveness property use none.

**Fairness.** Weak throughout: each of these steps stays possible until taken.
`Outbox`: the pass of every 30 s claims again, a drain that began is polled to its
end unless it crashes, time goes on. After a restart the pass drains nothing until an
account is connected or changed (`accounts_restart`): that this happens is assumed of
`EveryRowSettles` when the crash is one of the process. Nothing is assumed of `Enqueue`, faults or which
way a push ends. `Downloads`: a transfer goes on while its connection does; that an answer or a
chunk comes, or that a silent connection breaks, is not assumed. `Indexing`: a pass that began goes on, as
tasks that are polled. `Jobs`: the loop wakes every minute, a pass is carried
through, a run ends or times out; that what they write succeeds is not assumed. `Recording`: a thread runs on, the hourly sweep
comes round, and a sweep or a purge that began is carried through; nothing of people,
of sound or of faults. `Dictation`: time passes (`MAX_SESSION_SECS`) and a thread that is
to end does. `ToolCalls`: a handler that is not dropped runs on; the timeout is one
of its steps, so that no answer is ever relied on. The other modules state none, for
no property of theirs is about what must come.

## 4. Proofs

All proofs hold for every value of the constants under the module's assumption. A
component that is a part of a sum has its invariant proved of its own steps, and the
theorem is of the sum: the property is of the run's specification, with any scopes. Of the
component that a sum extends, a lemma says that the sum implements it (`OutboxOfTransfers`,
`RecordingOfMicrophone`, `RouterOfParts`, `VaultOfStores`), so that what is proved of it
alone holds of the sum.

**Outbox** (`TransfersProofs`; `OutboxAssumption`; `BackoffAssumption`, the delay is a
duration that exists; and for everything but types `LeaseCovers`, that drains end before
their leases, without which `outbox_overrun` shows the claims false).
`IInv == TypeOK /\ RowInv /\ GraphInv`. The checked invariants are not inductive:
that two batches are disjoint needs that a row in a batch is in flight under a live
lease with the attempts its drain read (`HeldRows`); that a complete row is joined
needs what each step of a delivery has recorded (`Progress`); that extra drafts cost
faults needs the account of drafts in hand (`DraftsAccounted`), which in turn needs
that a drain about to push is alone with its row. From it: `OutboxTypeCorrect`,
`OutboxSafe`, `ExtraDraftsAreFaults`, `SettledStays`, `SyncedStaysSingle`, and
`OutboxImplementsDelivery`, step by step.

**Downloads** (`TransfersProofs`; `DownloadsAssumption`). `DownloadsInv`: as long as no
two processes fetched at once, one fetch is busy (`OneBusy`), the partial file is a prefix of
the artifact, and who writes has it open and is at its end (`Whole`). That the entry bars a
second task of the manager is `OneTask`. The length of the artifact and the number of
breaks are any. From it: `TransfersTrustedIsWhole`.

**Accounts** (`TransfersProofs`; `AccountsAssumption`). `AccountInv`: a stored token is the
key until another is stored over it (`TokenIsKey`), a registry that was built but is not in
force yet is still of what there is (`HeldIsOf`), and row and key agree while no token is
without its row (`KeysFit`). `MailInv`: a draft is in one worker's hands or on one row, never
both (`QueuedOnce`). From them: `TransfersConnectedWorks`, `TransfersOneMailbox`.

**Indexing** (`IndexingAssumption`). No stamp is ahead of the clock, and a copy a pass
holds says what its entity says, or the entity's stamp has moved since, or the
change is `unseen`. From it: `IndexingTypeCorrect`, `IndexingVectorsAreCurrent`.

**Jobs** (`JobsAssumption`, and `RunsTimeOut` where a prune could take a run that is
driven). The argument is about sequences: what an append followed by a prune may drop is
the oldest rows, more than one where a prune has failed before, and under `RunsTimeOut`
none of them is in `live`. Every row that says running is of a run in `live` or in
`stranded`, and nothing is stranded without a fault. From it:
`JobsTypeCorrect`, `JobsHistoryIsTrue`, `JobsPassSeesRuns`, `JobsOccurrenceServedOnce`.

**Recording** (`MicrophoneProofs`; `RecordingAssumption`). Each actor touches a meeting's
file and path only once the meeting's thread is past the file (`Past`), so that a sweep or a
purge never meets a thread that is about to attach. A thread past its flush has stored all
it took, and took all or reached the cap (`FlushedIsStored`). From it: `RecordingTypeCorrect`,
`RecordingAudioIsNamed`, `RecordingNothingHeardIsLost`.

**Dictation** (`MicrophoneProofs`; `DictationAssumption`). `DictationInv`: two insertions in
hand have met and are both noted as `mixed` (`Insertions`), so that the one that met no other
holds the copy it took away (`CopyIsKept`); a session in the slot has placed nothing yet
(`Slot`); and the flag differs from the engine exactly while a press waits (`PressIsRight`).
From it: `MicrophoneNothingElseIsTouched`, `MicrophoneFlagIsRight`.

**Router** (`PartsProofs`; `RouterAssumption`). A change that is alone is the only one under way
(`SInv`), and how far it has come fixes how much of what is stored and what is in force
is its own (`Progress`). From it: `RouterSettledAsStored`, and `RouterUnmaskedBySaying`,
which is about every message rather than a state and so is no invariant of a run. That
routers have numbers up to `MaxBuilt` needs that there is room for those the changes under
way will build (`RouterFits`), and so that `Writers` is finite.

**Join detection** (`PartsProofs`; `JoinAssumption`). `JoinInv` relates four things that are
written at different moments: what was told is no later than what is noted (`Noted`); a post
that has decided and has no row yet is a window apart from all that was told (`PageDecided`)
and from every other such post (`PagesApart`); and so is the poll (`PollDecided`). From it:
`PartsToldOnce`. `OffersFit` bounds what is shown, of any length of list.

**Importer** (`PartsProofs`; `ImporterAssumption`). The cursor alone says nothing about a pull
that is half way: `Covers` says that what the next cursor of a pull will pass is stored,
excused, or still in the pull's hands. While a pull walks its next cursor is not known, so
that `Covers` says this then of all the walk will not come to, and of what the last cursor
passed; the end of the walk is where both meet. Caps, depths and bounds are any, and pulls
overlap over any number of files (`Together`). From it: `PartsNothingIsPassedOver`.

**Merging** (`PartsProofs`; `MergingAssumption`). The two properties are inductive together
with the types. A merge is one step of many parts, so that its proof is about pairs:
whom an id stands for afterwards (`Kept`, `Matched`). From it: `PartsMergedIsKnown`.

**Pacing** (`PartsProofs`; `PacingAssumption`). Arithmetic over sequences: samples that are held
are in order and a tick apart (`InOrder`), so that if the first is stamped near its time all
are (`OnTime`), and the stream's clock is near the wall's after each read but for the hold-up
(`ClockIsNear`). The bounds are those the property states, for any frame, allowance, delay,
hold-up and lead. From it: `PartsStampedNearItsTime`.

**Utterances** (`PartsProofs`; `UtterancesAssumption`). The property compares what is counted
with what was heard, for a buffer that is cut any number of times. `Accounts` says what each
chunk knows of its part of the buffer. Every chunk but the first is a pushed frame, whose count
is exact. The first is pre-roll, of which nothing is counted, or what cuts have left of a
frame (`FirstIs`). A share is rounded down at every cut, so that errors could add up; they
do not, as a cut takes from the middle of a buffer or later (`CutsAreLate`) and what is left
of a frame halves: `SharedOut` distinguishes a share that was rounded once; twice, with half
of the frame left at most; and more often, with a quarter left at most. In each case the
count is within a quarter of a frame (`CountIsNear`). A cut, a push and a discard keep
`Accounts` (`CutAccounts`, `PushAccounts`, `DiscardAccounts`). From it:
`PartsSpeechIsCounted`.

With the types of the six parts: `PartsTypeCorrect`. What is filtered and summed there is of
any length, so that lemmas about `Chosen` and `SumTo` go by induction. The library's theorems
of induction take a predicate as a parameter, which the provers cannot instantiate; `InductionOnSet`
says the same of a set of numbers, and is proved of the library's theorem that every set of
numbers has a minimal one. `Selection` has a recursive function where the community modules' filter
stands otherwise, because that filter is itself an operator on operators.

**ToolCalls** (`ToolCallsAssumption`). `IInv == TypeOK /\ Wired /\ Inv`, where the
claim carries the argument: an unclaimed call was never sent, a handler past its
claim has its row alone, and has not sent it before it waits for the answer. `Held` adds that
a claimed call that is unfinished and that no fault took from its handler has such a handler. From
them: `ToolCallsTypeCorrect`, `ToolCallsSafe`, `OutcomesStay`, `ToolCallsStrandedNeedsFault`,
`ToolCallsImplementApproval`.

**SyncVersions** (`SyncAssumption`). `IInv == TypeOK /\ HistoryIsCounted`: a copy's
history is exactly the edits its version counts. Comparing and merging versions is
then comparing and joining histories (`CountedSubset`, `MergedCounts`), and
`SyncVersionsTellHistory`, `SyncNotRediscovered`, `SyncLossIsReported` and
`SyncHistoryGrows` follow.

**VaultMirror** (`StoresProofs`; `VaultAssumption`). `IInv` follows an edit from the answer that read it
to the baseline (`BaselineIsOurs`), to the push handed that baseline (`Handed`) and to
the write (`Checked`); `Held` keeps the target of a push fixed, because its row is
leased to it alone; `Chosen` and `Noted` add that what a copy adopted is in a note.
From it: `VaultTypeCorrect`, `VaultBaselines`, `VaultKeepsEdits`, `VaultCopyLosesNothing`.

**Adoption** (`StoresProofs`; `AdoptionAssumption`: the places, and that no set of commits is
taken for a missing or a torn file). That no commit is destroyed is not inductive: a move
could write over a workspace, or take it from under a connection. `AdoptionInv` says what
rules that out, as much as holds at each of three stages. Always: who looks begins with the
database, and no half copy is at a legacy place (`Beginnings`). While no two launches went
on at once (`Single`): a move has nothing open and nothing in its way, what it has half
copied has its source yet (`MovesAreSafe`), what is open is open on the files that are there,
and a log is beside its database. While besides no launch stopped between the two files
(`Untold`): a legacy log has its database or is on its way after it (`LegacyIsWhole`), and who
opened unwarned has left no legacy file behind (`NoneIsLeft`), so that all of what is on the
disk is what it sees. From it: `StoresCommitsAreSafe`.

**Workspace** (`StoresProofs`; `WorkspaceAssumption`: an id is of one kind, as each table
gives its own). `LinksAreTrue` and `PromotedOnce` say nothing of rows that are in hand, so
`GraphInv` says what a handler owes them. A handler is a sequence of statements, and the
argument is about the set of those it has left (`Left`): which may come after which
(`Works`), that two of them about one row belong to one plan (`Plans`), and what a row or
a link that is out of step waits for among them. Both ends of an edge to come are there,
will be asked for or made first (`Supports`); the edges of a row that is gone or doomed are
muddled or about to be detached (`Cleared`); a link between rows is an edge, or one end is
doomed (`Kept`, `TicketsKept`); a participant is mentioned or about to be (`Mentioned`); an
item whose promotion is under way has no ticket (`OnePromotion`). Only the engine deletes, so
that `Clearing` can say of its handler alone that a row whose edges went is a row that
goes, and that a handler which finds no row has yet undone nothing. `Ids`, `Waits` and
`HandsApart` keep new rows apart from old ones and the handlers that wait without the lock
from those that hold it. Every statement is shown to keep each of these, and so is what
`Cut` drops, whose rows are muddled from then on. From it: `StoresLinksAreTrue`, and with
the other two parts `StoresTypeCorrect`.

**Proved and not run.** The type invariants of proved modules, that a
complete row is joined to its draft and attempts are bounded (`OutboxSafe`), that a call
is sent once and a success took place (`ToolCallsSafe`), that outcomes are final
(`OutcomesStay`), and that no edit is a baseline before the user agreed
(`VaultBaselines`). The first two kinds also follow from the refinements that the runs
do check.

**Model-checked only.** The liveness properties (`EveryRowSettles`, `WatcherIsTold`,
`PassEnds`, `CatchUpServed`, `OffClearsAudio`, `StoppedMeetingEnds`,
`MicrophoneIsReleased`, `HandlersEnd`): temporal reasoning under fairness is outside
the prover's reach, as is ENABLED. Every invariant and every other action property of the
passing runs is a theorem as well.

## 5. What the models leave out

Contents, titles, words and arguments are tokens. Clock times are what is left until
they pass, or a small counter. The reply of an HTTP request is not state. Every
statement of the database is atomic, as SQLite has it, and a transaction is one
action. By module:

- `Outbox`: batches are claimed in any order the due times allow; a push handed a
  reference never fails, since the mail sinks return it without a call.
- `Accounts`: the pages of a sign-in and its one status on the screen; that a key which is
  typed is wrong; leases, retries and duplicates in one mailbox, which are `Outbox`'s.
- `Indexing`: chunking and ranking; tickets, whose vectors are written again each
  day; what retrieval itself refuses because a chunk no longer matches.
- `Jobs`: the agent is one step; creation with an invalid cron expression is refused
  before the row exists; `MAX_CONCURRENT` is a bound on the starts of one pass.
- `Recording`: two-channel recordings keep no audio and differ in nothing else (each channel
  has a cap of its own); a source that ignores the stop, which the cap is meant for; what the
  caller of a stop is answered.
- `Dictation`: the live guess at a phrase, cleaning, which way to insert is tried first.
- `ToolCalls`: schema validation, credentials and handshakes are choices of outcome.
- `VaultMirror`: a write is not torn, and two meetings share no file name.
- `Importer`: a calendar's items. That two edits have one time, to the precision of the
  file system, in which case the later is passed over. A deep file is passed over from the
  start: `Deep` is empty in the runs and any in the theorem.
- `Router`: size, keyword and hour of a rule are its task; what a mask removes is text
  processing; keys that are set while the engine runs (`Buildable` is a constant).
- `JoinDetection`: signals without a reference.
- `Adoption`: how the data directory is resolved; the adoption of model files.
- `Workspace`: handlers that edit or read one row, drafts, templates, projects.
- `Utterances`: inference. `Pacing`: the device.

## 6. Not modelled

- **The services behind accounts**: the browser's part of a sign-in, the refresh of
  tokens, and requests to mail and calendar services, but for the push of a draft.
- **Entitlements**: a pure function of a grant and the clock that no other crate calls.
- **Model backends, agent prompts, memory, retrieval and ranking**: text, floating
  point and requests to model servers.
- **The microphone, the mixer and the speech gate, inference and speaker clustering**:
  devices, signal processing and floating point.
- **Search, projects, templates, drafts, voice prints**: rows one request writes and reads.
- **Bindings of keys and permissions, screens, most of the command line**: clients of
  the HTTP surface. The protocol of the MCP server is one request, one answer.
- **Evaluation, examples, scaffolds**: a scorer run by hand, and directories that hold
  a README.

`PROJECT.json` lists every component with its sources and status.

## 7. Observations

Met while modelling, and not the subject of a run. Each is where the code does
something its own comment, or another part of it, does not expect.

*Queue, jobs and tools.* `run_now` checks and starts under two takings of the lock, so
that a pass between them doubles the run (`jobs.rs:251`). A job named after
`MAX_CONCURRENT` others that are always due is never started, and each minute's pass starts
up to `MAX_CONCURRENT` beside whatever still runs (`jobs.rs:403`, against "how many jobs may
run at once", `jobs.rs:51`). A run of 50 minutes or more, which `create_job` allows, that an
occurrence falls beside loses its row to the skips recorded meanwhile, and run now starts a
second one. A stranded
run's job is skipped until the prune has dropped the row, and then never due again, its
history being all skips. A transport that breaks after the request
was written is recorded as failed, though `mcp-client/src/lib.rs:118` says of all but a
timeout that it "either never reached the server or came back with an answer". An error
between the claim of a call and its sending is returned and not recorded (`tools.rs:931-934`),
so that a call that was never sent is refused for ever as one that was under way
(`tool_execution.rs:581`), the fate `tools.rs:945` keeps the later errors from.

*Accounts.* Disconnecting deletes the signing key and no other credential, so that
Microsoft can be connected again without a sign-in, to another client than the token is
for. It deletes the row first, and when the keychain then refuses it returns before the
registry is replaced, so that the registry in force goes on delivering. The sign-in lets
go of the database before it sets the registry it built, which may undo a connection or
a disconnection made meanwhile. A drain whose registry no longer has a row's connector
dead-letters the row. A webhook's key that is generated before a row or a registry that
fails is never shown, and the next connection keeps it. An approval goes through once, so
a draft approved while no account may write mail, or whose row is dead, is not queued
again. Discarding an approved draft leaves its row, which is delivered. The exchange of a
code has no timeout of its own, so that the five minutes of a sign-in bound the wait and
not the end. `set_status` has no callers: no account ever needs to be connected again.

*Recording and dictation.* A pipeline more than `MAX_TAIL_MS` behind at the stop drops
what was heard after that, and the run ends well (`lib.rs:222`); the comment says that the
source is read until it has no more (`lib.rs:170`). A stop empties the slot before its thread has flushed, so
that two recordings may capture at once (`OneCapture`, `recording.rs:134`). A purge
removes the audio only when its path is read in time (`meeting.rs:223`). A pipeline that
fails leaves an audio file that no meeting names (`recording.rs:479`). Dictation's slot
is emptied before the thread has ended, against "at most one" (`dictation.rs:291`). A
session that stopped itself after `MAX_SESSION_SECS` still counts as listening. The
hotkey's flag is wrong after a start that was refused or failed. The clipboard is
cleared before the words are put, and a put that fails is not undone
(`insert.rs:224`); the failed paste says the words are on the clipboard also when a copy
that could not be captured whole has been put back over them.

*Indexing.* A pass that holds the text of an entity purged meanwhile writes its vector
back (`PurgedLeavesNoText`, `workspace.rs:153`).

*Routing.* Two changes that overlap may leave a router in force that is not the stored
one (`routing.rs:794`), and a restart whose keys are only in the keychain starts without
the rules that need them.

*Downloads.* The command line and the engine append to one partial file. A connection that
goes silent leaves its entry downloading, and later presses join it, until the engine restarts.

*Joining.* The page's key and the calendar's never meet, so one meeting is told by
both (`join.rs:1`). `prune` has no caller though it is "called periodically"
(`join.rs:398`). A late reply marks as accepted the meeting a page shows now
(`join.js:86`). `JoinPrompt.tsx` says that the offer stays, and accepting dismisses it.

*Adoption and merge.* A crash between the two files leaves the log behind, unread and
untold, and the next launch does not look again (`location.rs:281`, against "safe to
call on every launch", `location.rs:164`). A merge copies edges as they are, so that
those of a person matched by address dangle (`merge.rs:18`); matches addresses with
their case, which creating a person does not; fails as a whole on a summary made with a
user's template; and remaps `person_id` where action items have `owner_person_id`.

*Import.* A walk that finds `MAX_FILES` files sets the cursor to the newest of them, and the
files it had no room for are older than that: they are read only if somebody edits them,
also when there is room again (`documents.rs:99`, against `documents.rs:201`). A file deeper than `MAX_DEPTH`, or in a folder that could not be listed once, is
passed over like one too many. `mark_missing` and `known_paths` have no callers though `documents.rs:253`
counts on them, nor has `calendar::reconcile`, of which `importer.rs:141` speaks.
`link_series` adds no `contains` edge, where `assign_series` adds one and never removes
the old one.

*Workspace.* `copy_to_note` does not look whether its meeting is still there when it
connects the note (`vault.rs:415`). A deletion cut short between the row and its edges
leaves a `became_ticket` edge that makes every later promotion of the item fail.

*Audio.* A cut at the cap may hold less speech than `stream.rs:28` promises. System audio
that begins after a silence is stamped before the fill that is still to come, which
`with_clock_origin` says does not happen.
