# Formal models of CloudNVR

TLA+ specifications of CloudNVR's cloud and agent, translated from the Go code,
model-checked with TLC, with theorems that TLAPS checks.
File and line references are relative to the repository's root.

## 1. The system

A *cloud* process (`cmd/cloud`, `internal/cloud`, `internal/store`) serves
viewers and administrators over HTTP and keeps its durable state in MariaDB. On
every site one *agent* process (`cmd/agent`, `internal/agent`,
`internal/media`, `internal/onvif`) runs next to the cameras. The agent is
behind NAT: it opens every connection, and whatever the cloud wants of it waits
in a broker until the agent's next long poll. Video goes through FFmpeg
processes and MediaMTX, outside of this code.

### Components

| component | code | state | operations |
|---|---|---|---|
| PTZ command channel | `internal/cloud/ptz_broker.go`, `ptz_handlers.go`, `runPTZCommands` | in memory: a queue and a one-slot notice channel per site, pending commands each with a one-slot result channel | enqueue, abandon, next (long poll, 20 s), resolve; request (10 s), execute, report |
| WebRTC signalling tunnel | `webrtc_broker.go`, `media_handlers.go`, `webrtc_handlers.go`, `runWebRTCRequests` | the same, with several workers per agent, 15 s per request, clean-up at 30 s | enqueue, next, resolve outside of the lock, fallback |
| Remote playback | `playback_broker.go`, `recording_handlers.go`, `servePlaybackRequest`, `UploadPlayback` | in memory: requests with a status and a time; on disk: the cache directory | prepare, status, next, upload, reject, requeue/ready/fail, clean-up by age and size, retries |
| Recording inventory | `runInventorySync`, `syncAgentRecordings`, `UpsertRecording*`, `ReconcileRecordingInventory`, `ScanRecordings` | the agent's files and last inventory file; the table `recordings` with tokens | full and incremental synchronisation by pages, row by row; pruning |
| Recording storage identity | `internal/media/storage.go` | a marker on the storage, an identity file beside the agent's state | EnsureRecordingStorage from three goroutines |
| Camera configuration and FFmpeg workers | `store.go`, `server.go`, `agentConfig`, `syncCloudConfiguration`, `reconcileMedia`, `relay.go`, `recording.go` | camera rows; remoteState and its file; maps of workers, goroutines | administrator's changes, fetch, save, set, reconcile by two loops, restart of FFmpeg |
| Enrollment and identity | `EnrollAgent`, `main`, `saveState` | one-time token of a site, the agent's row, the agent's state file | enroll, reset, authenticate |
| Presence | `Heartbeat`, `TouchAgentPresence`, `MarkStaleAgentsOffline` | status and last_seen_at of an agent | heartbeat, throttled touch, sweep |
| Mobile pairing | `mobile_handlers.go`, `ClaimMobilePairing` | pairing tokens, device sessions | create, claim, expire, revoke |
| Retention and free space | `EnforceMinimumFreeSpace`, `Prune*`, `PopulateChecksums` | files and rows | removal of the oldest, pruning by age |
| Cloud recording, direct cameras | `cmd/cloud/main.go` | a second pair of managers | one loop each |
| ONVIF | `internal/onvif/ptz.go` | none of its own: the camera's motor | discover, ContinuousMove, Stop, presets |
| Exports, timeline | `recording_handlers.go` | temporary files | read files, one FFmpeg call |
| HTTP API, configuration, encryption, dashboard, deployment | `server.go`, `config.go`, `security.go`, `web/`, compose files | none that other parts rely on | |

### How they interact, and what is hard about it

- *Brokers* are shared by browser requests and polls under one mutex each. What
  is hard: the poll unlocks before it sleeps; a poll whose connection broke runs
  on beside its successor and may take the token or the command meant for it;
  requesters give up at any moment; results arrive late; either side restarts
  and the brokers persist nothing.
- *Playback* adds files: the status of a request, the cache directory, and an
  upload that the agent may have abandoned and begun again are changed by
  different handlers in between lock regions, while requests and files age.
- *The inventory* is a conversation of several requests, each a sequence of
  single-row transactions, about files that change meanwhile. Any request or
  save may fail half-way, a request may run on after the agent gave it up, and
  the storage may disappear.
- *Three agent loops* (heartbeat, configuration, inventory) call
  EnsureRecordingStorage, and two of them reconcile the same managers with
  configurations they read at different times. Only the managers have a mutex.
  Two of them remove files, and one of these lists them.
- *Identity* is a token, a row, a file and a process that change one after the
  other. A request is authenticated once and then writes in several statements,
  between which another agent may have taken the row.
- *ONVIF calls* may be carried out without an answer, and two commands reach the
  same camera at once when no agent is between.
- *The cloud's own recordings* are written by FFmpeg while the loop moves, lists,
  hashes and removes them.
- *Restarts*: what survives is the state file, the identity file, the
  configuration file, the inventory file and the database.

### What makes each component correct

- PTZ: a camera moves at most once per request; a requester is told only what
  happened; no step under the mutex can block; requests end; nothing leaks.
- WebRTC: a browser is answered by a media server that was asked once, or falls
  back; workers do not serve browsers that left; every exchange ends.
- Playback: what is served is a whole, verified file; the cache keeps its limit
  and does not throw away more than it must; a lost offer is not lost for good.
- Inventory: rows are those of existing files, and no row of an existing file is
  deleted; failures heal. The code keeps this but in the window between the check
  of the storage and the scan (section 5).
- Storage: once there is an identity file the binding is never made anew on whatever
  is mounted.
- Identity: a token makes one agent; a site is not shown offline while its agent is
  heard; the version shown of an agent is its own or empty. Its health columns are
  its own from its first heartbeat on: an enrollment does not reset them
  (`store.go:135-138`), so that until then the list of sites shows those of the agent
  it replaced (`store.go:89-115`).
- ONVIF: what a successful command set in motion is stopped; home is where it was
  set; a camera's presets are not used up.
- Cloud recordings: rows of segments that are there stay, unless the storage goes
  between the check and the end of the scan of a round; the oldest segment goes
  first when room is needed, and checksums become those of what segments hold.
- Media: every running worker can be stopped; workers end up doing what was
  configured last; without a cloud, or without a storage, the rest goes on, and
  recorders start again with the storage, but for those whose directory could not be
  made.

`PROJECT.json` lists the components with their status, and the hazards with
their lines and the properties that would show them going wrong.

## 2. Modules

| module | models | status |
|---|---|---|
| `Mailbox` | what a broker promises: jobs offered, taken, performed, answered at most once, honestly | abstract |
| `PtzBroker` | the PTZ channel with its handlers, agents, failures | implements `Mailbox` |
| `PtzBroker_proofs` | theorems about it | proved |
| `WebRtcBroker` | the signalling tunnel | implements `Mailbox` |
| `WebRtcBroker_proofs` | theorems about it | proved |
| `PlaybackBroker`, `PlaybackBroker_proofs` | remote playback and its cache | proved |
| `Timeline` | what the rows promise about the files: they follow, never ahead, never back, and none goes without a reason | abstract |
| `Inventory`, `Inventory_proofs` | the synchronisation of the agent's recording inventory | implements `Timeline`, proved |
| `StorageBinding` | the storage identity | proved in `Storage_proofs` |
| `AgentMedia`, `AgentMedia_proofs` | configuration, reconcile, workers | proved |
| `OnvifPtz`, `OnvifPtz_proofs` | PTZ commands at the camera | proved |
| `AgentIdentity`, `AgentIdentity_proofs` | enrollment, credentials, presence | proved |
| `CloudRecordings` | the cloud's recording loop with retention, free space and checksums | implements `Timeline`, proved in `Storage_proofs` |
| `Storage_proofs` | theorems about the two modules on `internal/media/storage.go` | proved |
| `MC*` | instances for TLC | |

"proved" means that theorems about the module are checked, not that all of its
properties are theorems; section 4 says which.

Every module is parameterised by CONSTANTS with named assumptions. A variable is
called as in the code where there is one. Counters that would grow for ever are
bounded by constants marked "bound". Operators whose comment begins with
"mutant" are plausible mistakes, listed in `PROJECT.json`: each property is
known to fail when such an operator takes the place of the real one.

### PtzBroker

A command and the request that made it are one value, since its ID is fresh. `queues`,
`notices`, `pending` are the maps of `ptzBroker`; `result` is the one-slot channel of
an entry. Each critical section is one step: `Enqueue` (with `Kept` for the full
queue), `Pop` or `FindEmpty` in `next` up to the unlock, then the select in steps of
its own, so that an enqueue can fall in between; `Resolve`, which `ReportArrives` and
`StrayReport` call, and `Abandon`. A *poller* is one run of `nextPTZCommand`. A site
may have several: `BreakPoll` lets the agent go on while the handler does not know,
which is how one slow connection makes two polls. `Deliver` writes the command to
whoever still listens. `Execute`, `ReportReturns` are the agent's loop: it reports
once and goes on whatever the reply. `CloudRestart` forgets everything; an agent that
executes survives it and reports to the new broker. `StrayReport` is a result with the
ID of a pending command of another site, at any moment, which the test
`TestPTZBrokerRejectsResultFromAnotherSite` is about; `Accepts` is the check that
refuses it. Commands for cameras with direct access call ONVIF in the handler and do
not use the channel.

### WebRtcBroker

Differs from PtzBroker where the code does: there is no limit on the queue;
`next` skips exchanges that are no longer pending; `resolve` deletes under the
mutex and sends afterwards (`claims` are those in between); requesters pass
15 s and entries 30 s (`Age`); several workers of an agent poll at once. A response
is the site whose agent posts it and the exchange it names: `ResponseArrives` is one
of the worker that proxied it, `StrayResponse` one that another site's agent posts
under the ID of a pending exchange, and `Accepted` the entry that `resolve` removes
for either, after its check of the site. `View` are the exchanges for a page, which
`agentWebRTC` sends to the cloud's own WebRTC when the response has an error status
(`AnswersFor`); other responses reach the browser whatever their status.

### PlaybackBroker

Request IDs are numbers in order of creation. Time is a class per request
(`age`: young, over the request TTL, over the upload lease) and, for files, how
many of the oldest are over the cache TTL (`expired`): every order of the
limits that the clock allows is reachable, none that it does not. Segments have
one size, so the limit counts files. `handler` is a run of the upload handler
between its file operations: create and copy, verify, rename, `ready`, or
`requeue`/`fail`. The clean-up that most broker operations begin with
(`CleanRequests`) is part of those actions. The code's clean-up visits requests
in Go's random map order; only the expiry of two ready requests of one
recording depends on it, and the model leaves the removal of the shared file to
whichever is over age. Temporary files are files of the cache directory, as
`enforceCacheLimitLocked` sees them; their names (`.upload-*`) are never a
recording's (`NamesAssumption`). What over-age ready requests take along is
`TakenAlong`; what the other ready ones then look for and do not find, `Missing`.

### Inventory

Files have versions (what a row copies). `Scan`, `SendPage`, `PageReturns`,
`Commit`, `SaveFails`, `RequestFails`, `GiveUp`, `AgentRestart` are the stages
of the agent's round; `HandleCurrent` and `HandleLate` are the handler, one row
per step, `Reconcile` the deletion of rows with another token, then the pruning.
`Meanwhile` says what may happen to the storage between the check of the marker and
the scan, or beside it: "unmount" lets it go, "remove" lets the configuration
loop remove a file that the scan is about to remove (`Walk`). Without either the
storage goes at any other moment. `LateRequests` lets
a request run on after the agent has given it up. The token of a full
synchronisation is one that nothing holds, as the code's random ones are
(`FreshAssumption`). The set of cameras is fixed
here; in CloudRecordings cameras come and go.

### Timeline

What the table `recordings` is for, whoever fills it: `version` is how often a file
has been written to, `lost` are files that are gone or too old, `unseen` are files
that were hidden from whoever fills the table, `row` is the version a file's row is
of. Files change on their own (`FilesChange`); `Record` moves rows forward, to a
version their files have reached; `Forget` takes rows of files that are lost, unseen
or not what the row says. `unseen` is empty in Inventory, and the segments that a
round missed (`missed`) in CloudRecordings. Inventory maps a deleted file to one that
is lost and changed for good (`Rows`), CloudRecordings one that is in staging or
removed to one that is lost. A file may be found again, when it is moved to its
directory or written to after it was too old, but then its row is not what it is.

### StorageBinding

A thread is a goroutine that calls EnsureRecordingStorage again and again. The
reads of the two files, and the truncation and the write of each, are steps.
`marker` has a value for the storage and one for the directory under its
mountpoint; `target` is the file a call has open, since a mount that changes
does not move an open file. Adopting a marker is `Adopt`, making an identity
`Create`; every other combination of the two files returns (`Judge`). Any of the
writes may fail, for a reason of the file system or because the storage went with its
marker open (`WriteFails`), and the agent may die at any of them (`Crash`): both
leave what was opened torn. `Unsure` are the calls that read that there is no
identity file; nothing takes that reading back, so they may write later. `attached`
says whether the path leads to the storage. The names of the module differ from
those of CloudRecordings, so that `Storage_proofs` may extend both.

### AgentMedia

`cameras` are the rows, changed by one statement of a handler each. A
configuration carries the number of the change it was taken after, so that
older and newer can be told apart. The configuration loop (`Fetch`,
`SaveConfig`, `SetRemote`) and the inventory loop (`GetRemote`) both go through
`reconcileMedia`, whose stages `local`, `relay`, `check`, then `recorder` or
`pause` are its calls: a manager's Reconcile is one step, under its mutex.
`workers` is a manager's map with the fingerprint; `procs` are the goroutines,
which live on for a while after they were cancelled. A recorder begins by making its
directory (`Launch`); without a storage it returns and leaves its entry in the map
(`Refused`), which the history `refused` remembers until an entry is made anew.
`WorksOffline` and `RecordersReturn` speak of goroutines that run, not of the map.
FFmpeg's exits, the delay and the restart are inside "run": no property depends on
them. `usable` is what
EnsureRecordingStorage and EnforceMinimumFreeSpace find out. `Restart` restores
the saved configuration and reconciles before the other loop begins, as `main`
does; the FFmpeg processes end with the agent's container.

### OnvifPtz

One step per SOAP call of `Move`, `SetHome` and `GotoHome`, with `discover`
before each. A call is carried out and answered, carried out and not answered, or
not carried out; the last two are the same error to the code. `behind` and
`native` are chosen once: whether an agent's loop runs one command after the
other or the cloud one per request, and whether the camera has the optional home
operations. `NativeRefused` is the fallback to the named preset that any error of
the native operation leads to. `left`, `expected` and `refused` are histories:
what a failed command may have left in motion, where the user may take home to
be, whether a native operation of the camera has failed. While an axis moves the
position may become any other (`Drift`).

### AgentIdentity

One site. An agent is the number of its enrollment, which stands for the random ID and
token. `env`, `file` and `proc` are an installation's ENROLLMENT_TOKEN, its state file
and its process, which Docker starts again; `Start` follows `main`: the file decides
alone, and one that is torn ends the process each time. `Enroll` is the transaction
with its answer, which may be lost. A request is authenticated (`Authenticate`),
touches the presence (`Touch`) and may be a heartbeat (`Heartbeat`), in three
statements between which another agent may enroll or the sweep may run. `version`
stands for the columns that an enrollment resets, `health` for those that it leaves
(the number of the agent they are of). Times are ages on the database's clock, in
units of 30 s in the instance; the sweep may be late without limit.

### CloudRecordings

`syncCloudRecordings` as the stages load, space, scan, hash, index, reconcile, prune,
each one call or one loop over calls, beside FFmpeg that opens segments and writes to
the one it has open wherever the scan has moved it. `older` is the order of
modification times, as pairs of what is on the storage; `Oldest(T, n)` are the n files
that a list of T sorted by it begins with. `settled`, `cold` and `aged` are the three
ages the code asks for: 10 s, two segment times, the retention. The storage may go at
any moment (`FlipStorage`). When it goes between the check of the marker and the scan,
or in the middle of the scan (`ScanCutShort`), or when an entry cannot be read,
`missed` are the segments which that round did not see: the code takes the list for
complete and deletes their rows, and so does the model. `Hash` reads what the sidecar
is to say of a segment (`stat`) before the content (`sum`), which FFmpeg may have
written to in between; `Prune` fails for each camera on its own. A version of a
segment stands for its size, its time and its content, so `side` and `rowSum` say of
which version a checksum is. Failures of single files, rows and statements are
`Event`s. All segments have one size, so space counts segments.

## 3. Runs

Twelve runs. Ten finish without an error within a few minutes; `inventory_scan` and
`agent_refused` find what they are expected to find, where the code does not do what
a comment and the repository's README say.

| run | instance | shows |
|---|---|---|
| `ptz_live` | 2 commands and 2 polls of a site, a second site that reports, queue limit 2 | a send under the mutex never blocks; at most one execution; results of another site are refused; answers are honest; no enqueue goes unheard; the channel implements `Mailbox`; queues drain, requests end |
| `webrtc_tunnel` | 2 exchanges, 1 of them for a page, 2 workers of a site, a second site that posts | accepted responses fit; an answer is of the media server of its site; workers skip those who left; implements `Mailbox`; exchanges end, queues drain |
| `playback_cache` | 2 recordings, cache of 1 file, 1 handler, 2 requests, 2 attempts, a restart | the limit, whole and verified files, no needless eviction, a lost offer or dead agent does not leave a request uploading |
| `inventory_sync` | 2 files, 2 versions, pages of 1, 1 fault, the storage goes between rounds | a complete full synchronisation is exact; increments build on stored rows; no row of a file that is there as the row has it is deleted; implements `Timeline` |
| `inventory_live` | 1 file, late requests, 1 fault | the rows become the files |
| `inventory_scan` | 2 files, removals beside the scan, no fault, symmetry; violation | a scan that ends at a file somebody else removed passes for a whole one, and rows of existing files are deleted |
| `storage_binding` | 2 threads, 3 identities, 1 crash or failed write, 2 changes of the mount | with an identity file, bound for good; an interrupted binding is completed |
| `agent_media` | 1 camera, local restream, 2 changes, 1 restart, 2 changes of the storage | no orphan worker; a restart keeps the configuration; workers follow the cloud; without it what the agent has is what runs, but for refused recorders; recorders pause without a storage |
| `agent_refused` | the same; violation | a recorder that found no storage for its directory is not started again when the storage is back |
| `onvif_ptz` | 2 commands, 2 axes, 2 positions, symmetry | nothing moves that no command moves or has left; home is where it was set; presets are reused |
| `agent_identity` | 2 installations, 2 tokens, 2 failures, throttle 1, stale 3 | presence is truthful; the version is the agent's own, its health from its first heartbeat on; one agent per token; a fresh token leads to a connected agent |
| `cloud_recordings` | 2 cameras with a segment each, 2 versions, room for 2, minimum 1, 1 checksum a round, 1 event | no row of a segment that is there as the row has it is deleted but by a round that missed the segment; implements `Timeline`; the oldest goes first; rows and checksums become those of the segments |

### Why the bounds are enough

- *PTZ, WebRTC.* Commands of a site meet in the queue, in the notice channel and
  in the agent. Two commands and two polls make every pair meet, and may leave
  one token for two polls, which takes a queue with room for both. Restarts, broken
  polls and lost reports are not bounded. The second site has no camera: it is there
  for what its agent reports. What the instance of `ptz_live` does not reach is a full
  queue: with a third command it has 9 million states. That a dropped command is
  answered "queue is full" and never executed, that the send of this answer does not
  block, and that the mailbox is still implemented, is proved for every limit
  (`AnswersAreHonest`, `NeverBlocks`, `ImplementsMailbox`), and so is that commands
  only reach agents of their own site, for any number of sites.
- *Playback.* With a cache of one file every second file is over the limit.
  Two requests are enough for a shared file (the second made after the first
  failed or was deleted) and for two recordings in competition. With a single
  upload handler uploads of one recording do not overlap; with two that do,
  `KeepsFreshFiles` does not hold, here nor in the code: the first request is
  older than the file the second one brought and takes it along. For any number of
  handlers that do not meet at one recording it is a theorem, as are the other
  safety properties for those that do.
- *Inventory.* Pages of one make two files two requests, between which anything
  may happen; five tokens are one more than two rows, a request and a late one can
  hold at once, and four for the one file of `inventory_live`.
- *Storage.* The third identity lets both threads make one while the storage has
  its own. Two changes of the mount are away and back. The one fault may be a crash or
  a write that fails, at any stage of a call.
- *Media.* Cameras meet only in the question whether there is any, which one
  camera answers both ways. Two changes are create and change; with the six
  settings every field changes. Without a restream there is one manager less
  and nothing else is different.
- *ONVIF.* Commands meet at the camera in pairs; the number of calls, failures and
  commands is not bounded. The instance includes cameras behind an agent, with
  one command at a time.
- *Identity.* A second installation is a replacement, a second token a reset; both
  may compete for either token. Two failures are a lost answer and a failed save.
  Three units tell throttle and limit apart; the theorems are for all intervals.
- *Cloud recordings.* Two segments are enough for an order and for a round that stores
  one and fails at the other; one camera each, so that a change of mode takes one of
  them out of the round. With one checksum a round the second one waits for the next.
  The single event may be a failure of any call, a restart, a change of mode or the
  loss of the storage, at any moment; two of them make the instance four times as
  large.

### Fairness

Fairness is stated for code that runs by itself: handlers whose mutex is
released after bounded work, timers (the 20 s of a poll, the 10, 15 and 30 s of
requesters, the age of requests and files), the agent's loops with their
tickers, a cancelled goroutine. Nothing makes a network deliver: a poll may
break each time, unless a property's premise says otherwise. `FollowsCloud`
assumes that configurations keep arriving, `Converges` that the storage comes
back for good, `WorksOffline` that it does and that the agent knows a camera. In
PlaybackBroker viewers go on asking for the status and the agent's poll is
strongly fair for each request, as the queue is served in order of creation. In
Inventory a scan that can succeed again and again does at some point. In
`agent_media` the cloud's answer has no fairness, and a recorder that was started
goes on to make its directory or is refused. In AgentIdentity fairness is
what `main` does without waiting for anybody, and Docker's restart. In
CloudRecordings it is the ticker and the ageing of what is not written;
`CloudConverges` assumes that the storage comes back and that rounds again and
again get past the check of the free space.

## 4. Proofs

All theorems hold for every value of the constants that the named assumptions of
the module allow: all sets of sites, commands, workers, goroutines, cameras,
callers or installations, and all limits and intervals. The bounds of section 3
are TLC's only, but for those that are constants of a module (edits, restarts,
faults, tokens), where the theorem is for every bound.

### PtzBroker

| theorem | states |
|---|---|
| `TypeCorrect` | `Spec => []TypeOK` |
| `NeverBlocks` | `Spec => []SendsNeverBlock` |
| `NoForgottenEntry` | `Spec => []PendingIsOwned` |
| `OnceOnly` | `Spec => []AtMostOnce` |
| `AnswersAreHonest` | `Spec => []HonestAnswer` |
| `CommandsStayHome` | `Spec => []QueuesInBounds` |
| `ImplementsMailbox` | `Spec => IsMailbox` |
| `WakeupsAreKept` | `Spec => NoMissedWakeup` |
| `OnePollIsWoken` | `OnePollOfASite` implies that a poll which sleeps has an empty queue |

`TypeInv` adds to the types that an agent has a command when it executes one and
a handler when it delivers one. `ChannelInv` adds that an entry's result channel
is empty, that entries have requesters, and that a command nobody has requested
yet has touched nothing; it is inductive by itself and gives the first three
theorems.

At-most-once and honesty are not inductive: a step may execute a command only
because the command is nowhere else and was never executed. `PlaceInv` says, for
each place a command can be in (a queue, a handler's hands, an agent's job, a
report on its way, a result channel), that it is there once, belongs to the site
of that place, and whether it was executed: not before the agent's job, exactly
once from the report on. A dropped command with "full" in its result channel is
nowhere. `CommandInv == ChannelInv /\ PlaceInv` is shown to hold initially
(`CommandInit`) and to be kept by every step (`CommandStep`), with a lemma for
each kind of step: enqueue, pop, deliver, execute, resolve, answer, forget,
restart of the cloud, and steps that leave the places alone. The lemmas on
queues (`TailFacts`, `AppendFacts`, `KeptFacts`) say what popping, appending and
dropping the oldest do to the members of a queue without duplicates.

The refinement rests on `CommandInv` and on who may hold a command (`MailInv`).
`Where(c)` says where a command is in the abstract mailbox by where it is in the
channel: in the queue, in somebody's hands (a handler's or an agent's), or neither.
`MailboxStep` shows for each action which action of `Mailbox` it is (`EnqueueMaps`,
`PopMaps`, `ExecuteMaps`, ...) or that it is a stutter; `PlaceInv` is needed because
a pop must take the command out of the only place it is in.

`NoMissedWakeup` is about steps and any number of polls: `Unheard(s)` is a site whose
commands wait beside a poll that is about to sleep or sleeps, with no token and no
other poll on its way to the queue. `HeardStep` shows that the only step that leads
there is a poll, woken or newly come, that takes a command and leaves another: no
enqueue does it, and no end of a poll, whichever side of the unlock and of the select
it falls on. That the code does go there with two polls, which share one token, is
what `QueueDrains` answers for: the second poll sleeps at most until its 20 s are
over. With one poll of a site at a time (`OnePollOfASite`, which an agent satisfies
whose earlier polls the cloud has seen end) it cannot be: `WakeInv` says that no poll
sleeps beside a queue that is not empty, and that one on its way to the select has a
token if its queue is not, and is inductive.

### The other modules

| module | theorem | states |
|---|---|---|
| WebRtcBroker | `TypeCorrect` | `Spec => []TypeOK` |
| | `ResponsesFit` | `Spec => []ClaimedResponseFits` |
| | `WorkersServeTheWaiting` | `Spec => NoWorkForTheGone` |
| | `AnswersComeFromTheSite` | `Spec => []AnswersAreReal` |
| | `ImplementsMailbox` | `Spec => IsMailbox` |
| PlaybackBroker | `TypeCorrect` | `Spec => []TypeOK` |
| | `CacheIsVerified` | `Spec => []CacheHoldsVerified` |
| | `LimitHolds` | `Spec => []SettledWithinLimit` |
| | `FreshFilesAreKept` | `Spec /\ []OneUploadOfEach => KeepsFreshFiles` |
| Inventory | `TypeCorrect` | `Spec => []TypeOK` |
| | `FullInventoryIsExact` | `~LateRequests` implies `Spec => []CompleteIsExact` |
| | `TimelineSurvives` | `~LateRequests` and `Meanwhile = {}` imply `Spec => TimelineKept` |
| | `ReportedIsIndexed` | the same imply `Spec => []PreviousIsIndexed` |
| | `ImplementsTimeline` | the same imply `Spec => IsTimeline` |
| StorageBinding | `BindingTypes` | `BindingSpec => []BindingTypeOK` |
| | `BindingIsForGood` | `BindingSpec => BoundForGood` |
| CloudRecordings | `TypeCorrect` | `Spec => []TypeOK` |
| | `CloudTimelineSurvives` | `Minimum # 0` implies `Spec => CloudTimelineKept` |
| | `OldestAreRemoved` | `Spec => OldestGoFirst` |
| | `ImplementsTimeline` | `Minimum # 0` implies `Spec => IsTimeline` |
| AgentMedia | `TypeCorrect` | `Spec => []TypeOK` |
| | `NoWorkerEscapes` | `Spec => []NoOrphanWorker` |
| | `RestartsGoForward` | `Spec => []RestartKeepsConfig` |
| OnvifPtz | `TypeCorrect` | `Spec => []TypeOK` |
| | `NothingMovesUnnoticed` | `Spec => []MovesAreAccounted` |
| | `PresetsAreReused` | `Spec => []PresetReused` |
| | `HomeIsKept` | `Spec => HomeIsWhereSet` |
| AgentIdentity | `TypeCorrect` | `Spec => []TypeOK` |
| | `TokensAreOneTime` | `Spec => []OneAgentPerToken` |
| | `PresenceHolds` | `Spec => []PresenceIsTruthful` |
| | `HealthHolds` | `Spec => []HealthIsOwn` |

- *WebRtcBroker.* `EntryInv`: an exchange with an entry in the broker is not claimed,
  has an empty result channel and was not sent away; a claimed one has an empty
  channel; a new one has neither. It gives `ResponsesFit`, and
  `WorkersServeTheWaiting` because `next` pops only what has an entry. Where an answer
  comes from needs `WayInv`, in four parts (`QueueInv`, `CarriedInv`, `JobInv`,
  `DoneInv`): a queue holds no exchange twice and only those of its site; an exchange
  is in one place of its way, queue, handler or worker; and the media server was not
  asked for it before the worker's job, and once when there is a response of its own
  site (`Posted`), a claim or an answer. Responses that other sites' agents post claim
  nothing, because `Accepted` compares the sites: without this comparison `DoneInv` is
  not inductive, and TLC refutes `AnswersAreReal`. The refinement adds `HandInv` (what
  a worker holds fits the stage of its poll and of its loop) and maps each action as
  for the PTZ channel.
- *PlaybackBroker.* What the operators on the directory do is proved first:
  `Without` keeps the files it should, once each (`WithoutFacts`), and `Evict` leaves
  what fits and takes nothing when all does (`EvictFacts`). `TypeInv` says that names
  are unique and that a temporary file is its handler's, before that has renamed it,
  and whole once it is copied; with it a rename finds the file of its own upload
  (`RenameOK`) and `AllVerified` is inductive. For the limit, `Promised` are the
  files whose request ran ready: after a clean-up and after ready all that is left
  fits, and no other step makes one more file promised, which is a count along an
  injection (`CountFewer`). The rename is the case that needs an argument: what it
  puts under a recording's name may be of a request that is ready already, and is
  not promised because its handler has yet to run ready again. `FreshFilesAreKept`
  rests on three facts that are inductive together: of the requests for a recording
  at most one is alive (`OneAlive`), a handler's recording becomes ready through that
  handler only (`ServesOwn`), and a ready request is as old as the file under its
  name (`ReadyOwns`), so that no request's age takes a file along. The hypothesis
  `OneUploadOfEach`, that no recording is uploaded by two handlers at once, speaks of
  the behaviour: it holds as long as no agent gives an upload up, or restarts, before
  the cloud's handler has noticed, and TLC shows with two handlers that it cannot be
  left out.
- *Inventory.* `SyncInv` ties the request on its way to the round that sent it;
  `FullInv` says of each file's row what it holds, given which files the handler has
  been through, which is exactness once the last request has been answered. `KeepInv`
  is about versions: what a row, the memory or the scan has of a file was listed once
  (`Known`), that is, it is older than the file or the file has settled. So a scan
  misses such a file only for a reason (`Excused`): it is deleted, newer or over age.
  Neither is ever taken back (`ExcusedStays`). What is remembered has a row or a
  reason, and what an increment need not send has too; and no row is newer than what
  the scan saw, so that it never goes back. `HandleKeeps` says what one step of the
  handler does to all rows: it writes what the scan saw, or takes rows of files that
  the scan did not see or that are too old. These are `Record` and `Forget`; every
  other step is `FilesChange` or a stutter (`RowsStay`, `FilesFacts`). The
  hypotheses cannot be left out: with late requests TLC refutes all properties but
  the types, with either of `Meanwhile` all but the types and `CompleteIsExact`, and
  both are what the code does (sections 3 and 5).
- *StorageBinding.* `BindInv`: only a call that read that there is no identity file
  is on its way to write. So, once there is one, a call that writes is among those
  that began before (`Unsure`), a call that begins reads it and is none of them, and
  when the last of them has returned nothing writes (`BoundStep`).
- *CloudRecordings.* `TypeInv` adds to the types that what is on the storage is a
  finite set of segments with a version. `RowsInv` says that no row and no listing is
  ahead of its segment, and that a placed segment which they have as it is has
  settled; `RoundInv` that a storage which is gone at the scan has been there at the
  check, so that the round has missed all that is placed, and that from the scan on a
  row of the round's cameras whose segment is not listed has a reason to go
  (`Excused`) or was missed. The first makes the second hold at the scan, and nothing
  that FFmpeg, or a storage that comes and goes, does later takes a reason away
  (`FFmpegKeeps`, `CalmStep`); a row is deleted in a round only for one of the two
  (`RowsGoExcused`). `Minimum # 0` is needed for the check: without a minimum the
  marker is not asked for, and TLC refutes the property (section 5). For the
  refinement, `FreshInv`: what is in staging has no row and is not listed, so it is
  found as a new file, and no row is newer than what the round has listed, so none
  goes back. `OldestGoFirst` counts: the place of a segment among the candidates is
  how many of them are before it, places grow with the order (`BeforeFacts`), so what
  `Oldest` leaves is newer than what it takes (`OldestIsOld`), and since no two have
  one place it takes no more than it is asked for, by an injection into 1..n
  (`OldestIsFew`).
- *AgentMedia.* `WorkerInv` adds to `NoOrphanWorker`, which is inductive with it,
  that local relays run only with WebRTC. `RevInv` orders the configurations by
  what they were taken from: workers, memory, file and the cloud's rows, where each
  is not newer than the next; what the configuration loop fetched lies between the
  memory and the rows, and is what the file holds once saved.
- *OnvifPtz.* `Accounted` names for each moving axis a command between its
  ContinuousMove and its Stop, or the failure that left it. For presets and home,
  `Alone` says that behind an agent at most one command is not idle; `PresetInv`
  bounds the presets and the callers about to create one by the limit; `HomeInv`
  says, behind an agent and as long as nothing was refused, that a native camera
  has no preset and its home, if any, is a position the user expects, and that of
  another camera all presets are (`OnePreset`).
- *AgentIdentity.* `IdentityInv` is the type invariant and `OneAgentPerToken`, which
  are inductive together. `PresenceInv` adds to `PresenceIsTruthful` that what was
  written down lags what was heard by at most the throttle (`Lag`). `HealthIsOwn`
  is inductive on top of `IdentityInv`, because a heartbeat is written only under
  the ID of the row, version and health in one statement, and an enrollment resets the
  version and leaves the health, which then is a predecessor's.

### Only model-checked

Liveness, since leads-to under fairness is beyond the prover: `QueueDrains`,
`RequestsEnd`, `ExchangesEnd`, `LostOfferRecovers`, `Converges`, `HalfBoundRecovers`,
`FollowsCloud`, `WorksOffline`, `PausesWithoutStorage`, `FreshTokenEnrolls` and
`CloudConverges`. Every invariant and every action property of a passing run is a
theorem. The type invariants of all modules are theorems and not part of a run: the
runs are for what a small instance could refute. The two refinements of `Mailbox` and
the two of `Timeline` are of their safety; neither abstract specification states
fairness.

What the proofs changed in the models: two guards of the CASE in PlaybackBroker's
`Cleaned` overlapped, where TLC takes the first and TLA+ promises neither; the fresh
token of Inventory needed an assumption that there is one; the cases of the
refinement mappings (`Where`) were made to exclude each other; the order of
modification in CloudRecordings was a sequence that was filtered, and is a relation,
which its proofs can speak of; and the properties of the timeline said of a file that
has changed only that it was written to more than once, and now say that it is not
what its row, or the agent's memory, has.

## 5. What the code does not promise

The two violations are described under `findings` in `PROJECT.json`. While writing the
models some other behaviour of the code became visible that no text of the
repository excludes, or that the models were adapted to:

- The marker is checked before the scan, by the agent (`cmd/agent/main.go:415`) and by
  the cloud (`cmd/cloud/main.go:103`, scan at 135, deletion of rows at 161). A storage
  that goes in between looks empty, and one that goes during the walk looks as if it
  ended there, and rows of segments that exist are deleted, although the comment at
  `storage.go:23-25` says that a missing marker stops reconciliation "instead of
  erasing the timeline". For the agent TLC finds it in `inventory_scan` with "unmount"
  in place of "remove" in `Meanwhile`; in CloudRecordings it is part of the model, and
  `CloudTimelineKept` and `Timeline` except the rows of the segments which the round
  missed (`missed`), and no others.
- The same happens to the agent without any loss of the storage, when two of its loops
  remove the same file (`recording.go:169-175`): run `inventory_scan`.
- An increment inserts rows and never changes them (`store.go:310`), although
  README.md:88 speaks of modified files: their rows are right again with the next
  full inventory. A checksum that is computed later takes the same time.
- With CLOUD_MIN_FREE_BYTES=0 the cloud does not ask for the marker of its storage
  at all (`storage.go:81`): a mount that is gone erases its timeline. The properties
  of CloudRecordings are stated for a minimum that is not 0.
- A storage that is full of staged or recent segments stays below the minimum, and
  every recorder of the cloud stays stopped, until somebody makes room.
- Rows of a camera that is no longer recorded, by the cloud or by the agent, stay,
  and are not pruned either. When a camera moves to direct access, the agent's next
  increment reports its recordings as deleted, which is refused with 400
  (`recording_handlers.go:445`) each round until the next full inventory.
- An enrollment whose answer is lost, or whose state file cannot be saved, cuts
  off the agent that was connected, though README.md:268 says it stays connected
  until the new one has enrolled, and leaves the site without one until the token
  is reset. A torn state file ends the process at each start, with a new token
  too, and an installation with a state file ignores a new ENROLLMENT_TOKEN.
- A ContinuousMove that is carried out without an answer, and one whose context
  ends during its 350 ms, is not stopped (`internal/onvif/ptz.go:101-110`). A native
  SetHome whose answer is lost leaves home in two places. The comments at
  `ptz.go:71-73` and 98 say otherwise of a Move; `MovesAreAccounted` does not forbid
  it, and says that nothing else leaves a camera in motion.
- After a re-enrollment the list of sites shows the health columns of the replaced
  agent until the first heartbeat of the new one (`store.go:89-115`, 135-138).
- Segments that cannot be removed are skipped when room is made (`storage.go:128`), and
  newer ones go in their place. Which ones cannot be removed is a choice within one
  step of the model, so `OldestGoFirst` speaks of the order when all of them can, and
  of the number in every case.
- Two exchanges may leave one token for two idle WebRTC workers
  (`webrtc_broker.go:45-50`): the second one is picked up when a worker comes
  back, at the latest after 20 s.
- A ready playback request whose file expired or was evicted is queued again,
  and the agent transfers a segment nobody asked for anew.
- A playback request is deleted ten minutes after its last change, also while it
  is uploading: the retry of a longer upload is answered 404.
- The complete request of an older inventory that runs late deletes what a newer
  one has marked, until the next full inventory.
- Two goroutines that bind the storage for the first time at once
  (`storage.go:30-63`) may leave a marker and an identity file that differ, for good:
  `BoundForGood` says that nothing writes to them once both calls have returned, not
  that they agree. A crash, or a write that fails, inside the write of the identity
  file leaves it empty for good.
- A recorder whose directory cannot be made leaves its entry in the map
  (`internal/media/recording.go:97-99`), and no reconcile starts it again, although
  README.md:231 says that recorders start again by themselves: run `agent_refused`.
  Its fingerprint must change, its camera be disabled, a check find the storage gone, or
  the agent restart.
- An agent whose last camera was removed does not reconcile in the inventory
  loop (`cmd/agent/main.go:200`): workers which that loop started late run until
  the next configuration arrives.

## 6. Not modelled

Mobile pairing is one SQL statement or one transaction with a conditional update
per operation. Exports read files and call FFmpeg once; their temporary files in
the playback cache are left out. The loop of direct cameras is one relay manager
of AgentMedia with one loop. The API's validation, cookies and tokens keep no
state; parsing of the environment, encryption and identifiers are functions of
bytes; the upload limit only sleeps; the dashboard calls the API that viewers'
and the administrator's actions stand for. FFmpeg, MediaMTX, MariaDB, cameras and
the file system are external: a statement of the store is atomic, a rename is
atomic, a write is not.

## 7. Plan

Done, in this order: the PTZ channel with its abstraction and proofs (the core:
the pattern of the other brokers); the WebRTC tunnel against the same
abstraction; playback; inventory; storage; media; ONVIF; enrollment and presence;
the cloud's recordings; `Timeline` above the two that fill the table of recordings;
proofs of every invariant and action property.

Next, most important first:

1. The cameras of `AgentMedia` in `Inventory`: rows of cameras that are disabled
   or move to direct access.
2. Exports in `PlaybackBroker`, with a range that is larger than the cache.
3. Pure functions: `restartDelay`, the parsing of segment names, checked against
   a definition over bounded inputs.

## 8. Running

In this directory, with the community modules on the path:

    tlc -workers 2 -config ptz_live.cfg MCPtzBroker.tla
    tlapm PtzBroker_proofs.tla

`runs` in `PROJECT.json` names the module and the configuration of each run.
