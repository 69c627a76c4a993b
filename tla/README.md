# eqrcp: specifications, model checks and proofs

eqrcp ("eqt") moves files between the devices of one local network. A Go server
on the desktop offers a page to send from, a page to receive into, and a chat
room in which the devices talk and exchange attachments; a Svelte client runs in
the browsers; a desktop program and a background agent start these servers; a
launcher, an updater, a licence and a certificate for the local network surround
them; a Cloudflare back end handles licences and certificates. This directory
holds TLA+ models of the parts whose behaviour depends on interleaving, failure
and recovery, the TLC runs that check them, and TLAPS proofs of what matters
most.

All commands are run in this directory:

    tlc -workers 2 -config ChatHost.cfg MCChatSession     # one run
    tlapm ChatSessionProofs.tla                           # one module of proofs

`PROJECT.json` lists the components, the runs, a mutant for each property, the
source lines each definition stands for, the hazards and the theorems.

## 1. Inventory

### Chat, version 2 (`pkg/chat/v2`)

| Component | State | Operations | Hard behaviour |
|---|---|---|---|
| Session (`session/session.go`) | `clients` by id, attachment paths, one `RWMutex` | Register, Unregister, Broadcast, SendText, RecallMessage, UpdateClient, KickClient, LoadHistory | an event is stored under one lock and fanned out under another; presence lists are copied before they are stored; a takeover by a newer connection of the same device |
| Message store (`session/message_store.go`, `history.go`, `replay_seq.go`) | the event log, `nextSeq`; messages shared by pointer between events | Add, Recall, MarkUploadComplete, MarkDownloaded, SelectMessageHistoryPage | exclusive cursors, page boundaries, flags that change under events already stored |
| Client (`session/client.go`) | send queue of 256, `done`, `closeOnce`, `Kicked` | Send (200 ms patience), Close, CloseReplaced, WritePump | slow browsers, failing writes, closing from another goroutine |
| Command loop (`transport/websocket.go`) | one goroutine per socket | the commands of the protocol; the deferred Unregister | a check (the kick tables) before an act (Register) |
| Transfer manager (`transfer/`) | a job per id with a lock of its own, the manager's map | CreateJob, StartJob, UpdateProgress, Complete, Fail, Cancel; a callback that broadcasts | look-up, update, export and broadcast are separate steps; a job may be replaced while it is used |
| File routes (`http/files.go`) | the rendezvous queue per file; one `readerChan` and `errChan` each | handleDownload, handleUploadStream, zip downloads | a GET waits up to 35 s for a POST that streams the file; either side may leave |
| Upload routes (`http/attachments.go`) | a temporary file, the job `ul-<id>` | upload/init, upload, local registration | a message announced before its file exists; failures at every step |
| Bandwidth scheduler (`bandwidth/`) | the active jobs, their probing phase and capacity | RegisterJob, UnregisterJob, LimitForJob, Throttle | jobs clobbering each other by id; shares, caps and floors |
| Session manager, cleanup | sessions by token; files on disk | GetOrCreate, CleanupUploads | clean-up started by the last departure |
| Web client (`web/src`) | `localStorage`: joinSeq, afterSeq; memory: messages, history pager, transfers | connect, reconnect with back-off, handleEvent, loadOlderHistory | a reload keeps one half of the state and loses the other |

### Transfer server (`pkg/server`)

| Component | State | Operations | Hard behaviour |
|---|---|---|---|
| Life cycle (`server.go`) | `stopChannel` of capacity 1, auto-stop, the status grace timer | New, Wait, signalStop, Shutdown, SetAutoStop | one stop token, two receivers; a timer that outlives what started it |
| Status and event stream | status with `seq`, subscribers, per-device state | updateStatus, handleStatusEvents, the status hook | send before subscribe; coalesced notifications |
| Send and receive handlers | client states, active connections, downloaded items, quota | the `/send` and `/receive` routes, tus uploads, StopClientTransfer | a device's last request decides for all; progress after the end |
| Chat limiter, licence | the usage file and its cache, the licence and its grace period | Increment, load, save, synchronise | crash between counting and saving; clock going back |
| Legacy chat (`chat.go`) | the chat of version 1, and the table of kicked devices version 2 consults | | superseded by version 2 |

### Around them

| Component | State | Operations | Hard behaviour |
|---|---|---|---|
| Desktop agent and GUI (`cmd/desktop_agent.go`, `desktop/gui/agent.go`, `app.go`) | the current transfer and the chat beside it, their stop callbacks, a queue, a history, subscribers | push, repeat, stop, replace, clear, restart; `observeTransferStatus` | a task's goroutine, its server's status hook and the user end it in any order |
| Certificates (`pkg/cert`) | key and certificate of a node, in two directories; the node identity | GetOrCreatePrivateKey, ProvisionCertificate, migration, rotation | the cloud binds a node to the first key it sees; crashes and failing renames |
| Settings (`pkg/config`) | one file, replaced by renames | read with self-heal, write, whole-file read-modify-write | what a failure or crash leaves behind |
| Updates (`pkg/server/update.go`) | the executable, its `.old`, the package, its signature and metadata | check, download, install, roll back, remove the old one | the program that replaces itself may die in between, or the new one may |
| Launcher (`cmd/eqt-launcher`, `desktop_agent.go`) | `agent.port`, processes, ports | post a task, start an agent, run it directly | several agents and launchers at once, stale port file |

Telemetry and crash reports and the Cloudflare workers (`cloudflare/`) are left
out; what the programs use of the workers is modelled as external.

### How they interact

A browser opens a WebSocket; the command loop creates a `Client`, greets it with
the current sequence number, and registers it with the room's `Session`, which
replays a page of history and announces the device. Commands and HTTP uploads
end in `Session.Broadcast`. A download creates a `Job`; every change of a job
goes through the manager's callback into `Session.Broadcast`, so transfer events
take sequence numbers of the same log as messages do, which moves every
browser's watermark. A download of a file that only the sender has waits in the
rendezvous queue, broadcasts `request_file_data`, and is fed by the sender's
POST. The kick tables live in the legacy chat session and are reached by hooks.

The agent runs a task in a goroutine that starts a server and waits for it; the
server's status hook calls back into the agent, and the stop callback the task
registered calls into the server. The launcher reaches an agent by HTTP. The
server asks the chat limiter whether a transfer is within the free quota, and
the limiter asks the licence; the desktop program provisions the certificate the
server is started with.

### What makes each part correct

* Session: one live connection per device; the replay and the live stream leave
  no gap; a recall catches up with every copy; unfinished uploads stay hidden;
  a dead client leaves; a stalled one cannot hold up the room; a kick closes.
* Web client: after any loss of connection or reload the browser holds, or can
  page back to, everything since it joined, and nothing from before.
* Transfers: a job ends when its handlers do; a cancel stops the stream; a body
  feeds one download; nobody waits for someone who has gone.
* Transfer server: a server that is to stay is not ended by a transfer; a stop is
  carried out; auto-stop comes once all have finished; "completed" means that all
  the bytes were sent.
* Agent: the buttons of a task reach its server; each transfer is recorded once;
  a stopped transfer makes room; a page learns of changes.
* Licence and quota: a good licence survives failures of the network; only the
  server's word about it takes it away; seconds are charged that were used.
* Certificates, settings, updates, launcher: a key is kept once it is there; no
  settings are lost; there is an executable to start; what the launcher shows
  about its task is so.

These are aims, and the code does not meet all of them in every case. What holds,
and under which conditions, is in sections 3 and 4; where it fails is in section
5. The hazards of the code, each at its line with the properties that watch it,
are in `PROJECT.json`.

## 2. Modules

| Module | Models | Composes or refines |
|---|---|---|
| `ChatSession` | the room: handlers, write pumps, uploads, store, lock | implements `ChatRoom` (property `RoomSpec`) |
| `ChatRoom` | what a room promises, with no locks or queues | - |
| `ChatSync` | one browser and what its connection sees of the room | - |
| `Downloads` | one file, one device: GET and POST handlers, commands, the manager | - |
| `TransferServer` | what sending and receiving share: status, devices, auto-stop, grace, the stop token | - |
| `SendServer`, `ReceiveServer` | the routes `/send` and `/receive` | extend `TransferServer` |
| `Server` | the whole transfer server and its properties | composes the two |
| `TaskAgent` | the task table of the HTTP agent and of the GUI | - |
| `Licence` | certificate file, its copy, the paid status, the server's answers | - |
| `ChatLimiter` | the day's quota in cache, file and cloud | composes with `Licence` |
| `Settings` | the settings file: what each operation may leave | - |
| `Provision` | key, certificate, node identity, the two callers | composes with `Settings` |
| `Updates` | check, download, install, roll back | - |
| `Throttle` | the bandwidth scheduler | - |
| `Launcher` | launchers, agents, `agent.port` | - |
| `MC...` | instances for TLC | extend the above |
| `ChatSessionProofs`, `ChatSyncProofs`, `DownloadsProofs`, `ServerProofs`, `TaskAgentProofs`, `ProvisionProofs`, `LicenceProofs`, `LauncherUpdatesProofs` | theorems | extend their modules (the last one `Launcher` and `Updates`) |

### ChatSession

Each connection is a goroutine with a program counter `pc`; uploads are threads
of their own. The correspondence:

* `store` is `MessageStore.events`; an event's `Seq` is its index. Since the
  events of one message share a pointer, `Uploading` and `Recalled` are sets of
  messages (`uploading`, `recalled`) and not fields of events.
* `clients` is `Session.clients`. `Session.mu` is not a variable: a fan-out is a
  thread at `pc = "fan"`, and the actions that lock for writing wait for
  `NoReaders`.
* `link` joins a connection's socket, its `done` channel and its queue: `"up"`,
  `"full"` (nobody is reading), `"lost"` (the socket failed and nobody has
  closed the client yet), `"closed"`, `"replaced"`. `Send` has the outcomes of
  `Client.Send`; its 200 ms are the choice between `WritePump` draining a full
  queue and `Send` closing the client.
* `Connect`, `Insert`, `CloseOld`, `Select`, `SendPage`, `EndPage`, `Snapshot`,
  `Add`, `FanStart`, `FanSend`, `FanDone` are the steps of a registration and of
  a broadcast, cut where a lock is released or another goroutine can observe the
  difference. A broadcast is used by all commands; `resume` says where the
  handler continues and `notice` whether a system notice follows the presence
  event, as Register, Unregister and UpdateClient do.
* `hello`, `due`, `pushed` and `seen` are history variables.

A device's token, by which the host's table of kicked devices knows it, and its
peer id are one identity here.

Labels, avatars, themes and texts are left out: whether a label changed is a
choice. `file` events without an upload are like texts. Transfer and
`request_file_data` events only take sequence numbers; `ChatSync` has them.

### ChatRoom

One log, a slot per device, who joined, who has ended, what each was given. It
says that an event is handed only to a connection that joined, has not ended and
may see it; that only a newer connection of the same device, or the holder
itself, vacates a slot; that the log is append-only and a message is hidden from
its first event or never.

### ChatSync

The other end of the wire. The log is reduced to "message" (replayed) and
"other" (not replayed, but counted by the watermark). The browser is
`resolveConnectAfterSeq`, `handleEvent` and the pager; `wire` is the queue, the
socket and what the browser has not read. The constant `Overlap` decides whether
an event may be stored while another is being fanned out or while the browser is
between its hello and `Insert`; `Notices` whether the page writes a system
notice into its own list while it is offline. The greeting sent before the
connect command only resets the pager, which the hello does again, and is left
out. The browser is a phone in a room with system notices, as the application
configures it: its handler announces it with a presence event and a notice, each
after the fan-out of the one before (`Announce`), and its departure likewise
(`Left`); notices are messages, replayed like any other. `MaxPosts` bounds what
the other devices post. A browser asks for older pages once its registration is
complete.

### Downloads

One file and one device, hence one job id. `jobs` keeps every `Job` object ever
created for the id, because a handler that looked one up may still hold it after
`CreateJob` put another in its place; `current` is the one in the map. A call of
the manager is the sequence `Lookup`, `UpdateState` or `UpdateProgress`,
`ToEvent`, `Emit`; `view` is the state in the last event broadcast. `waiting` is
the rendezvous queue, `body` and `done` the two channels. A chunk is a
`progressWriter.Write`: the check of the job, then the write.

### TransferServer, SendServer, ReceiveServer, Server

One server serves one route over the same devices, so the two routes are modules
over the variables of `TransferServer`, and `Server` interleaves them. Its
constant `Setups` is a set of records that say what there is to transfer, what
the browsers do (retry, fetch an archive, ask for ranges, post a form, stop
polling) and what the host does; one is chosen at the start.

* `token` is `stopChannel` (capacity 1); `waiters` are its receivers in order:
  `Wait`, and the ticker that wakes every subscriber and leaves when it finds a
  value. `asked` and `asleep` count the goroutines of
  `signalStopAfterStatusGrace`; a `SignalStop` on a full channel is dropped. A
  page that cannot be written out, because its browser has left, and a listener
  that fails ask for the stop whatever the server is set to; `broken` records it.
* `client`, `conns`, `progress`, `seen`, `ignored` are the maps of the client
  mutex; `AllFinished` is `isAllActiveClientsFinished` over them.
* A download is a request with a program counter in `rq`: `Begin`, `Look`,
  `Prepare`, then `Count` and `Show` for each chunk, `EndStream`, `Settle`,
  `Mark`, `Decide`, `Leave` - cut where the handler releases one lock before it
  takes another. The device may ask again while an earlier request of its is still
  being handled. `sent` is a history variable of the bytes written, `overlapped`
  one of the devices that asked so.
* An upload page announces a batch, patches its files and reports that it is
  done; the two goroutines of the upload library's channels are `ProgressEvent`,
  `ProgressShow` and `Save`, `Tell`, `LookAgain`, `DecideArrival`. A
  form is `PostForm` to `FormFinish`.

### TaskAgent

Every operation runs under `agent.mu`, so each is a function from one value of
`agent` to the next (`Offer`, `Record`, `Free`, `ReplaceActive`, `Observe`, ...),
and an action applies it with `Do`. The goroutine of a task is `run[g]`: resolve,
install the status hook, register the stop callback, show the page, serve, wait,
finish. `setup.gui` tells the two copies of the code apart where they differ: in
what is kept in the history, in how a push replaces a running task, in the ready
channel by which a push waits for the outcome. `hasty` is a history variable: some
task was stopped or replaced before it had registered its callback.
`stream` is a page on `/events`: it is sent a status (`SendFirst`), then
subscribes (`subscribeEvents`), then sends a status for each signal it takes
(`TakeSignal`, `SendStatus`) if the version is a new one. `fresh` says whether it
shows the present view, `missed` whether it is behind by a change no signal
tells of: one between the first status and the subscription, or the
`lastError` that a push refused for a full queue clears without `touchLocked`.
`MaxTasks` bounds the tasks of one process, and no setup allows more.

### Licence and ChatLimiter

An operation of the licence (boot, verify, refresh, activate, reset) is the
sequence of its locked sections, run by a goroutine with a script. The server
answers with what it knows (`bound`, `gone`) or not at all; `epoch` counts the
leases of seven days that ran out. `ChatLimiter` adds the usage record, the file,
the cloud's rows per day and the deltas on their way to it, and the network's
clock; an hour of the model is half a day. `id` is the device's id, which the
server gives it (`Identify`) and may replace: a record carries the id it was
signed with (`key`), and one that another id signed does not verify and locks the
day. `spent` counts what was used by the day the computer counted it on, `late`
what the cloud dated on another. `Reaching` joins the steps of the licence that
reset the quota.

### Settings and Provision

An operation of the settings file is the set of configurations it may leave, one
for each error path; a crash may leave what `Interrupted` says. In `Provision`
each of the two callers (the silent check at startup, the user's switch) walks
through check, key, request, save and failure; between the steps the server may
start, days pass, and the program crash. Key 1 is the one an older installation
left in the old directory. Its migration is a thread of its own for each caller
(`copy`), under the lock of the call, and for a server that starts, under none:
`Migrate` looks, `CopyCert` copies the certificate, `CutKey` truncates
`privkey.pem` and `WriteKey` writes it, and each may be the last. A file between
the two is `HalfKey`, which does not parse; any key file may fail to be read
(`Unreadable`). `misread` records that a call made a key in the place of one
it could not use, `crossed` that a server's copy wrote into the directory during a
call. A copy of the directory at the start of another command
(`maybeMigrateLegacyConfig`, `pkg/config/config.go:224`) is not modelled.

### Updates, Throttle, Launcher

`Updates` has a file for each path on disk as the number of the version it holds,
and a process with a program counter; whatever is not one atomic rename is two
steps. `Throttle` takes the floor of 32 KB/s as the unit of rates; what a
measurement gives is any rate of `Measures`. `Launcher` numbers the ports, those
tried first and one more for each agent that asks the system for one. A launcher
posts its task in two rounds at most; `request` says of each round at which agent
it is and whether that has taken it up. `handleTasks` takes up a task, in a step
of its own, whether or not the launcher still waits: `Unanswered` is the second
the client waits, or a connection that is gone because the agent ended (`Cut`).
`lost` are the requests given up, `started` what was taken up or run directly.

## 3. Runs

| Run | Instance | Checks |
|---|---|---|
| `ChatReconnect` | two connections of one phone, one-message pages, one fault, connects that resume | `SinglePeerConnection`, `ReplayMeetsLive`, refinement of `ChatRoom`, `DeadLeaves`, `BroadcastReturns` |
| `ChatHost` | a phone with the desktop host or with an uploading device | `KickCloses`, `RecallReaches`, `UploadHidden` |
| `Sync` | two rooms: a warm browser that loses its connection twice; a reload amid overlap, one-message pages | `Complete`, `ReloadRestores`, `NoLeak`, `PageComing` |
| `DlShared` | two GETs of a stored or streamed file, one start or cancel command | `JobSettles`, `CancelStops` |
| `DlMeet` | two GETs and two POSTs | `OneBody`, `RendezvousLive`, `SenderReleased` |
| `Server` | two devices, sixteen setups | `KeepAliveStays`, `CompletedMeansSent`, `SettlesComplete`, `StopReturns`, `AutoStopConverges` |
| `Agent` | fifteen uses of the two agents, up to three tasks, a history of two | `OwnControls`, `OneRecord`, `StreamWakes`, `GivesWay` |
| `Licence` | five scripts one at a time, three pairs at startup, five uses of the quota, one of them with the device's id replaced | `LeaseHonoured`, `NeverOvercharged`, `WipeDeserved` |
| `Provision` | without and with an old directory, which calls and a server copy; two node identities, three keys, one manual call, one crash, failing renames | `IdentityStays`, `ReadyMeansServed`, `KeyKept`, `NothingLost` |
| `Updates` | three versions of which the second is broken, both programs, Windows and not, failing writes, one crash | `Bootable`, `OnlyVerified`, `RollbackDeserved` |
| `Throttle` | three transfers, one file that devices ask for by name | `DegradedCapped`, `SharedFairly` |
| `Launcher` | one launcher, three agents, two ports of which one is another program's, answers of any delay, one death | `AnswerTrue`, `NoSecond` |

What they show, and why the bounds suffice:

* The chat runs have two connections because every race of this code is between
  two handlers (a takeover, a kick, a fan-out and a registration); a page of one
  or two messages makes "more to come" happen; one fault is enough for a client
  to stall in the middle of a fan-out or of a page. `MaxCommands` bounds the
  commands of all connections together, `MaxFaults` the stalls and failing
  writes; registrations and departures are not bounded, each connection lives
  once.
* `ChatHost` explores two halves by the constraint `HostOrUpload`: the host takes
  part and stays, the phone comes for the first time and is lost only when it
  has been kicked, and the second command follows a kick or a recall while the
  phone is there; or the upload takes part, with a fault.
* The first room of `Sync` has pages larger than what one interruption can miss:
  the hello of a warm reconnect resets the pager, so with smaller pages an older
  page that was not loaded before is out of reach until a reload. `Complete`
  holds only without overlap: a broadcast that overtakes another advances the
  watermark over an event that is then lost with the connection; of that loss no
  run says anything. The second room
  is the other half: whatever was lost, a reload restores it. Two things break
  that and are kept out by its bounds: a notice the page wrote itself before it
  reconnected makes the list non-empty, so the connect counts as warm; and so
  does a connection lost in the middle of the page that follows the reload.
* `JobSettles` leaves out jobs that `start_transfer` created (`early`): one that
  comes after the end of the download leaves a job running that nothing ends.
  `CancelStops` allows one chunk for each cancelled job: the check before the
  write may have passed.
* `PageComing` is the safety half of "a requested older page arrives".
* `Server` takes one or two items of one or two units, at most two requests of
  two devices: enough for a retry, also while the old handler still runs, and for
  one device to finish while the other begins. Each of the sixteen setups allows
  one or two kinds of trouble; all together are out of TLC's reach. Each
  property names what it is about by its hypothesis, and section 5 says why:
  `KeepAliveStays` counts a page or listener that broke as the host's stop,
  `CompletedMeansSent` leaves out ranges and devices whose requests overlapped,
  `StopReturns` a stop that comes before `Wait` (the ticker can take that one, so
  the property does not catch the theft), `AutoStopConverges` archives and
  devices that stop polling. `SettlesComplete` leaves out devices that also
  post a form: it forgets the files that came before, and a progress event still
  on its way lists one of them again, so the last file of the next batch leaves
  its device transferring. Three batches of two units show it, more than the run
  has; the attempt to prove the property without that hypothesis found it.
* `Agent` has two or three tasks (`MaxTasks`): one that runs, one that replaces it, one that
  waits. `OwnControls` says nothing once a task was stopped or replaced before it
  had registered (`hasty`), section 5 says what happens then.
* `Licence` has two codes that this build signs and one that it does not, and a
  device that is given one id and then another; concurrent operations are those
  of startup, see section 5. `MaxTime` allows one midnight.
* `Provision`: two identities allow one rotation, three keys one for each
  identity and a superfluous one. One manual call meets the silent check, and
  both meet the settings page and the server. With an old directory its copies
  are cut short wherever they may be, and the constraint `KeysAlone` leaves out the
  settings' other writers, which the instances without one have, and in all of them
  what follows once a key was misread: `KeyKept` and `IdentityStays` make an exception
  of it.
* `Updates`: from version 1 to a broken 2 and to 3, so a rollback, a repeated
  update, and an update past the broken one all happen. `Bootable` says that the
  executable is whole, or on Windows that its predecessor lies beside it as
  `exe.old`, which nothing starts by itself. The run leaves out renames that are
  refused ("locked"), processes that do not start ("spawn") and a download in the
  half second before the installation ("hurry").
* `Throttle`: three transfers, so that two of different classes share while a
  third is measured, comes or goes; the rates lie below, within and above the
  caps. `DegradedCapped` is about devices that ask for a file once at a time, and
  `SharedFairly` about the limits of all jobs computed at one moment; limits that
  were fetched at different moments may exceed the pool until they are fetched
  again. `Launcher`: three agents, so that one may die, one start and one replace
  it, the first port belonging to another program. The run leaves out "slow", an
  agent that is still there 800 ms after it was asked to restart, for the size of
  it; both theorems admit it. `AnswerTrue` is about the requests the launcher has
  an answer of, so it does not exclude that a task is started twice, and
  `NoSecond` about agents that start when another already listens, not about two
  that start together. Assumed of the surroundings: a health check on
  the loopback is answered in time, and another program does not answer 202.

Fairness. `ChatReconnect` and `DlMeet`: a handler that can step does (goroutines
are scheduled), a fan-out goes on, the 35 s timer fires. `Server`: the grace
timer, the receivers of the stop channel, started handlers and the upload
library's goroutines run on, the disk answers. `Agent`: tasks and their stop
callbacks run on. Nobody is obliged to connect, send a command, stop reading,
poll, retry, or close a sender's request, and no action of the host is fair. The
other runs check safety only and have no fairness. Deadlock is not checked
where everything may have come to its end: the chat's connections, the server,
finished scripts and bounded calls.

## 4. Proofs

Every theorem holds for every value of the constants its module's assumptions
allow: any sets of connections, requests, agents or tasks, any bounds. The
assumptions are evaluated by the runs. Where a property fails because of
something the code does not exclude, the theorem has a hypothesis that excludes
it; the runs satisfy each hypothesis, and section 5 says what happens without.

### The chat room

| Theorem | States | Argument |
|---|---|---|
| `TypeCorrect`, `TypeInvariant` | `Spec => []Typed`, `[]TypeOK` | `Typed` adds to `TypeOK` that every stored seq, cursor, page and draft refers to the log as it is; `TypeOK` alone is not inductive, because what a handler sends is an event of the log |
| `FanoutStaysWithinRoom` | `[]FanoutWithinRoom` | a thread that is not in a fan-out visits nobody; every action that changes `clients` waits for `NoReaders` |
| `OneConnectionPerPeer` | `[]SinglePeerConnection` | inductive over `Typed`; the handler that superseded a connection keeps it as its target until it is closed |
| `KickedAreClosed` | `[]KickCloses` | strengthened by: a thread that has yet to connect is neither in the room nor kicked |
| `UploadsStayHidden` | `[]UploadHidden` | a message is hidden from its first event on, so no event about it can have been given before |
| `RoomInvariant` | `[]RoomInv` | what the next three need: which events the log has about a message, what a thread's draft is about, where each connection stands between registration and the end of its replay |
| `RecallsReach` | `[]RecallReaches` | one lemma carries an event that a client may see along its way (draft, log, fan-out, page): after every step it has been given or is still on its way |
| `ReplaysMeetLive` | `KeepsBoundary` implies `[]ReplayMeetsLive` | the page that is selected holds all that was owed between its floor and its ceiling or leaves a cursor to it, and everything stored later is on its way by the fan-out. `KeepsBoundary`: a browser that resumes after a message sends the boundary of its join too, as the client does |
| `SessionImplementsRoom` | `Spec => RoomSpec` | the refinement of `ChatRoom`. The room's log is the store with its messages' flags, its slots are the clients by device, who joined is who was inserted, who ended is who is no longer alive, and what was given is `pushed`. `Insert`, `Unregister`, `Add`, `UploadComplete` and the sends are steps of the room; the rest are stutters |

They rest on `ThreadAssumption` (uploads are not connections), `PeerAssumption`
(each thread has a device) and `BoundAssumption` (the bounds are naturals and
the page is not empty). `TypeOK` and `FanoutWithinRoom` are proved and no longer
checked by a run.

### The chat's browser

| Theorem | States | Argument |
|---|---|---|
| `NothingLeaks` | `[]NoLeak` | once a hello is sent nothing older is in flight, on a page or on the wire, and each command carries its seq as the boundary (`LeakInv`); in force from the hello's dispatch, not only its arrival |
| `SpinnersEnd` | `[]PageComing` | inductive over the type invariant |
| `ReloadBringsBack` | `[][Notify => reloads = 0]_vars` implies `[]ReloadRestores` | `Phases`: the browser waits for one page at a time, and an older one begins where its messages do; `Covered`: each message since the join is held, in flight, on the page, on the wire, or older than a cursor that is known or on its way; `FromJoin`: the connect asks from the join |
| `ReconnectsComplete` | `[][~Reload /\ (Drop => ~CutShort)]_vars` implies `[]Complete` | in addition `OneFlight`: only the newest event may be in flight; `InOrder`: nothing on the wire lies before the watermark but the older pages; so whoever loses the connection holds all up to its watermark, and `Asking` says that its connect asks for the rest |

All from `SyncAssumption`; the last two also assume a room that is not empty at
the join (section 5). `CutShort` is a browser with older messages yet to be
scrolled to, or that would have once what is on its way has arrived. Neither
hypothesis can be left out, section 3 says what happens without.

### Downloads

| Theorem | States | Argument |
|---|---|---|
| `TypeCorrect` | `[]TypeOK` | which program counters a thread of each kind has during a call of the manager |
| `JobsSettle` | `[]JobSettles` | while the newest object is neither over nor early, some handler will still close it: it has not begun the call it leaves after, has not looked the job up in it, or found that very object |
| `CancelsStop` | `[]CancelStops` | a handler past its check and before its write counts as the one chunk it may be late with; no object leaves the set of the cancelled |
| `OneBodyEach`, `RendezvousStaysLive` | `[]OneBody`, `[]RendezvousLive` | a rendezvous is queued once, by a handler that waits or is leaving; whoever takes it offers its body there and nowhere else |

From `DownloadsAssumption`: requests, senders and commands are different
threads, a file has at least one chunk.

### Transfer server and bandwidth

| Theorem | States | Argument |
|---|---|---|
| `StaysInvariant` | `Spec => []StaysInv` | while a server is to stay and auto-stop was never on, no goroutine is on its way to the token: the places that may end a transfer look at `autoStop`, so the invariant adds that an `autoStop` that is on was switched on; the places that do not look, a page or a listener that fails, leave their mark in `broken` |
| `KeptAlive` | `[]KeepAliveStays` | follows; `KeepAliveStays` alone is not inductive. A stop is the host's, or that of a page or listener that broke |
| `SentInvariant` | `Spec => []SentInv` | for one item and no parts, and of each device that is not `overlapped`: what it was sent is a beginning of the item; its count is not ahead of that until it has everything; at most one request of it is in flight, so only that one holds its connection; a request that finds its device transferring, and therefore goes on from the older count, belongs to a device that has everything. Devices that are `overlapped` stay so, and do not touch the counts of others |
| `CompletedAreSent` | `[]CompletedMeansSent` | follows: whoever is marked complete and not `overlapped` has passed `isClientFinished`, or was sent the last byte by a request that began where the device stood |
| `UploadInvariant` | `Spec => []UploadInv` | without forms, lost files and kicked devices: what a page has handed over is saved, all but the file being moved; nothing is listed beyond the batch the page is at; so the file told last finds all that is listed saved |
| `SettlesCompleted` | `[]SettlesComplete` | follows, for any number of batches: what a progress event lists late was handed over, or will be by the batch it belongs to |
| `CapHolds` | `ThrottleSpec => []DegradedCapped` | until a file is asked for twice, a name belongs to one running stream, so a degraded stream's job is the one it registered, and whatever its share is computed to be, `Clamped` has the last word |
| `SharesAreFair` | `ThrottleSpec => []SharedFairly` | finitely many names have a job (`Tabled`); a share rounded down, then clamped, is at most the exact share and one floor, so over any finite set the limits times the total are at most the pool times the capacities and a floor each (`SharesSum`), and the total is positive because an unknown capacity counts as the floor |

Of the server's, the first two need no assumption; the others rest on
`SetupAssumption` (an offer has an item and its items have a size, batches are
not empty) and `NoneAssumption`. The scheduler's two rest on `ThrottleAssumption`
(the rates are naturals, the floor and the degraded cap positive, the degraded
cap not above the paid one; files and requests have different names). The sums of
`SharedFairly` are folds over the jobs: what is said of them for every finite set
comes from a set of least size for which it would fail (`LeastIn`, `Subsets`),
and each fold is shown to be the sum of a function (`CapacitySum`, `LimitSum`,
`UseSum`).

### Task agent

| Theorem | States | Argument |
|---|---|---|
| `AgentInvariant` | `Spec => []Inv` | `Inv` is typing with `Base`, `Own`, `Rec` and `Once` |
| `ControlsAreOwn` | `[]OwnControls` | until a task is stopped or replaced before it has registered (`hasty`), or the agent leaves. `Own`: the callback is that of the task on show or not known yet; a goroutine that has not got to its server is that of the task on show, because until the callback is known only haste can take the place away; hence the id that `taskIDForAction` gave it, of whatever was on show by then, is its own |
| `RecordedOnce` | `[]OneRecord` | `Rec`: what has left its place is in the history, and in the GUI what is still on show but has lost its callback too, since a push replaces that without recording it; `Once`: `addHistoryLocked` looks before it adds |
| `StreamsWake` | `[]StreamWakes` | one lemma about the end of every locked step: what did not call `touchLocked` left the view as it was, or is recorded in `missed` |

From `SetupsAssumption` (a setup allows at most `MaxTasks` tasks of known kinds)
and `HistoryAssumption` (the history has room for one). Each operation is first
characterised by what it may change; `BaseStep`, `OwnStep` and `RecStep` then say
once, for all operations of that form, when each part is kept.

### Certificates, settings, updates, launcher

| Theorem | States | Argument |
|---|---|---|
| `ReadyIsServed` | `ProvisionSpec => []ReadyMeansServed` | whatever fails: the caller inside `provisionMu` is alone, works for the identity of the moment with a key it can use, and reports a certificate that serves, unless a server's copy came in between (`crossed`) |
| `KeysAreKept` | `ProvisionSpec => KeyKept` | an action property, with copies that are made by several processes at once and are cut short anywhere, until a key file is misread: half a key in a directory is half of the one in the old directory, which is only read, so a copy that goes on, or is made again, brings it back |
| `IdentitiesStay` | `[]IdentityStays` | under the same condition: the cloud knows the first node by the key this machine has, or by one it has lost for good |
| `SettingsAreKept` | `ProvisionSpec => NothingLost` | an action property, whatever fails: each configuration `Writings`, `Readings` and `Interrupted` may leave has the settings in one of the files |
| `OnlyVerifiedInstalled` | `UpdatesSpec => []OnlyVerified` | without "hurry": an installation the page allowed waits while no package is being written, so what was verified is what is installed |
| `StaysBootable` | `[]Bootable` | also without "locked": the executable is missing or partial only while its predecessor is beside it |
| `RollbacksDeserved` | `[]RollbackDeserved` | without "spawn" only: versions noted as good are never newer than the one that runs, and what is pending, offered or fetched never older; a program whose file was renamed is being replaced or has left a partial executable that nothing starts; so `exe.old` is what the running version was installed over |
| `AnswersTrue` | `LauncherSpec => []AnswerTrue` | whatever fails or comes late: a request that was refused or still waits was not taken up, one that says "taken" was, and a launcher goes on to the next round or to its own process only after it has given the last request up, so of those it has an answer of it holds one at most |
| `NoSecondAgent` | `[]NoSecond` | whatever fails: an agent that met another on the first free port when it began is still looking for its own, and has not got past that one; the first free port exists because fewer are taken than are tried |

"hurry", "locked" and "spawn" of `Updates` are members of its constant `Faults`
that the runs leave out. None of them could be admitted; TLC then finds a
violation: of `OnlyVerified` with "hurry", of `Bootable` with "locked" or with
"hurry", of `RollbackDeserved` with "spawn" (the rollback that cannot start the
previous version runs on as the version it has just replaced, and is noted). The
exceptions of `KeyKept` and `IdentityStays` are not assumptions about the
surroundings but events of the model: `misread` comes true when a call reads a
key file that is half written, or cannot read one that is there, and takes it for
one that is not. The first needs no failure: a server that migrates under no lock
is enough.

### Licence and quota

| Theorem | States | Argument |
|---|---|---|
| `ChargesAreOwed` | `Spec => [](Steady => NeverOvercharged)` | `Steady`: nobody has turned the clock and the device's id was not replaced once it had one. Then no load ever sees a clock that went back or a record that does not verify (`HonestInv`), so it neither locks a day nor raises the flag; each record counts at most what was spent on its day and what the cloud dated on it, and for each day the cloud's rows with the deltas still on their way are at most that (`Balanced`), so an answer, however late, is honest too. What is used before midnight and arrives after it is charged on both days |
| `LicenceTypeCorrect` | `[](Typed /\ Held)` | one lemma per step says what it does to its task; `Held`: whoever has the lock of a sync is in one, and asks about a certificate this build's key signed |
| `WipesDeserved` | `Solo` or `OneCode` implies `WipeDeserved` | `Gone`: from the answer to the removal the code asked about is not bound again. The file removed is of that code because one goroutine runs (`Whole`), or because all are about one code that nobody activates meanwhile (`About`) |
| `LeasesHonoured` | `[](Undisturbed => LeaseHonoured)` | `Lasts`: with a good certificate on disk the status is paid at every point but inside an operation that will set it; a refused certificate is not good, a wiped one is not there. With `HonestInv`, because the quota's loads may take the status away |

From `CodesAssumption`, `PlansAssumption` and `LimiterAssumption` (the plans are
of the right form, the allowances are positive). `Undisturbed`: one goroutine,
fingerprints that come in time, a clock that nobody turned and an id that was not
replaced. Without any one of
the first three TLC finds `LeaseHonoured` violated (a verification that overlaps the
renewal of a lapsed lease, one that does not wait long enough for the
fingerprints, a clock that went back), and without `OneCode` or `Solo`
`WipeDeserved` (an activation of another code during a sync). All plans of the
run satisfy the hypothesis of `WipesDeserved`; for the pairs at startup
`LeaseHonoured` is checked by the run only.

### Only model-checked

* `LeaseHonoured` for goroutines that overlap.
* Liveness (`DeadLeaves`, `BroadcastReturns`, `SenderReleased`, `StopReturns`,
  `AutoStopConverges`, `GivesWay`) is out of the prover's reach and stays with
  TLC.

## 5. Disagreements met while modelling

What the code does where a comment, a document or a neighbouring program leads
one to expect something else. The models have these behaviours; the properties
that hold say in their hypotheses what they leave out: without the hypothesis TLC
finds the behaviour.

| Where | What happens |
|---|---|
| `chat/v2/session/session.go:162` | an event is stored under one lock and fanned out under another, so a later one may overtake it; a browser that loses its connection in between never gets it by reconnecting, only by a reload, against `web/src/services/reconnectSeq.ts:4-5` |
| `chat/v2/session/session.go:254` | two registrations cross: the lists are copied before the events are stored, and the last presence event lists one device of two, against "Broadcast presence update to sync lists across all clients" (`:586`) |
| `web/src/services/websocket.ts:424` | the first browser of an empty room gets a hello of seq 0, stores no join boundary, and a reload loses its history, against `reconnectSeq.ts:7-10`; the runs start from a room with an event |
| `chat/v2/http/files.go:343` | the receiver times out between the sender's two steps, and the sender waits until it leaves, against "Wait until the receiver finishes reading the stream, or cancels" |
| `chat/v2/transfer/manager.go:123` | a stale transfer event is broadcast after the final one, so the devices show running for a job that has ended |
| `chat/v2/bandwidth/scheduler.go:83` | a device that asks for a file twice shares one job between the requests: the second replaces the first's cap, the first to end leaves the other without one, against `:67` |
| `pkg/server/server.go:3715` | a receive page that cannot be written out ends the server although it is to stay, against `docs/test/state-machine-contract-testing-plan.md:52-54` |
| `pkg/server/server.go:2835` | a retry that overlaps the handler of the broken request is counted on top of it, and the device is completed with bytes missing, against `:3052` |
| `pkg/server/server.go:2268` | the status ticker receives from the stop channel too; a stop that comes before `Wait` may be lost to it, against `:2287` |
| `pkg/server/server.go:3141` | an archive is judged before its device is marked: the last device's request finds itself unfinished and auto-stop never comes, against `docs/test/state-machine-contract-testing-plan.md:55-57,94` |
| `pkg/server/server.go:646` | a second batch is judged with the bytes of the first, so a device may be completed and the server end before the second has arrived |
| `pkg/server/server.go:505` | a progress event shown late puts the status of a completed server back to transferring, against `docs/desktop-integration-plan.md:202` |
| `cmd/desktop_agent.go:1396` | a status hook that ends the task's record starts the next one while the goroutine and server of the ended one still run |
| `cmd/desktop_agent.go:1280` (`desktop/gui/agent.go:902`) | a task that is replaced before it has registered its callback is not stopped: its server starts, and the new task waits until it ends, against `docs/desktop-integration-plan.md:257`; or the callback of one task serves another's button |
| `cmd/desktop_agent.go:266` | a page is sent a status before it subscribes, and learns of a change in between only from `/status`, which it asks every five seconds |
| `desktop/gui/agent.go:224,279` | transfers in which nothing was transferred are kept out of the history, but the test is for an action `send` where tasks say `share`: an empty share stays in it, an empty receive does not |
| `pkg/server/license.go:768` | the answer about a revoked certificate arrives after another code was activated, and the reset wipes the wrong one |
| `pkg/server/chat_limiter.go:618` | a second used before midnight that reaches the cloud after it is charged on both days, against `README.md:30` |
| `pkg/server/chat_limiter.go:418` | once the server has replaced the device's id, the day's record does not verify and the day is locked, against `:419` |
| `pkg/cert/provisioner.go:160` | the key is migrated by a write that truncates first, by a server under no lock; a call that reads it in between, or after a crash, makes a new key in spite of "REFUSE to silently generate a new key" (`:217`) |
| `pkg/config/resilience.go:149` | a crash between the two renames leaves the settings in the `.old` file, which nothing reads back |
| `pkg/server/update.go:452` | outside Windows the previous executable is not kept, so a broken version is not rolled back, against `docs/IMPORTANT_auto-update-design.md:73` |
| `cmd/desktop_agent.go:1032` | the background agent installs a package without the check the desktop program makes (`:137` of the same document) |
| `cmd/eqt-launcher/main.go:21` | an agent that answers after the second has taken up the task, and the launcher posts it again or runs it itself, against `docs/desktop-integration-plan.md:258` |
| `cmd/desktop_agent.go:2088` | agents that start together before any listens all stay, against the one agent of `docs/desktop-integration-plan.md:265` |

## 6. Plan left

* Modules: the upload's own job and the clean-up after the last departure; the
  server's event stream with its subscribers; the circuit breaker, single flight
  and token bucket of the Cloudflare workers.

## 7. Not modelled

Rendering and wording, file contents, the formats on the wire, mobile suspension
of the page, several tabs sharing one `localStorage`, zip downloads of the chat,
the data race between a queued event's serialisation and a change of its
message, names and folders on disk, windows, dialogs and tray, the self-signed
certificate, the legacy chat but for its kick table, telemetry, and the
Cloudflare workers.
